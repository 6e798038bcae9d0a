------------------------- MODULE MessageStreamProofs -------------------------
(***************************************************************************)
(* Proofs about StreamConnection and MessageStream, for any messages, any  *)
(* capacity and any main loop.                                             *)
(***************************************************************************)
EXTENDS MessageStream, SequenceTheorems, TLAPS

\* Most steps are first-order: Zenon proves them.  SMT is cited where a step
\* needs arithmetic or sequences.
USE Zenon

\* Concatenation of byte sequences is associative.
LEMMA ConcatOfBytes ==
  \A s, t, u \in Seq(Nat) : (s \o t) \o u = s \o (t \o u)
BY SMTT(30)

\* The two parts into which the kernel splits what it is given make up the
\* whole.
LEMMA SplitData ==
  ASSUME NEW data \in Seq(Nat), NEW k \in 0 .. Len(data)
  PROVE  /\ SubSeq(data, 1, k) \in Seq(Nat)
         /\ SubSeq(data, k + 1, Len(data)) \in Seq(Nat)
         /\ SubSeq(data, 1, k) \o SubSeq(data, k + 1, Len(data)) = data
<1>1. Len(data) \in Nat /\ \A i \in 1 .. Len(data) : data[i] \in Nat
  BY LenProperties, ElementOfSeq
<1>2. SubSeq(data, 1, k) \in Seq(Nat)
  BY <1>1, SubSeqProperties, SMT
<1>3. SubSeq(data, k + 1, Len(data)) \in Seq(Nat)
  BY <1>1, SubSeqProperties, SMT
<1>4. SubSeq(data, 1, k) \o SubSeq(data, k + 1, Len(data))
        = SubSeq(data, 1, Len(data))
  <2>1. 1 \in 1 .. Len(data) + 1 /\ k \in 1 - 1 .. Len(data)
        /\ Len(data) \in k .. Len(data)
    BY <1>1, SMT
  <2> QED BY <2>1, ConcatAdjacentSubSeq, ZenonT(30)
<1> QED BY <1>2, <1>3, <1>4, SubSeqFull, ZenonT(30)

\* writeBytesNonBlocking keeps the types, and on a connection on which
\* nothing waits it keeps the order of the data.
LEMMA WriteBytes ==
  ASSUME TypeOK, NEW pending \in Seq(Nat), NEW data \in Seq(Nat),
         writeBytesNonBlocking(pending, data)
  PROVE  /\ sent' \in Seq(Nat)
         /\ m_dataToBeSent' \in Seq(Nat)
         /\ outputWatched' \in BOOLEAN
         /\ Len(sent) <= Len(sent')
         /\ pending = <<>> => sent' \o m_dataToBeSent' = sent \o data
         /\ m_dataToBeSent' # <<>> => pending # <<>> \/ outputWatched'
         /\ outputWatched => outputWatched'
<1> PICK k \in 0 .. Len(data) :
      /\ sent' = sent \o SubSeq(data, 1, k)
      /\ enqueueData(pending, SubSeq(data, k + 1, Len(data)))
  BY ZenonT(30) DEF writeBytesNonBlocking
<1> DEFINE taken == SubSeq(data, 1, k)
           rest == SubSeq(data, k + 1, Len(data))
<1>1. taken \in Seq(Nat) /\ rest \in Seq(Nat) /\ taken \o rest = data
  BY SplitData, ZenonT(30)
<1>2. sent \in Seq(Nat) BY DEF TypeOK
<1>3. sent' = sent \o taken /\ m_dataToBeSent' = pending \o rest
  BY DEF enqueueData
<1>4. outputWatched' = (rest # <<>> \/ outputWatched)
  BY DEF enqueueData
<1> HIDE DEF taken, rest
<1>5. sent' \in Seq(Nat) /\ m_dataToBeSent' \in Seq(Nat)
  BY <1>1, <1>2, <1>3, ConcatProperties, ZenonT(30)
<1>6. Len(sent) <= Len(sent')
  BY <1>1, <1>2, <1>3, ConcatProperties, LenProperties, SMT
<1>7. outputWatched' \in BOOLEAN /\ (outputWatched => outputWatched')
  BY <1>4, ZenonT(30)
<1>8. ASSUME pending = <<>> PROVE sent' \o m_dataToBeSent' = sent \o data
  <2>1. m_dataToBeSent' = rest
    BY <1>1, <1>3, <1>8, ConcatEmptySeq
  <2>2. (sent \o taken) \o rest = sent \o (taken \o rest)
    BY <1>1, <1>2, ConcatOfBytes, ZenonT(30)
  <2> QED BY <1>1, <1>3, <2>1, <2>2, ZenonT(30)
<1>9. ASSUME m_dataToBeSent' # <<>>, pending = <<>> PROVE outputWatched'
  <2>1. rest # <<>>
    BY <1>3, <1>9, <1>1, ConcatEmptySeq
  <2> QED BY <1>4, <2>1, ZenonT(30)
<1> QED BY <1>5, <1>6, <1>7, <1>8, <1>9, ZenonT(30)
-----------------------------------------------------------------------------
\* The bytes of a message.
LEMMA MessageBytes ==
  ASSUME NEW msg \in Message
  PROVE  /\ msg.size \in Seq(Nat)
         /\ msg.payload \in Seq(Nat)
         /\ msg.size \o msg.payload \in Seq(Nat)
<1>1. msg.size \in Seq(Nat) /\ msg.payload \in Seq(Nat)
  BY MessageAssumption
<1> QED BY <1>1, ConcatProperties

\* A message is written: what the kernel and the buffer hold afterwards.
LEMMA WriteMessage ==
  ASSUME TypeOK, NEW msg \in Message, write(msg)
  PROVE  /\ sent' \in Seq(Nat)
         /\ m_dataToBeSent' \in Seq(Nat)
         /\ outputWatched' \in BOOLEAN
         /\ Len(sent) <= Len(sent')
         /\ m_dataToBeSent' # <<>> => isCongested \/ outputWatched'
         /\ outputWatched => outputWatched'
         /\ Transport = "UDS" => sent' \o m_dataToBeSent' =
              (sent \o m_dataToBeSent) \o (msg.size \o msg.payload)
<1> DEFINE data == msg.size \o msg.payload
<1>1. data \in Seq(Nat) BY MessageBytes
<1>2. sent \in Seq(Nat) /\ m_dataToBeSent \in Seq(Nat)
      /\ outputWatched \in BOOLEAN
  BY DEF TypeOK
<1>3. CASE isCongested /\ enqueueData(m_dataToBeSent, data) /\ UNCHANGED sent
  <2>1. sent' = sent /\ m_dataToBeSent' = m_dataToBeSent \o data
    BY <1>3 DEF enqueueData
  <2>2. outputWatched' = (data # <<>> \/ outputWatched)
    BY <1>3 DEF enqueueData
  <2> HIDE DEF data
  <2>3. m_dataToBeSent' \in Seq(Nat)
    BY <1>1, <1>2, <2>1, ConcatProperties
  <2>4. outputWatched' \in BOOLEAN /\ (outputWatched => outputWatched')
    BY <2>2, ZenonT(30)
  <2>5. sent' \o m_dataToBeSent' = (sent \o m_dataToBeSent) \o data
    BY <1>1, <1>2, <2>1, ConcatOfBytes, ZenonT(30)
  <2>6. Len(sent) <= Len(sent')
    BY <1>2, <2>1, LenProperties, SMT
  <2>7. isCongested BY <1>3
  <2> QED BY <1>2, <2>1, <2>3, <2>4, <2>5, <2>6, <2>7 DEF data
<1>4. CASE writeBytesNonBlocking(m_dataToBeSent, data)
  <2> HIDE DEF data
  <2>1. /\ sent' \in Seq(Nat) /\ m_dataToBeSent' \in Seq(Nat)
        /\ outputWatched' \in BOOLEAN
        /\ Len(sent) <= Len(sent')
        /\ m_dataToBeSent = <<>> => sent' \o m_dataToBeSent' = sent \o data
        /\ m_dataToBeSent' # <<>> => m_dataToBeSent # <<>> \/ outputWatched'
        /\ outputWatched => outputWatched'
    BY <1>1, <1>2, <1>4, WriteBytes, ZenonT(30)
  <2>2. ASSUME Transport = "UDS" 
        PROVE sent' \o m_dataToBeSent' = (sent \o m_dataToBeSent) \o data
    <3>1. CASE m_dataToBeSent = <<>>
      BY <1>2, <2>1, <3>1, ConcatEmptySeq, ZenonT(30)
    <3>2. CASE m_dataToBeSent # <<>>
      <4>1. isCongested BY <3>2 DEF isCongested
      <4>2. enqueueData(m_dataToBeSent, data) /\ UNCHANGED sent
        BY <2>2, <4>1 DEF write, writeNonBlocking, data
      <4>3. sent' = sent /\ m_dataToBeSent' = m_dataToBeSent \o data
        BY <4>2 DEF enqueueData
      <4> QED BY <1>1, <1>2, <4>3, ConcatOfBytes, ZenonT(30)
    <3> QED BY <3>1, <3>2, SMTT(30)
  <2> QED BY <2>1, <2>2, ZenonT(30) DEF isCongested, data
<1> QED BY <1>3, <1>4, ZenonT(30) DEF write, writeNonBlocking, sendMessage

\* The output watch runs: what the kernel and the buffer hold afterwards.
LEMMA WritePending ==
  ASSUME TypeOK, onWritingPossible
  PROVE  /\ sent' \in Seq(Nat)
         /\ m_dataToBeSent' \in Seq(Nat)
         /\ outputWatched' = TRUE
         /\ Len(sent) <= Len(sent')
         /\ sent' \o m_dataToBeSent' = sent \o m_dataToBeSent
<1>1. m_dataToBeSent \in Seq(Nat) /\ <<>> \in Seq(Nat)
  BY EmptySeq DEF TypeOK
<1>2. writeBytesNonBlocking(<<>>, m_dataToBeSent) /\ outputWatched
  BY DEF onWritingPossible
<1>3. outputWatched' \in BOOLEAN /\ (outputWatched => outputWatched')
  BY <1>1, <1>2, WriteBytes, ZenonT(30)
<1> QED BY <1>1, <1>2, <1>3, WriteBytes, ZenonT(30)

-----------------------------------------------------------------------------
(* The writer.                                                             *)

LEMMA TypeInit == Init => TypeOK
<1> SUFFICES ASSUME Init PROVE TypeOK
  OBVIOUS
<1>1. <<>> \in Seq(Nat) /\ <<>> \in Seq(Message) /\ Len(sent) = 0
  BY EmptySeq DEF Init
<1>2. read \in 0 .. Len(sent)
  BY <1>1, SMT DEF Init
<1>3. /\ m_dataToBeSent \in Seq(Nat) /\ sent \in Seq(Nat)
      /\ written \in Seq(Nat) /\ messages \in Seq(Message)
  BY <1>1, ZenonT(30) DEF Init
<1>4. /\ connected \in BOOLEAN /\ outputWatched \in BOOLEAN
      /\ peerOpen \in BOOLEAN
  BY ZenonT(30) DEF Init
<1> QED BY <1>2, <1>3, <1>4 DEF TypeOK

LEMMA TypeStep == TypeOK /\ [Next]_vars => TypeOK'
<1> SUFFICES ASSUME TypeOK, [Next]_vars PROVE TypeOK'
  OBVIOUS
<1> USE DEF TypeOK
<1>1. ASSUME NEW msg \in Message, write(msg) PROVE TypeOK'
  <2>1. written' \in Seq(Nat)
    BY <1>1, MessageBytes, ConcatProperties DEF write
  <2>2. messages' \in Seq(Message)
    BY <1>1, AppendProperties DEF write
  <2>3. connected' = connected /\ read' = read /\ peerOpen' = peerOpen
    BY <1>1 DEF write
  <2>4. Len(sent) \in Nat /\ Len(sent') \in Nat /\ Len(sent) <= Len(sent')
    BY <1>1, WriteMessage, LenProperties, ZenonT(30)
  <2>5. read' \in 0 .. Len(sent')
    BY <2>3, <2>4, SMT
  <2> QED BY <1>1, <2>1, <2>2, <2>3, <2>5, WriteMessage, ZenonT(30)
<1>2. ASSUME onWritingPossible PROVE TypeOK'
  <2>1. /\ connected' = connected /\ read' = read /\ peerOpen' = peerOpen
        /\ written' = written /\ messages' = messages
    BY <1>2 DEF onWritingPossible
  <2>2. read' \in 0 .. Len(sent')
    BY <1>2, <2>1, WritePending, LenProperties, SMT
  <2> QED BY <1>2, <2>1, <2>2, WritePending
<1>3. ASSUME disconnect PROVE TypeOK'
  BY <1>3, ZenonT(30) DEF disconnect
<1>4. ASSUME peerReads PROVE TypeOK'
  BY <1>4, LenProperties, SMT DEF peerReads
<1>5. ASSUME peerCloses PROVE TypeOK'
  BY <1>5, ZenonT(30) DEF peerCloses
<1>6. ASSUME UNCHANGED vars PROVE TypeOK'
  BY <1>6 DEF vars
<1> QED BY <1>1, <1>2, <1>3, <1>4, <1>5, <1>6 DEF Next

LEMMA OrderStep ==
  Transport = "UDS" => (TypeOK /\ DataOrderKept /\ [Next]_vars => DataOrderKept')
<1> HAVE Transport = "UDS"
<1> SUFFICES ASSUME TypeOK, DataOrderKept, [Next]_vars
             PROVE  DataOrderKept'
  OBVIOUS
<1> USE DEF DataOrderKept
<1>1. ASSUME NEW msg \in Message, write(msg) PROVE DataOrderKept'
  <2>1. sent' \o m_dataToBeSent' = written \o (msg.size \o msg.payload)
    BY <1>1, WriteMessage, ZenonT(30)
  <2>2. written' = written \o msg.size \o msg.payload
    BY <1>1 DEF write
  <2>3. written \in Seq(Nat) BY DEF TypeOK
  <2> QED BY <2>1, <2>2, <2>3, MessageBytes, ConcatOfBytes, ZenonT(30)
<1>2. ASSUME onWritingPossible PROVE DataOrderKept'
  BY <1>2, WritePending DEF onWritingPossible
<1>3. ASSUME disconnect \/ peerReads \/ peerCloses \/ UNCHANGED vars
      PROVE  DataOrderKept'
  BY <1>3, ZenonT(30) DEF disconnect, peerReads, peerCloses, vars
<1> QED BY <1>1, <1>2, <1>3 DEF Next

LEMMA WatchStep == TypeOK /\ PendingIsWatched /\ [Next]_vars => PendingIsWatched'
<1> SUFFICES ASSUME TypeOK, PendingIsWatched, [Next]_vars
             PROVE  PendingIsWatched'
  OBVIOUS
<1> USE DEF PendingIsWatched, isCongested
<1>1. ASSUME NEW msg \in Message, write(msg) PROVE PendingIsWatched'
  <2>1. connected /\ connected' = connected
    BY <1>1 DEF write
  <2>2. /\ m_dataToBeSent' # <<>> => m_dataToBeSent # <<>> \/ outputWatched'
        /\ outputWatched => outputWatched'
    BY <1>1, WriteMessage, ZenonT(30)
  <2> QED BY <2>1, <2>2
<1>2. ASSUME onWritingPossible PROVE PendingIsWatched'
  BY <1>2, WritePending
<1>3. ASSUME disconnect \/ peerReads \/ peerCloses \/ UNCHANGED vars
      PROVE  PendingIsWatched'
  BY <1>3, ZenonT(30) DEF disconnect, peerReads, peerCloses, vars
<1> QED BY <1>1, <1>2, <1>3 DEF Next

\* What holds when the connection is opened.
LEMMA Opened == Init => DataOrderKept /\ PendingIsWatched
BY EmptySeq, ConcatEmptySeq DEF Init, DataOrderKept, PendingIsWatched, isCongested

\* The types of the connection's state, for both transports.
THEOREM TypeCorrect == Spec => []TypeOK
BY TypeInit, TypeStep, PTL DEF Spec

\* On a local connection the order of the data is always kept, whatever the
\* kernel takes of each write and whenever the output watch runs.
THEOREM OrderKept == Transport = "UDS" => (Spec => []DataOrderKept)
<1> SUFFICES ASSUME Transport = "UDS" PROVE Spec => []DataOrderKept
  OBVIOUS
<1>1. TypeOK /\ DataOrderKept /\ [Next]_vars => DataOrderKept' BY OrderStep
<1> QED BY <1>1, Opened, TypeCorrect, PTL DEF Spec

\* No data waits on an open connection without the output watch, for both
\* transports.
THEOREM PendingWatched == Spec => []PendingIsWatched
BY Opened, WatchStep, TypeCorrect, PTL DEF Spec

-----------------------------------------------------------------------------
(* The reader.                                                             *)

\* Message i starts after byte start[i] of what was written.
Framed(start) ==
  /\ start \in [1 .. Len(messages) + 1 -> 0 .. Len(written)]
  /\ start[1] = 0
  /\ start[Len(messages) + 1] = Len(written)
  /\ \A i \in 1 .. Len(messages) :
       /\ start[i + 1] = start[i] + SizeBytes + Len(messages[i].payload)
       /\ \A k \in 1 .. SizeBytes : written[start[i] + k] = messages[i].size[k]
       /\ \A k \in 1 .. Len(messages[i].payload) :
            written[start[i] + SizeBytes + k] = messages[i].payload[k]

\* The reader has handled the first messages and is within the next one.
Reading(start) ==
  LET n == Len(received) + 1 IN
  /\ n <= Len(messages) + 1
  /\ \A i \in 1 .. Len(received) : received[i] = messages[i].payload
  /\ read = start[n] + Len(lengthBytes) + Len(payload)
  /\ Len(lengthBytes) <= SizeBytes
  /\ IF Len(lengthBytes) = SizeBytes
     THEN n <= Len(messages) /\ Len(payload) < Len(messages[n].payload)
     ELSE payload = <<>>
  /\ \A k \in 1 .. Len(lengthBytes) : lengthBytes[k] = written[start[n] + k]
  /\ \A k \in 1 .. Len(payload) : payload[k] = written[start[n] + SizeBytes + k]

ReaderTyped ==
  lengthBytes \in Seq(Nat) /\ payload \in Seq(Nat) /\ received \in Seq(Seq(Nat))

StreamInv ==
  /\ TypeOK
  /\ DataOrderKept
  /\ ReaderTyped
  /\ \E start : Framed(start) /\ Reading(start)

\* The bytes of a message after those of the messages before it.
LEMMA ThreeParts ==
  ASSUME NEW w \in Seq(Nat), NEW s \in Seq(Nat), NEW p \in Seq(Nat), NEW v, v = w \o s \o p
  PROVE  /\ v \in Seq(Nat)
         /\ Len(v) = Len(w) + Len(s) + Len(p)
         /\ \A k \in 1 .. Len(w) : v[k] = w[k]
         /\ \A k \in 1 .. Len(s) : v[Len(w) + k] = s[k]
         /\ \A k \in 1 .. Len(p) : v[Len(w) + Len(s) + k] = p[k]
<1> DEFINE u == w \o s
<1>1. Len(w) \in Nat /\ Len(s) \in Nat /\ Len(p) \in Nat
  BY LenProperties
<1>2. /\ u \in Seq(Nat) /\ Len(u) = Len(w) + Len(s)
      /\ \A i \in 1 .. Len(w) + Len(s) : u[i] = IF i <= Len(w) THEN w[i] ELSE s[i - Len(w)]
  BY ConcatProperties
<1>3. v = u \o p OBVIOUS
<1> HIDE DEF u
<1>4. /\ v \in Seq(Nat) /\ Len(v) = Len(u) + Len(p)
      /\ \A i \in 1 .. Len(u) + Len(p) : v[i] = IF i <= Len(u) THEN u[i] ELSE p[i - Len(u)]
  <2>1. /\ u \o p \in Seq(Nat) /\ Len(u \o p) = Len(u) + Len(p)
        /\ \A i \in 1 .. Len(u) + Len(p) :
             (u \o p)[i] = IF i <= Len(u) THEN u[i] ELSE p[i - Len(u)]
    <3>1. u \in Seq(Nat) BY <1>2
    <3> QED BY ONLY <3>1, p \in Seq(Nat), ConcatProperties
  <2> QED BY <1>3, <2>1
<1>5. ASSUME NEW k \in 1 .. Len(w) PROVE v[k] = w[k]
  <2>1. k <= Len(u) /\ k \in 1 .. Len(u) + Len(p) /\ k \in 1 .. Len(w) + Len(s) /\ k <= Len(w)
    BY <1>1, <1>2, SMT
  <2> QED BY <1>2, <1>4, <2>1
<1>6. ASSUME NEW k \in 1 .. Len(s) PROVE v[Len(w) + k] = s[k]
  <2> DEFINE i == Len(w) + k
  <2>1. i <= Len(u) /\ i \in 1 .. Len(u) + Len(p) /\ i \in 1 .. Len(w) + Len(s)
        /\ ~(i <= Len(w)) /\ i - Len(w) = k
    BY <1>1, <1>2, SMT
  <2> HIDE DEF i
  <2>2. v[i] = s[k] BY <1>2, <1>4, <2>1
  <2> QED BY <2>2 DEF i
<1>7. ASSUME NEW k \in 1 .. Len(p) PROVE v[Len(w) + Len(s) + k] = p[k]
  <2> DEFINE i == Len(w) + Len(s) + k
  <2>1. i \in 1 .. Len(u) + Len(p) /\ ~(i <= Len(u)) /\ i - Len(u) = k
    BY <1>1, <1>2, SMT
  <2> HIDE DEF i
  <2>2. v[i] = p[k] BY <1>4, <2>1
  <2> QED BY <2>2 DEF i
<1>8. Len(v) = Len(w) + Len(s) + Len(p) BY <1>2, <1>4
<1> QED BY <1>4, <1>5, <1>6, <1>7, <1>8

LEMMA Within ==
  ASSUME NEW a \in Nat, NEW b \in Nat, NEW c \in Nat, NEW d \in Nat, a + b + c <= d
  PROVE  /\ \A k \in 1 .. b : a + k \in 1 .. d
         /\ \A k \in 1 .. c : a + b + k \in 1 .. d
BY SMT

\* What has been sent is the beginning of what was written.
LEMMA SentIsPrefix ==
  ASSUME TypeOK, DataOrderKept
  PROVE  /\ Len(sent) \in Nat /\ Len(written) \in Nat /\ Len(messages) \in Nat
         /\ read \in Nat /\ read <= Len(sent) /\ Len(sent) <= Len(written)
         /\ \A k \in 1 .. Len(sent) : sent[k] = written[k]
         /\ written \in Seq(Nat) /\ sent \in Seq(Nat) /\ messages \in Seq(Message)
         /\ \A i \in 1 .. Len(messages) : messages[i] \in Message
<1>1. sent \in Seq(Nat) /\ m_dataToBeSent \in Seq(Nat) /\ written \in Seq(Nat)
      /\ messages \in Seq(Message) /\ read \in 0 .. Len(sent)
  BY DEF TypeOK
<1>2. Len(sent) \in Nat /\ Len(m_dataToBeSent) \in Nat /\ Len(written) \in Nat
      /\ Len(messages) \in Nat
  BY <1>1, LenProperties
<1>3. written = sent \o m_dataToBeSent BY DEF DataOrderKept
<1>4. /\ Len(written) = Len(sent) + Len(m_dataToBeSent)
      /\ \A i \in 1 .. Len(sent) + Len(m_dataToBeSent) :
           written[i] = IF i <= Len(sent) THEN sent[i] ELSE m_dataToBeSent[i - Len(sent)]
  BY <1>1, <1>3, ConcatProperties
<1>5. ASSUME NEW k \in 1 .. Len(sent) PROVE sent[k] = written[k]
  <2>1. k \in 1 .. Len(sent) + Len(m_dataToBeSent) /\ k <= Len(sent) BY <1>2, SMT
  <2> QED BY <1>4, <2>1
<1>6. \A i \in 1 .. Len(messages) : messages[i] \in Message
  BY <1>1, ElementOfSeq
<1> QED BY <1>1, <1>2, <1>4, <1>5, <1>6, SMT

\* recv returns bytes that were written.
LEMMA Recv ==
  ASSUME TypeOK, DataOrderKept, NEW n \in Nat, read + n <= Len(sent)
  PROVE  /\ recv(n) \in Seq(Nat)
         /\ Len(recv(n)) = n
         /\ \A k \in 1 .. n : recv(n)[k] = written[read + k]
<1>1. /\ Len(sent) \in Nat /\ read \in Nat /\ sent \in Seq(Nat)
      /\ \A k \in 1 .. Len(sent) : sent[k] = written[k]
  BY SentIsPrefix
<1>2. \A i \in read + 1 .. read + n : i \in 1 .. Len(sent) BY <1>1, SMT
<1>3. \A i \in read + 1 .. read + n : sent[i] \in Nat BY <1>1, <1>2, ElementOfSeq
<1>4. read + 1 \in Int /\ read + n \in Int BY <1>1, SMT
<1>5. /\ recv(n) \in Seq(Nat)
      /\ Len(recv(n)) = IF read + 1 <= read + n THEN (read + n) - (read + 1) + 1 ELSE 0
      /\ \A i \in 1 .. (read + n) - (read + 1) + 1 : recv(n)[i] = sent[(read + 1) + i - 1]
  BY <1>3, <1>4, SubSeqProperties, SMT DEF recv
<1>6. Len(recv(n)) = n BY <1>1, <1>5, SMT
<1>7. ASSUME NEW k \in 1 .. n PROVE recv(n)[k] = written[read + k]
  <2>1. k \in 1 .. (read + n) - (read + 1) + 1 /\ (read + 1) + k - 1 = read + k
        /\ read + k \in 1 .. Len(sent)
    BY <1>1, SMT
  <2> QED BY <1>1, <1>5, <2>1
<1> QED BY <1>5, <1>6, <1>7

\* Bytes are added to those that were read before: they continue the stream.
LEMMA Continued ==
  ASSUME TypeOK, DataOrderKept, NEW n \in Nat, read + n <= Len(sent),
         NEW old \in Seq(Nat), NEW first \in Nat, read = first + Len(old),
         \A k \in 1 .. Len(old) : old[k] = written[first + k]
  PROVE  /\ old \o recv(n) \in Seq(Nat)
         /\ Len(old \o recv(n)) = Len(old) + n
         /\ \A k \in 1 .. Len(old) + n : (old \o recv(n))[k] = written[first + k]
<1> DEFINE new == recv(n)
<1>1. new \in Seq(Nat) /\ Len(new) = n /\ \A k \in 1 .. n : new[k] = written[read + k]
  BY Recv
<1>2. Len(old) \in Nat BY LenProperties
<1> HIDE DEF new
<1>3. /\ old \o new \in Seq(Nat) /\ Len(old \o new) = Len(old) + Len(new)
      /\ \A i \in 1 .. Len(old) + Len(new) :
           (old \o new)[i] = IF i <= Len(old) THEN old[i] ELSE new[i - Len(old)]
  BY <1>1, ConcatProperties
<1>4. ASSUME NEW k \in 1 .. Len(old) + n PROVE (old \o new)[k] = written[first + k]
  <2>1. CASE k <= Len(old)
    <3>1. k \in 1 .. Len(old) BY <1>2, <2>1, SMT
    <3> QED BY <1>1, <1>3, <2>1, <3>1
  <2>2. CASE ~(k <= Len(old))
    <3>1. k - Len(old) \in 1 .. n /\ read + (k - Len(old)) = first + k BY <1>2, <2>2, SMT
    <3> QED BY <1>1, <1>3, <2>2, <3>1
  <2> QED BY <2>1, <2>2
<1>5. Len(old \o new) = Len(old) + n BY <1>1, <1>3
<1> QED BY <1>3, <1>4, <1>5 DEF new

\* A message is written: it starts where the others end, and the reader, which
\* is not beyond that, is not disturbed.
LEMMA FramedWrite ==
  ASSUME StreamInv, NEW msg \in Message,
         written' = written \o msg.size \o msg.payload, messages' = Append(messages, msg),
         UNCHANGED <<read, readerVars>>
  PROVE  (\E start : Framed(start) /\ Reading(start))'
<1>0. TypeOK /\ DataOrderKept /\ ReaderTyped BY DEF StreamInv
<1>1. PICK start : Framed(start) /\ Reading(start) BY DEF StreamInv
<1> DEFINE n == Len(messages)
           W == Len(written)
           P == Len(msg.payload)
           r == Len(received) + 1
<1>2. /\ W \in Nat /\ n \in Nat /\ read \in Nat /\ read <= W
      /\ written \in Seq(Nat) /\ messages \in Seq(Message)
      /\ \A i \in 1 .. n : messages[i] \in Message
  BY <1>0, SentIsPrefix, SMT
<1>3. /\ msg.size \in Seq(Nat) /\ msg.payload \in Seq(Nat)
      /\ Len(msg.size) = SizeBytes /\ SizeBytes \in Nat /\ SizeBytes # 0 /\ P \in Nat
  BY MessageAssumption, FramingAssumption, LenProperties
<1>4. /\ Len(written') = W + SizeBytes + P
      /\ \A k \in 1 .. W : written'[k] = written[k]
      /\ \A k \in 1 .. SizeBytes : written'[W + k] = msg.size[k]
      /\ \A k \in 1 .. P : written'[W + SizeBytes + k] = msg.payload[k]
  <2>1. /\ Len(written') = Len(written) + Len(msg.size) + Len(msg.payload)
        /\ \A k \in 1 .. Len(written) : written'[k] = written[k]
        /\ \A k \in 1 .. Len(msg.size) : written'[Len(written) + k] = msg.size[k]
        /\ \A k \in 1 .. Len(msg.payload) :
             written'[Len(written) + Len(msg.size) + k] = msg.payload[k]
    <3>1. written \in Seq(Nat) /\ msg.size \in Seq(Nat) /\ msg.payload \in Seq(Nat)
      BY <1>2, <1>3
    <3>2. PICK w, s, p : w = written /\ s = msg.size /\ p = msg.payload OBVIOUS
    <3>3. PICK v : v = w \o s \o p OBVIOUS
    <3>4. w \in Seq(Nat) /\ s \in Seq(Nat) /\ p \in Seq(Nat) BY <3>1, <3>2
    <3>5. /\ Len(v) = Len(w) + Len(s) + Len(p)
          /\ \A k \in 1 .. Len(w) : v[k] = w[k]
          /\ \A k \in 1 .. Len(s) : v[Len(w) + k] = s[k]
          /\ \A k \in 1 .. Len(p) : v[Len(w) + Len(s) + k] = p[k]
      BY ONLY <3>3, <3>4, ThreeParts
    <3>6. v = written' BY <3>2, <3>3
    <3> QED BY <3>2, <3>5, <3>6
  <2> QED BY <1>3, <2>1
<1>5. /\ Len(messages') = n + 1 /\ messages'[n + 1] = msg
      /\ \A i \in 1 .. n : messages'[i] = messages[i]
  BY <1>2, AppendProperties, SMT
<1>6. /\ start \in [1 .. n + 1 -> 0 .. W] /\ start[1] = 0 /\ start[n + 1] = W
      /\ \A i \in 1 .. n :
           /\ start[i + 1] = start[i] + SizeBytes + Len(messages[i].payload)
           /\ \A k \in 1 .. SizeBytes : written[start[i] + k] = messages[i].size[k]
           /\ \A k \in 1 .. Len(messages[i].payload) :
                written[start[i] + SizeBytes + k] = messages[i].payload[k]
  BY <1>1 DEF Framed
<1>7. /\ r <= n + 1
      /\ \A i \in 1 .. Len(received) : received[i] = messages[i].payload
      /\ read = start[r] + Len(lengthBytes) + Len(payload)
      /\ Len(lengthBytes) <= SizeBytes
      /\ IF Len(lengthBytes) = SizeBytes
         THEN r <= n /\ Len(payload) < Len(messages[r].payload)
         ELSE payload = <<>>
      /\ \A k \in 1 .. Len(lengthBytes) : lengthBytes[k] = written[start[r] + k]
      /\ \A k \in 1 .. Len(payload) : payload[k] = written[start[r] + SizeBytes + k]
  BY <1>1 DEF Reading
<1>8. /\ Len(received) \in Nat /\ Len(lengthBytes) \in Nat /\ Len(payload) \in Nat
      /\ lengthBytes' = lengthBytes /\ payload' = payload /\ received' = received
      /\ read' = read
  BY <1>0, LenProperties DEF ReaderTyped, readerVars
<1>9. PICK new : new = [i \in 1 .. n + 2 |-> IF i <= n + 1 THEN start[i]
                                              ELSE W + SizeBytes + P]
  OBVIOUS
<1> HIDE DEF n, W, P, r
<1>10. /\ DOMAIN new = 1 .. n + 2 /\ new[n + 2] = W + SizeBytes + P
       /\ \A i \in 1 .. n + 1 : new[i] = start[i]
       /\ new = [i \in 1 .. n + 2 |-> new[i]]
  BY <1>2, <1>9, SMT
<1>11. \A i \in 1 .. n + 1 : start[i] \in 0 .. W BY <1>6
<1>12. new \in [1 .. n + 2 -> 0 .. W + SizeBytes + P]
  <2>1. ASSUME NEW i \in 1 .. n + 2 PROVE new[i] \in 0 .. W + SizeBytes + P
    <3>1. CASE i \in 1 .. n + 1
      <4>1. new[i] = start[i] /\ start[i] \in 0 .. W BY <1>10, <1>11, <3>1
      <4> QED BY <1>2, <1>3, <4>1, SMT
    <3>2. CASE i = n + 2
      BY <1>2, <1>3, <1>10, <3>2, SMT
    <3> QED BY <1>2, <3>1, <3>2, SMT
  <2> QED BY <1>10, <2>1
<1>13. ASSUME NEW i \in 1 .. n + 1
       PROVE  /\ new[i + 1] = new[i] + SizeBytes + Len(messages'[i].payload)
              /\ \A k \in 1 .. SizeBytes : written'[new[i] + k] = messages'[i].size[k]
              /\ \A k \in 1 .. Len(messages'[i].payload) :
                   written'[new[i] + SizeBytes + k] = messages'[i].payload[k]
  <2>1. CASE i = n + 1
    <3>1. new[i] = W /\ new[i + 1] = W + SizeBytes + P /\ messages'[i] = msg
      <4>1. n + 1 \in 1 .. n + 1 /\ (n + 1) + 1 = n + 2 BY <1>2, SMT
      <4>2. new[n + 1] = W BY <1>6, <1>10, <4>1
      <4> QED BY <1>5, <1>10, <2>1, <4>1, <4>2
    <3> QED BY <1>4, <3>1 DEF P
  <2>2. CASE i \in 1 .. n
    <3>1. i \in 1 .. n + 1 /\ i + 1 \in 1 .. n + 1 BY <1>2, <2>2, SMT
    <3>2. new[i] = start[i] /\ new[i + 1] = start[i + 1] /\ messages'[i] = messages[i]
      BY <1>5, <1>10, <2>2, <3>1
    <3>3. messages[i] \in Message BY <1>2, <2>2
    <3>4. Len(messages[i].payload) \in Nat
      BY <3>3, MessageAssumption, LenProperties
    <3>5. start[i] \in Nat /\ start[i + 1] <= W /\ start[i + 1] \in Nat
          /\ start[i + 1] = start[i] + SizeBytes + Len(messages[i].payload)
      BY <1>2, <1>6, <1>11, <2>2, <3>1, SMT
    <3>a. W \in Nat /\ SizeBytes \in Nat BY <1>2, <1>3
    <3>6. \A k \in 1 .. SizeBytes : start[i] + k \in 1 .. W
      BY <3>a, <3>4, <3>5, Within
    <3>7. \A k \in 1 .. Len(messages[i].payload) : start[i] + SizeBytes + k \in 1 .. W
      BY <3>a, <3>4, <3>5, Within
    <3>8. \A k \in 1 .. SizeBytes : written'[start[i] + k] = messages[i].size[k]
      BY <1>4, <1>6, <2>2, <3>6
    <3>9. \A k \in 1 .. Len(messages[i].payload) :
            written'[start[i] + SizeBytes + k] = messages[i].payload[k]
      BY <1>4, <1>6, <2>2, <3>7
    <3> QED BY <3>2, <3>5, <3>8, <3>9
  <2> QED
    <3>1. n \in Nat BY <1>2
    <3>2. i = n + 1 \/ i \in 1 .. n BY <3>1, SMT
    <3> QED BY <2>1, <2>2, <3>2
<1>14. Framed(new)'
  <2>1. 1 \in 1 .. n + 1 /\ (n + 1) + 1 = n + 2 BY <1>2, SMT
  <2>2. new[1] = 0 BY <1>6, <1>10, <2>1
  <2>3. Len(messages') + 1 = n + 2 /\ Len(written') = W + SizeBytes + P
        /\ Len(messages') = n + 1
    BY <1>4, <1>5, <2>1
  <2>4. new[n + 2] = W + SizeBytes + P BY <1>10
  <2> QED BY <1>12, <1>13, <2>2, <2>3, <2>4 DEF Framed
<1>15. Reading(new)'
  <2>1. r \in 1 .. n + 1 /\ new[r] = start[r] /\ start[r] \in Nat
    <3>1. r \in Nat /\ r >= 1 BY <1>8, SMT DEF r
    <3>2. r \in 1 .. n + 1 BY <1>2, <1>7, <3>1, SMT
    <3>3. start[r] \in 0 .. W BY <1>11, <3>2
    <3>4. new[r] = start[r] BY <1>10, <3>2
    <3>5. start[r] \in Nat BY <1>2, <3>3, SMT
    <3> QED BY <3>2, <3>4, <3>5
  <2>2. \A k \in 1 .. Len(lengthBytes) : start[r] + k \in 1 .. W
    BY <1>2, <1>7, <1>8, <2>1, SMTT(30)
  <2>3. \A k \in 1 .. Len(payload) : start[r] + SizeBytes + k \in 1 .. W
    <3> SUFFICES ASSUME NEW k \in 1 .. Len(payload) PROVE start[r] + SizeBytes + k \in 1 .. W
      OBVIOUS
    <3>1. Len(lengthBytes) = SizeBytes BY <1>7, <1>8, SMT
    <3>2. read = start[r] + SizeBytes + Len(payload) BY <1>7, <3>1
    <3>3. /\ W \in Nat /\ read \in Nat /\ read <= W /\ SizeBytes \in Nat
          /\ start[r] \in Nat /\ Len(payload) \in Nat
      BY <1>2, <1>3, <1>8, <2>1
    <3>4. start[r] + SizeBytes + Len(payload) <= W BY <3>2, <3>3
    <3> QED BY <3>3, <3>4, Within
  <2>4. \A k \in 1 .. Len(lengthBytes) : lengthBytes[k] = written'[new[r] + k]
    BY <1>4, <1>7, <2>1, <2>2
  <2>5. \A k \in 1 .. Len(payload) : payload[k] = written'[new[r] + SizeBytes + k]
    BY <1>4, <1>7, <2>1, <2>3
  <2>6. \A i \in 1 .. Len(received) : i \in 1 .. n
    BY <1>2, <1>7, <1>8, SMT DEF r
  <2>7. \A i \in 1 .. Len(received) : received[i] = messages'[i].payload
    BY <1>5, <1>7, <2>6
  <2>8. r <= (n + 1) + 1 BY <1>2, <2>1, SMT
  <2>9. IF Len(lengthBytes) = SizeBytes
        THEN r <= n + 1 /\ Len(payload) < Len(messages'[r].payload)
        ELSE payload = <<>>
    <3>1. r <= n => r \in 1 .. n BY <1>2, <2>1, SMT
    <3> QED BY <1>2, <1>5, <1>7, <2>1, <3>1
  <2>10. read = new[r] + Len(lengthBytes) + Len(payload) BY <1>7, <2>1
  <2> QED BY <1>5, <1>7, <1>8, <2>4, <2>5, <2>7, <2>8, <2>9, <2>10 DEF Reading, r
<1> QED BY <1>14, <1>15

\* What the invariant says of the reader, and of the message it is within.
LEMMA ReaderFacts ==
  ASSUME StreamInv, NEW start, Framed(start), Reading(start), NEW r, r = Len(received) + 1
  PROVE  /\ TypeOK /\ DataOrderKept
         /\ r \in 1 .. Len(messages) + 1 /\ Len(received) \in Nat
         /\ start[r] \in Nat /\ start[r] <= Len(written)
         /\ (r = Len(messages) + 1 => start[r] = Len(written))
         /\ lengthBytes \in Seq(Nat) /\ payload \in Seq(Nat) /\ received \in Seq(Seq(Nat))
         /\ Len(lengthBytes) \in Nat /\ Len(payload) \in Nat
         /\ Len(lengthBytes) <= SizeBytes /\ SizeBytes \in Nat /\ SizeBytes # 0
         /\ (Len(lengthBytes) # SizeBytes => payload = <<>>)
         /\ read = start[r] + Len(lengthBytes) + Len(payload)
         /\ \A k \in 1 .. Len(lengthBytes) : lengthBytes[k] = written[start[r] + k]
         /\ \A k \in 1 .. Len(payload) : payload[k] = written[start[r] + SizeBytes + k]
         /\ \A i \in 1 .. Len(received) : received[i] = messages[i].payload
         /\ Len(lengthBytes) = SizeBytes =>
              r \in 1 .. Len(messages) /\ Len(payload) < Len(messages[r].payload)
<1>1. TypeOK /\ DataOrderKept /\ ReaderTyped BY DEF StreamInv
<1>2. /\ lengthBytes \in Seq(Nat) /\ payload \in Seq(Nat) /\ received \in Seq(Seq(Nat))
      /\ Len(lengthBytes) \in Nat /\ Len(payload) \in Nat /\ Len(received) \in Nat
  BY <1>1, LenProperties DEF ReaderTyped
<1>3. Len(messages) \in Nat /\ Len(written) \in Nat BY <1>1, SentIsPrefix
<1>4. SizeBytes \in Nat /\ SizeBytes # 0 BY FramingAssumption
<1>5. /\ r <= Len(messages) + 1
      /\ \A i \in 1 .. Len(received) : received[i] = messages[i].payload
      /\ read = start[r] + Len(lengthBytes) + Len(payload)
      /\ Len(lengthBytes) <= SizeBytes
      /\ IF Len(lengthBytes) = SizeBytes
         THEN r <= Len(messages) /\ Len(payload) < Len(messages[r].payload)
         ELSE payload = <<>>
      /\ \A k \in 1 .. Len(lengthBytes) : lengthBytes[k] = written[start[r] + k]
      /\ \A k \in 1 .. Len(payload) : payload[k] = written[start[r] + SizeBytes + k]
  BY DEF Reading
<1>6. r \in 1 .. Len(messages) + 1 BY <1>2, <1>3, <1>5, SMT
<1>7. /\ start \in [1 .. Len(messages) + 1 -> 0 .. Len(written)]
      /\ start[Len(messages) + 1] = Len(written)
  BY DEF Framed
<1>8. start[r] \in 0 .. Len(written) BY <1>6, <1>7
<1>9. r <= Len(messages) => r \in 1 .. Len(messages) BY <1>3, <1>6, SMT
<1>10. start[r] \in Nat /\ start[r] <= Len(written) BY <1>3, <1>8, SMT
<1>11. r = Len(messages) + 1 => start[r] = Len(written) BY <1>7
<1> QED BY <1>1, <1>2, <1>4, <1>5, <1>6, <1>9, <1>10, <1>11

LEMMA ReadLengthStep ==
  ASSUME StreamInv, readLength
  PROVE  ReaderTyped' /\ (\E start : Framed(start) /\ Reading(start))'
<1>1. PICK start : Framed(start) /\ Reading(start) BY DEF StreamInv
<1> DEFINE r == Len(received) + 1
           W == Len(written)
           a == Len(lengthBytes)
<1>2. /\ TypeOK /\ DataOrderKept
      /\ r \in 1 .. Len(messages) + 1 /\ Len(received) \in Nat
      /\ start[r] \in Nat /\ start[r] <= W
      /\ (r = Len(messages) + 1 => start[r] = W)
      /\ lengthBytes \in Seq(Nat) /\ payload \in Seq(Nat) /\ received \in Seq(Seq(Nat))
      /\ a \in Nat /\ SizeBytes \in Nat /\ SizeBytes # 0
      /\ (a # SizeBytes => payload = <<>>)
      /\ read = start[r] + a + Len(payload)
      /\ \A k \in 1 .. a : lengthBytes[k] = written[start[r] + k]
      /\ \A i \in 1 .. Len(received) : received[i] = messages[i].payload
  BY <1>1, ReaderFacts, SMT
<1>3. /\ a < SizeBytes
      /\ sent' = sent /\ written' = written /\ messages' = messages
      /\ payload' = payload /\ received' = received
  BY DEF readLength
<1>4. PICK n \in 1 .. SizeBytes - a :
        /\ read + n <= Len(sent) /\ read' = read + n /\ lengthBytes' = lengthBytes \o recv(n)
  BY DEF readLength
<1>5. a # SizeBytes BY <1>2, <1>3, SMT
<1>6. payload = <<>> /\ Len(payload) = 0 BY <1>2, <1>5
<1>7. read = start[r] + a BY <1>2, <1>6, SMT
<1>8. n \in Nat /\ n # 0 /\ a + n <= SizeBytes BY <1>2, <1>4, SMT
<1>9. /\ Len(sent) \in Nat /\ W \in Nat /\ Len(messages) \in Nat /\ read \in Nat
      /\ Len(sent) <= W /\ \A i \in 1 .. Len(messages) : messages[i] \in Message
  BY <1>2, SentIsPrefix
<1>10. /\ lengthBytes \o recv(n) \in Seq(Nat)
       /\ Len(lengthBytes \o recv(n)) = Len(lengthBytes) + n
       /\ \A k \in 1 .. Len(lengthBytes) + n :
            (lengthBytes \o recv(n))[k] = written[start[r] + k]
  <2>1. PICK first : first = start[r] OBVIOUS
  <2>2. first \in Nat /\ read = first + Len(lengthBytes) /\ lengthBytes \in Seq(Nat)
        /\ (\A k \in 1 .. Len(lengthBytes) : lengthBytes[k] = written[first + k])
        /\ TypeOK /\ DataOrderKept /\ n \in Nat /\ read + n <= Len(sent)
    BY <1>2, <1>4, <1>7, <1>8, <2>1
  <2>3. /\ lengthBytes \o recv(n) \in Seq(Nat)
        /\ Len(lengthBytes \o recv(n)) = Len(lengthBytes) + n
        /\ \A k \in 1 .. Len(lengthBytes) + n :
             (lengthBytes \o recv(n))[k] = written[first + k]
    BY <2>2, Continued
  <2> QED BY <2>1, <2>3
<1>11. /\ lengthBytes' \in Seq(Nat) /\ Len(lengthBytes') = a + n
       /\ \A k \in 1 .. Len(lengthBytes') : lengthBytes'[k] = written[start[r] + k]
  BY <1>4, <1>10
<1> HIDE DEF r, W, a
<1>12. ReaderTyped' BY <1>2, <1>3, <1>11 DEF ReaderTyped
<1>13. Framed(start)' BY <1>1, <1>3 DEF Framed
<1>14. read' = start[r] + Len(lengthBytes') + Len(payload')
  BY <1>2, <1>3, <1>4, <1>6, <1>7, <1>8, <1>11, SMTT(30)
<1>15. ASSUME Len(lengthBytes') = SizeBytes
       PROVE  r <= Len(messages) /\ Len(payload) < Len(messages[r].payload)
  <2>1. read' <= W /\ read' = start[r] + SizeBytes
    <3>1. read' = read + n /\ read + n <= Len(sent) /\ a + n = SizeBytes
      BY <1>4, <1>11, <1>15
    <3>2. a \in Nat /\ start[r] \in Nat BY <1>2
    <3> QED BY <1>7, <1>8, <1>9, <3>1, <3>2, SMT
  <2>2. r # Len(messages) + 1 BY <1>2, <1>9, <2>1, SMT
  <2>3. r \in 1 .. Len(messages)
    <3>1. r \in 1 .. Len(messages) + 1 BY <1>2
    <3>2. Len(messages) \in Nat BY <1>9
    <3> QED BY <2>2, <3>1, <3>2, SMT
  <2>4. messages[r].payload # <<>> /\ messages[r].payload \in Seq(Nat)
    BY <1>9, <2>3, MessageAssumption, FramingAssumption
  <2>5. Len(messages[r].payload) \in Nat /\ Len(messages[r].payload) # 0
    BY <2>4, LenProperties, EmptySeq
  <2> QED BY <1>6, <1>9, <2>3, <2>5, SMT
<1>16. Reading(start)'
  <2>1. \A k \in 1 .. Len(payload') : payload'[k] = written[start[r] + SizeBytes + k]
    BY <1>3, <1>6, SMT
  <2>2. Len(lengthBytes') <= SizeBytes BY <1>8, <1>11
  <2>3. r <= Len(messages) + 1 BY <1>2, <1>9, SMT
  <2>4. r = Len(received) + 1 BY DEF r
  <2>5. IF Len(lengthBytes') = SizeBytes
        THEN r <= Len(messages') /\ Len(payload') < Len(messages'[r].payload)
        ELSE payload' = <<>>
    BY <1>3, <1>6, <1>15
  <2> QED BY <1>2, <1>3, <1>11, <1>14, <2>1, <2>2, <2>3, <2>4, <2>5 DEF Reading
<1> QED BY <1>12, <1>13, <1>16

\* Sequences with the same elements are the same.
LEMMA SameSequence ==
  ASSUME NEW s \in Seq(Nat), NEW t \in Seq(Nat), Len(s) = Len(t),
         \A k \in 1 .. Len(s) : s[k] = t[k]
  PROVE  s = t
BY SeqEqual

LEMMA ReadPayloadStep ==
  ASSUME StreamInv, readPayload
  PROVE  ReaderTyped' /\ (\E start : Framed(start) /\ Reading(start))'
<1>1. PICK start : Framed(start) /\ Reading(start) BY DEF StreamInv
<1> DEFINE r == Len(received) + 1
           W == Len(written)
           p == Len(payload)
           first == start[r] + SizeBytes
           total == Len(messages[r].payload)
<1>2. /\ TypeOK /\ DataOrderKept
      /\ r \in 1 .. Len(messages) + 1 /\ Len(received) \in Nat
      /\ start[r] \in Nat /\ start[r] <= W
      /\ lengthBytes \in Seq(Nat) /\ payload \in Seq(Nat) /\ received \in Seq(Seq(Nat))
      /\ p \in Nat /\ SizeBytes \in Nat /\ SizeBytes # 0
      /\ read = start[r] + Len(lengthBytes) + p
      /\ \A k \in 1 .. Len(lengthBytes) : lengthBytes[k] = written[start[r] + k]
      /\ \A k \in 1 .. p : payload[k] = written[start[r] + SizeBytes + k]
      /\ \A i \in 1 .. Len(received) : received[i] = messages[i].payload
      /\ (Len(lengthBytes) = SizeBytes => r \in 1 .. Len(messages) /\ p < total)
  BY <1>1, ReaderFacts, SMT
<1>3. /\ Len(lengthBytes) = SizeBytes
      /\ sent' = sent /\ written' = written /\ messages' = messages
  BY DEF readPayload
<1>4. r \in 1 .. Len(messages) /\ p < total /\ read = first + p BY <1>2, <1>3
<1>5. /\ Len(sent) \in Nat /\ W \in Nat /\ Len(messages) \in Nat /\ read \in Nat
      /\ Len(sent) <= W /\ \A i \in 1 .. Len(messages) : messages[i] \in Message
  BY <1>2, SentIsPrefix
<1>6. messages[r] \in Message BY <1>4, <1>5
<1>7. /\ messages[r].size \in Seq(Nat) /\ messages[r].payload \in Seq(Nat)
      /\ Len(messages[r].size) = SizeBytes /\ total \in Nat
      /\ decode(messages[r].size) = total
  BY <1>6, MessageAssumption, FramingAssumption, LenProperties
<1>8. /\ \A k \in 1 .. SizeBytes : written[start[r] + k] = messages[r].size[k]
      /\ \A k \in 1 .. total : written[start[r] + SizeBytes + k] = messages[r].payload[k]
      /\ start[r + 1] = start[r] + SizeBytes + total
  BY <1>1, <1>4 DEF Framed
\* The size that was read is the size of this message.
<1>9. lengthBytes = messages[r].size
  <2>1. \A k \in 1 .. Len(lengthBytes) : lengthBytes[k] = messages[r].size[k]
    BY <1>2, <1>3, <1>8
  <2> QED BY <1>2, <1>3, <1>7, <2>1, SameSequence
<1>10. decode(lengthBytes) = total BY <1>7, <1>9
<1>11. PICK n \in 1 .. total - p :
         /\ read + n <= Len(sent) /\ read' = read + n
         /\ IF p + n = total
            THEN /\ received' = Append(received, payload \o recv(n))
                 /\ payload' = <<>> /\ lengthBytes' = <<>>
            ELSE /\ payload' = payload \o recv(n)
                 /\ received' = received /\ lengthBytes' = lengthBytes
  <2> HIDE DEF total
  <2> QED BY <1>10 DEF readPayload
<1>a. p \in Nat /\ total \in Nat /\ SizeBytes \in Nat /\ start[r] \in Nat BY <1>2, <1>7
<1>12. n \in Nat /\ n # 0 /\ p + n <= total
  <2> HIDE DEF p, total
  <2> QED BY <1>a, SMT
<1>13. PICK new : new = payload \o recv(n) OBVIOUS
<1>14. /\ new \in Seq(Nat) /\ Len(new) = p + n
       /\ \A k \in 1 .. p + n : new[k] = written[first + k]
  <2>1. PICK f : f = first OBVIOUS
  <2>2. f \in Nat /\ read = f + Len(payload) /\ payload \in Seq(Nat)
        /\ (\A k \in 1 .. Len(payload) : payload[k] = written[f + k])
        /\ TypeOK /\ DataOrderKept /\ n \in Nat /\ read + n <= Len(sent)
    <3>1. f \in Nat /\ read = f + Len(payload) BY <1>4, <1>a, <2>1, SMT
    <3>2. \A k \in 1 .. Len(payload) : payload[k] = written[f + k] BY <1>2, <2>1
    <3> QED BY <1>2, <1>11, <1>12, <3>1, <3>2
  <2>3. /\ payload \o recv(n) \in Seq(Nat)
        /\ Len(payload \o recv(n)) = Len(payload) + n
        /\ \A k \in 1 .. Len(payload) + n : (payload \o recv(n))[k] = written[f + k]
    BY <2>2, Continued
  <2> QED BY <1>13, <2>1, <2>3
<1>15. Framed(start)' BY <1>1, <1>3 DEF Framed
<1>16. CASE p + n = total
  <2>1. /\ received' = Append(received, new) /\ payload' = <<>> /\ lengthBytes' = <<>>
        /\ read' = read + n
    BY <1>11, <1>13, <1>16
  <2>2. new = messages[r].payload
    <3>1. \A k \in 1 .. Len(new) : new[k] = messages[r].payload[k]
      BY <1>8, <1>14, <1>16
    <3>2. Len(new) = Len(messages[r].payload) BY <1>14, <1>16
    <3> QED BY <1>7, <1>14, <3>1, <3>2, SameSequence
  <2>3. /\ received' \in Seq(Seq(Nat)) /\ Len(received') = r
        /\ received'[r] = new
        /\ \A i \in 1 .. Len(received) : received'[i] = received[i]
    BY <1>2, <1>14, <2>1, AppendProperties, SMT
  <2>4. lengthBytes' \in Seq(Nat) /\ payload' \in Seq(Nat)
        /\ Len(lengthBytes') = 0 /\ Len(payload') = 0
    BY <2>1, SMT
  <2>5. ReaderTyped' BY <2>3, <2>4 DEF ReaderTyped
  <2>6. ASSUME NEW i \in 1 .. r PROVE received'[i] = messages[i].payload
    <3>1. i = r \/ i \in 1 .. Len(received) BY <1>2, SMT
    <3> QED BY <1>2, <2>2, <2>3, <3>1
  <2>7. read' = start[r + 1] + Len(lengthBytes') + Len(payload')
    <3>1. PICK s, t : s = start[r] /\ t = total OBVIOUS
    <3>2. read = s + SizeBytes + p /\ start[r + 1] = s + SizeBytes + t
      BY <1>4, <1>8, <3>1
    <3>3. read' = read + n /\ Len(lengthBytes') = 0 /\ Len(payload') = 0
      BY <2>1, <2>4
    <3>4. s \in Nat /\ t \in Nat /\ p + n = t BY <1>a, <1>16, <3>1
    <3> HIDE DEF p, total
    <3>5. s + SizeBytes + p + n = s + SizeBytes + t BY ONLY <1>a, <1>12, <3>4, SMT
    <3>6. s + SizeBytes + t + 0 + 0 = s + SizeBytes + t BY ONLY <1>a, <3>4, SMT
    <3> QED BY <3>2, <3>3, <3>5, <3>6
  <2>8. r + 1 <= Len(messages) + 1 BY <1>4, <1>5, SMT
  <2>9. /\ Len(lengthBytes') <= SizeBytes /\ Len(lengthBytes') # SizeBytes
        /\ \A k \in 1 .. Len(lengthBytes') : lengthBytes'[k] = written[start[r + 1] + k]
        /\ \A k \in 1 .. Len(payload') : payload'[k] = written[start[r + 1] + SizeBytes + k]
    BY <1>2, <2>4, SMT
  <2> HIDE DEF r
  <2>10. Reading(start)'
    BY <1>3, <2>1, <2>3, <2>6, <2>7, <2>8, <2>9 DEF Reading
  <2> QED BY <1>15, <2>5, <2>10
<1>17. CASE p + n # total
  <2>1. received' = received /\ payload' = new /\ lengthBytes' = lengthBytes
        /\ read' = read + n
    BY <1>11, <1>13, <1>17
  <2>2. ReaderTyped' BY <1>2, <1>14, <2>1 DEF ReaderTyped
  <2>3. read' = start[r] + Len(lengthBytes') + Len(payload')
    <3>1. read' = (first + p) + n BY <1>4, <2>1
    <3>2. Len(lengthBytes') = SizeBytes /\ Len(payload') = p + n BY <1>3, <1>14, <2>1
    <3> HIDE DEF p
    <3> QED BY <1>a, <1>12, <3>1, <3>2, SMT
  <2>4. r <= Len(messages) /\ r <= Len(messages) + 1 BY <1>4, <1>5, SMT
  <2>5. Len(payload') < Len(messages[r].payload)
    <3>1. Len(payload') = p + n BY <1>14, <2>1
    <3>2. p + n < total
      <4> HIDE DEF p, total
      <4> QED BY <1>a, <1>12, <1>17, SMT
    <3> QED BY <3>1, <3>2
  <2>6. \A k \in 1 .. Len(payload') : payload'[k] = written[start[r] + SizeBytes + k]
    BY <1>14, <2>1
  <2>7. Len(lengthBytes') <= SizeBytes /\ Len(lengthBytes') = SizeBytes
        /\ r = Len(received') + 1
        /\ \A k \in 1 .. Len(lengthBytes') : lengthBytes'[k] = written[start[r] + k]
        /\ \A i \in 1 .. Len(received') : received'[i] = messages[i].payload
    <3>1. Len(lengthBytes') = SizeBytes /\ Len(lengthBytes') <= SizeBytes
      BY <1>3, <1>a, <2>1, SMT
    <3> QED BY <1>2, <2>1, <3>1
  <2> HIDE DEF r
  <2>8. Reading(start)'
    <3>1. IF Len(lengthBytes') = SizeBytes
          THEN r <= Len(messages') /\ Len(payload') < Len(messages'[r].payload)
          ELSE payload' = <<>>
      BY <1>3, <2>4, <2>5, <2>7
    <3>2. r = Len(received) + 1 /\ received' = received BY <2>1 DEF r
    <3>3. /\ Len(lengthBytes') <= SizeBytes
          /\ \A k \in 1 .. Len(lengthBytes') : lengthBytes'[k] = written[start[r] + k]
          /\ \A i \in 1 .. Len(received) : received[i] = messages[i].payload
      BY <1>2, <2>7
    <3>4. r <= Len(messages) + 1 BY <2>4
    <3> QED BY <1>3, <2>3, <2>6, <3>1, <3>2, <3>3, <3>4 DEF Reading
  <2> QED BY <1>15, <2>2, <2>8
<1> QED BY <1>16, <1>17

\* A step of the two ends is a step of the writer's specification: the reader
\* takes bytes like its peer.
LEMMA ReaderIsPeer ==
  ASSUME TypeOK, [StreamNext]_streamVars
  PROVE  [Next]_vars
<1>1. CASE readLength \/ readPayload
  <2>1. PICK n \in Int : 1 <= n /\ read + n <= Len(sent) /\ read' = read + n
    <3>1. CASE readLength
      <4>1. PICK n \in 1 .. SizeBytes - Len(lengthBytes) :
              read + n <= Len(sent) /\ read' = read + n
        BY <3>1 DEF readLength
      <4> QED BY <4>1, SMT
    <3>2. CASE readPayload
      <4>1. PICK n \in 1 .. decode(lengthBytes) - Len(payload) :
              read + n <= Len(sent) /\ read' = read + n
        BY <3>2 DEF readPayload
      <4> QED BY <4>1, SMT
    <3> QED BY <1>1, <3>1, <3>2
  <2>2. Len(sent) \in Nat /\ read \in Nat
    <3>1. sent \in Seq(Nat) /\ read \in 0 .. Len(sent) BY DEF TypeOK
    <3> QED BY <3>1, LenProperties, SMT
  <2>3. n \in 1 .. Len(sent) - read BY <2>1, <2>2, SMT
  <2>4. peerOpen /\ UNCHANGED <<m_dataToBeSent, connected, outputWatched, sent, peerOpen,
                                written, messages>>
    BY <1>1 DEF readLength, readPayload
  <2> QED BY <2>1, <2>3, <2>4 DEF peerReads, Next
<1>2. CASE UNCHANGED streamVars BY <1>2 DEF streamVars
<1>3. CASE StreamNext /\ ~readLength /\ ~readPayload
  BY <1>3 DEF StreamNext, Next
<1> QED BY <1>1, <1>2, <1>3

LEMMA StreamStep ==
  ASSUME Transport = "UDS", StreamInv, [StreamNext]_streamVars
  PROVE  StreamInv'
<1>1. TypeOK /\ DataOrderKept /\ ReaderTyped BY DEF StreamInv
<1>2. [Next]_vars BY <1>1, ReaderIsPeer
<1>3. TypeOK' /\ DataOrderKept' BY <1>1, <1>2, TypeStep, OrderStep
<1> DEFINE Exists == \E start : Framed(start) /\ Reading(start)
<1>4. Exists BY DEF StreamInv
<1>5. ASSUME UNCHANGED <<written, messages, read, readerVars>> PROVE ReaderTyped' /\ Exists'
  <2>1. ReaderTyped' BY <1>1, <1>5 DEF readerVars, ReaderTyped
  <2>2. PICK start : Framed(start) /\ Reading(start) BY <1>4
  <2>3. Framed(start)' BY <1>5, <2>2 DEF Framed
  <2>4. Reading(start)' BY <1>5, <2>2 DEF Reading, readerVars
  <2> QED BY <2>1, <2>3, <2>4
<1>6. ASSUME NEW msg \in Message, write(msg), UNCHANGED readerVars
      PROVE  ReaderTyped' /\ Exists'
  <2>1. ReaderTyped' BY <1>1, <1>6 DEF readerVars, ReaderTyped
  <2>2. /\ written' = written \o msg.size \o msg.payload /\ messages' = Append(messages, msg)
        /\ UNCHANGED <<read, readerVars>>
    BY <1>6 DEF write
  <2> QED BY <2>1, <2>2, FramedWrite
<1>7. ASSUME onWritingPossible \/ disconnect \/ peerCloses, UNCHANGED readerVars
      PROVE  ReaderTyped' /\ Exists'
  <2>1. UNCHANGED <<written, messages, read, readerVars>>
    BY <1>7 DEF onWritingPossible, disconnect, peerCloses
  <2> QED BY <1>5, <2>1
<1>8. ASSUME UNCHANGED streamVars PROVE ReaderTyped' /\ Exists'
  <2>1. UNCHANGED <<written, messages, read, readerVars>>
    BY <1>8 DEF streamVars, vars
  <2> QED BY <1>5, <2>1
<1>9. ReaderTyped' /\ Exists'
  BY <1>6, <1>7, <1>8, ReadLengthStep, ReadPayloadStep DEF StreamNext
<1> QED BY <1>3, <1>9 DEF StreamInv

LEMMA StreamOpened == StreamInit => StreamInv
<1> SUFFICES ASSUME StreamInit PROVE StreamInv OBVIOUS
<1>1. TypeOK /\ DataOrderKept BY TypeInit, Opened DEF StreamInit
<1>2. /\ written = <<>> /\ messages = <<>> /\ read = 0
      /\ lengthBytes = <<>> /\ payload = <<>> /\ received = <<>>
  BY DEF StreamInit, Init
<1>3. ReaderTyped BY <1>2, SMT DEF ReaderTyped
<1>4. PICK start : start = [i \in 1 .. 1 |-> 0] OBVIOUS
<1>5. start \in [1 .. 1 -> 0 .. 0] /\ start[1] = 0 BY <1>4, SMT
<1>6. Len(written) = 0 /\ Len(messages) = 0 /\ Len(received) = 0
      /\ Len(lengthBytes) = 0 /\ Len(payload) = 0
  BY <1>2
<1>7. Framed(start) BY <1>5, <1>6, SMT DEF Framed
<1>8. SizeBytes \in Nat /\ SizeBytes # 0 BY FramingAssumption
<1>9. Reading(start) BY <1>2, <1>5, <1>6, <1>8, SMT DEF Reading
<1> QED BY <1>1, <1>3, <1>7, <1>9 DEF StreamInv

\* The invariant of the two ends of a local connection.
THEOREM StreamInvariance == Transport = "UDS" => (StreamSpec => []StreamInv)
<1> SUFFICES ASSUME Transport = "UDS" PROVE StreamSpec => []StreamInv
  OBVIOUS
<1>1. StreamInv /\ [StreamNext]_streamVars => StreamInv' BY StreamStep
<1> QED BY <1>1, StreamOpened, PTL DEF StreamSpec

\* The reader of a local connection (UDSConnection::read) hands on the messages
\* that were written, in the order in which they were written, none of them cut,
\* merged or repeated, for messages of any length, a size field of any width and
\* a kernel that splits the stream anywhere.
THEOREM StreamInOrder == Transport = "UDS" => (StreamSpec => []MessagesInOrder)
<1> SUFFICES ASSUME Transport = "UDS" PROVE StreamSpec => []MessagesInOrder
  OBVIOUS
<1>1. ASSUME StreamInv PROVE MessagesInOrder
  <2>1. PICK start : Framed(start) /\ Reading(start) BY <1>1 DEF StreamInv
  <2>2. PICK r : r = Len(received) + 1 OBVIOUS
  <2>3. /\ TypeOK /\ DataOrderKept /\ r \in 1 .. Len(messages) + 1 /\ Len(received) \in Nat
        /\ \A i \in 1 .. Len(received) : received[i] = messages[i].payload
    BY <1>1, <2>1, <2>2, ReaderFacts
  <2>4. Len(messages) \in Nat BY <2>3, SentIsPrefix
  <2> QED BY <2>2, <2>3, <2>4, SMT DEF MessagesInOrder
<1> QED BY <1>1, StreamInvariance, PTL

\* The writer's promises hold with this reader as well: the order of the bytes,
\* and that no data waits on an open connection without the output watch.
THEOREM StreamWriter ==
  Transport = "UDS" => (StreamSpec => []DataOrderKept /\ []PendingIsWatched)
<1> SUFFICES ASSUME Transport = "UDS" PROVE StreamSpec => []DataOrderKept /\ []PendingIsWatched
  OBVIOUS
<1>1. StreamInv => TypeOK /\ DataOrderKept BY DEF StreamInv
<1>2. StreamInit => PendingIsWatched BY Opened DEF StreamInit
<1>3. StreamInv /\ PendingIsWatched /\ [StreamNext]_streamVars => PendingIsWatched'
  BY <1>1, ReaderIsPeer, WatchStep
<1> QED BY <1>1, <1>2, <1>3, StreamInvariance, PTL DEF StreamSpec
=============================================================================
