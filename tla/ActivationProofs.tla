-------------------------- MODULE ActivationProofs --------------------------
(***************************************************************************)
(* Requests to services that start on demand are delivered in order and    *)
(* each is kept, delivered or refused once, for every set of services and  *)
(* clients and every number of requests.  Each step is shown to be one of  *)
(* four as far as requests are concerned: nothing happens to them, or the  *)
(* next one is accepted for a service, refused, or ends the daemon.        *)
(***************************************************************************)
EXTENDS Activation, FiniteSetTheorems, SequenceTheorems, TLAPS

\* Most steps are first-order: Zenon proves them.  SMT is cited where a step
\* needs arithmetic or sequences.
USE Zenon

acc == [sid \in ServiceID |-> accepted(sid)]

\* Requests wait for a WellKnownService only while it is registered and has
\* no client.
NobodyWaitsWithoutNeed ==
  \A sid \in ServiceID :
    /\ m_client[sid] # NULL => m_pendingMessages[sid] = <<>>
    /\ sid \notin m_services => m_client[sid] # NULL

Quiet == UNCHANGED <<acc, requests, failed, aborted>>

Accepts(sid) ==
  /\ acc' = [acc EXCEPT ![sid] = Append(@, requests + 1)]
  /\ requests' = requests + 1
  /\ UNCHANGED <<failed, aborted>>

Refuses ==
  /\ requests' = requests + 1
  /\ failed' = failed \cup {requests + 1}
  /\ UNCHANGED <<acc, aborted>>

Aborts ==
  /\ requests' = requests + 1
  /\ aborted' = TRUE
  /\ UNCHANGED <<acc, failed>>

-----------------------------------------------------------------------------
\* The types hold at the start.
LEMMA TypeInit == Init => TypeOK
<1> SUFFICES ASSUME Init PROVE TypeOK
  OBVIOUS
<1>1. <<>> \in Seq(1 .. MaxRequests)
  BY SMT
<1>2. /\ m_pendingMessages \in [ServiceID -> Seq(1 .. MaxRequests)]
      /\ delivered \in [ServiceID -> Seq(1 .. MaxRequests)]
  BY <1>1 DEF Init
<1>3. /\ requests \in 0 .. MaxRequests
      /\ processes \in [ServiceID -> Nat]
  BY ActivationAssumption, SMT DEF ActivationAssumption, Init
<1> QED BY <1>2, <1>3 DEF Init, TypeOK

\* Every operation keeps them.
LEMMA TypeStep == ASSUME TypeOK, Next PROVE TypeOK'
<1> USE ActivationAssumption DEF ActivationAssumption, TypeOK
<1>1. ASSUME NEW sid \in ServiceID, dispatchRequest(sid) PROVE TypeOK'
  <2>1. requests + 1 \in 1 .. MaxRequests
    BY <1>1, SMT DEF dispatchRequest
  <2>2. /\ requests' = requests + 1
        /\ UNCHANGED <<m_services, m_client, otherProvider, idle>>
    BY <1>1 DEF dispatchRequest
  <2>3. requests' \in 0 .. MaxRequests
    BY <2>1, <2>2, SMT
  <2>4. aborted' \in BOOLEAN
    BY <1>1 DEF dispatchRequest, sendMessageActivating
  <2>5. UNCHANGED <<m_state, processes>> \/ activate(sid)
    BY <1>1 DEF dispatchRequest, sendMessageActivating
  <2>6. m_state' \in [ServiceID -> {"STOPPED", "STARTING", "START_FAILED"}]
    BY <2>5 DEF activate
  <2>7. processes' \in [ServiceID -> Nat]
    <3>1. processes[sid] + 1 \in Nat
      BY SMT
    <3> QED BY <3>1, <2>5 DEF activate
  <2>8. failed' \subseteq 1 .. MaxRequests
    BY <1>1, <2>1 DEF dispatchRequest, sendMessageActivating, replyError
  <2>9. m_pendingMessages' \in [ServiceID -> Seq(1 .. MaxRequests)]
    <3>1. Append(m_pendingMessages[sid], requests + 1) \in Seq(1 .. MaxRequests)
      BY <2>1, SMT
    <3> QED BY <3>1, <1>1 DEF dispatchRequest, sendMessageActivating
  <2>10. delivered' \in [ServiceID -> Seq(1 .. MaxRequests)]
    <3>1. Append(delivered[sid], requests + 1) \in Seq(1 .. MaxRequests)
      BY <2>1, SMT
    <3> QED BY <3>1, <1>1 DEF dispatchRequest, sendMessageActivating
  <2> QED BY <2>2, <2>3, <2>4, <2>6, <2>7, <2>8, <2>9, <2>10
<1>2. ASSUME NEW sid \in ServiceID, processDies(sid) PROVE TypeOK'
  BY <1>2, SMT DEF processDies
<1>3. ASSUME NEW sid \in ServiceID, providerLeaves(sid) PROVE TypeOK'
  BY <1>3 DEF providerLeaves
<1>4. ASSUME NEW sid \in ServiceID, NEW c \in Client,
             processRegisters(c, sid) \/ applicationRegisters(c, sid)
      PROVE  TypeOK'
  <2>1. /\ idle' \subseteq Client
        /\ otherProvider' \in [ServiceID -> Client \cup {NULL}]
        /\ m_client' \in [ServiceID -> Client \cup {NULL}]
    BY <1>4, ZenonT(30) DEF processRegisters, applicationRegisters, tryRegisterService, setClient
  <2>2. processes' \in [ServiceID -> Nat]
    <3>1. processes[sid] > 0 => processes[sid] - 1 \in Nat
      BY SMT
    <3> QED BY <3>1, <1>4 DEF processRegisters, applicationRegisters
  <2>3. m_pendingMessages' \in [ServiceID -> Seq(1 .. MaxRequests)]
    <3>1. <<>> \in Seq(1 .. MaxRequests)
      BY SMT
    <3> QED BY <3>1, <1>4, ZenonT(30) DEF processRegisters, applicationRegisters,
                              tryRegisterService, setClient
  <2>4. delivered' \in [ServiceID -> Seq(1 .. MaxRequests)]
    <3>1. delivered[sid] \o m_pendingMessages[sid] \in Seq(1 .. MaxRequests)
      BY SMT
    <3> QED BY <3>1, <1>4, ZenonT(30) DEF processRegisters, applicationRegisters,
                              tryRegisterService, setClient
  <2>5. UNCHANGED <<m_services, m_state, requests, failed, aborted>>
    BY <1>4 DEF processRegisters, applicationRegisters
  <2> QED BY <2>1, <2>2, <2>3, <2>4, <2>5
<1> QED BY <1>1, <1>2, <1>3, <1>4 DEF Next

-----------------------------------------------------------------------------
\* Nobody waits for a service that has a client or has been unregistered:
\* setClient sends what waits, and sendMessage keeps nothing from then on.
LEMMA WaitingStep ==
  ASSUME TypeOK, NobodyWaitsWithoutNeed, Next
  PROVE  NobodyWaitsWithoutNeed'
<1> USE ActivationAssumption DEF ActivationAssumption, TypeOK, NobodyWaitsWithoutNeed
<1>1. ASSUME NEW sid \in ServiceID, dispatchRequest(sid) PROVE NobodyWaitsWithoutNeed'
  BY <1>1 DEF dispatchRequest, sendMessageActivating
<1>2. ASSUME NEW sid \in ServiceID, processDies(sid) PROVE NobodyWaitsWithoutNeed'
  BY <1>2 DEF processDies
<1>3. ASSUME NEW sid \in ServiceID, providerLeaves(sid) PROVE NobodyWaitsWithoutNeed'
  BY <1>3 DEF providerLeaves
<1>4. ASSUME NEW sid \in ServiceID, NEW c \in Client,
             processRegisters(c, sid) \/ applicationRegisters(c, sid)
      PROVE  NobodyWaitsWithoutNeed'
  BY <1>4 DEF processRegisters, applicationRegisters, tryRegisterService, setClient
<1> QED BY <1>1, <1>2, <1>3, <1>4 DEF Next

\* Concatenation, as accepted() uses it.
LEMMA Concatenations ==
  ASSUME NEW S, NEW s \in Seq(S), NEW t \in Seq(S), NEW e \in S
  PROVE  s \o Append(t, e) = Append(s \o t, e)
BY ConcatAssociative, AppendIsConcat, ConcatProperties, SMT

\* acc after a step that appends e to what is accepted for sid.
LEMMA AccUpdate ==
  ASSUME NEW sid \in ServiceID, NEW e,
         \A s \in ServiceID : delivered'[s] \o m_pendingMessages'[s] =
           IF s = sid THEN Append(delivered[s] \o m_pendingMessages[s], e)
           ELSE delivered[s] \o m_pendingMessages[s]
  PROVE  acc' = [acc EXCEPT ![sid] = Append(@, e)]
BY DEF acc, accepted

\* What a step does to the requests.
LEMMA Steps ==
  ASSUME TypeOK, NobodyWaitsWithoutNeed, Next
  PROVE  Quiet \/ (\E sid \in ServiceID : Accepts(sid)) \/ Refuses \/ Aborts
<1> DEFINE Goal == Quiet \/ (\E sid \in ServiceID : Accepts(sid)) \/ Refuses \/ Aborts
<1> SUFFICES Goal
  OBVIOUS
<1> HIDE DEF Goal
<1>0. ASSUME UNCHANGED <<m_pendingMessages, delivered>> PROVE acc' = acc
  BY <1>0 DEF acc, accepted
<1>1. ASSUME NEW sid \in ServiceID, dispatchRequest(sid) PROVE Goal
  <2>1. requests + 1 \in 1 .. MaxRequests /\ requests' = requests + 1
    BY <1>1, ActivationAssumption, SMT DEF dispatchRequest, ActivationAssumption, TypeOK
  <2>2. CASE /\ m_pendingMessages' =
                  [m_pendingMessages EXCEPT ![sid] = Append(@, requests + 1)]
             /\ UNCHANGED <<delivered, failed, aborted>>
    <3>1. delivered[sid] \o Append(m_pendingMessages[sid], requests + 1)
            = Append(delivered[sid] \o m_pendingMessages[sid], requests + 1)
      BY <2>1, Concatenations, SMT DEF TypeOK
    <3>2. \A s \in ServiceID : delivered'[s] \o m_pendingMessages'[s] =
            IF s = sid THEN Append(delivered[s] \o m_pendingMessages[s], requests + 1)
            ELSE delivered[s] \o m_pendingMessages[s]
      BY <3>1, <2>2 DEF TypeOK
    <3>3. acc' = [acc EXCEPT ![sid] = Append(@, requests + 1)]
      BY <3>2, AccUpdate
    <3> QED BY <3>3, <2>1, <2>2 DEF Accepts, Goal
  <2>3. CASE /\ delivered' = [delivered EXCEPT ![sid] = Append(@, requests + 1)]
             /\ m_pendingMessages[sid] = <<>>
             /\ UNCHANGED <<m_pendingMessages, failed, aborted>>
    <3>1. /\ Append(delivered[sid], requests + 1) \o <<>> = Append(delivered[sid], requests + 1)
          /\ delivered[sid] \o <<>> = delivered[sid]
      BY <2>1, ConcatEmptySeq, AppendProperties, SMT DEF TypeOK
    <3>2. \A s \in ServiceID : delivered'[s] \o m_pendingMessages'[s] =
            IF s = sid THEN Append(delivered[s] \o m_pendingMessages[s], requests + 1)
            ELSE delivered[s] \o m_pendingMessages[s]
      BY <3>1, <2>3 DEF TypeOK
    <3>3. acc' = [acc EXCEPT ![sid] = Append(@, requests + 1)]
      BY <3>2, AccUpdate
    <3> QED BY <3>3, <2>1, <2>3 DEF Accepts, Goal
  <2>4. CASE /\ failed' = failed \cup {requests + 1}
             /\ UNCHANGED <<m_pendingMessages, delivered, aborted>>
    BY <2>1, <2>4, <1>0 DEF Refuses, Goal
  <2>5. CASE aborted' = TRUE /\ UNCHANGED <<m_pendingMessages, delivered, failed>>
    BY <2>1, <2>5, <1>0 DEF Aborts, Goal
  <2> QED BY <1>1, <2>2, <2>3, <2>4, <2>5
          DEF dispatchRequest, sendMessageActivating, replyError, NobodyWaitsWithoutNeed
<1>2. ASSUME NEW sid \in ServiceID, processDies(sid) \/ providerLeaves(sid) PROVE Goal
  BY <1>2, <1>0 DEF processDies, providerLeaves, Quiet, Goal
<1>3. ASSUME NEW sid \in ServiceID, NEW c \in Client,
             processRegisters(c, sid) \/ applicationRegisters(c, sid)
      PROVE  Goal
  <2>1. UNCHANGED <<requests, failed, aborted>>
    BY <1>3 DEF processRegisters, applicationRegisters
  <2>2. CASE setClient(sid, c)
    <3>1. (delivered[sid] \o m_pendingMessages[sid]) \o <<>>
            = delivered[sid] \o m_pendingMessages[sid]
      BY ConcatProperties, ConcatEmptySeq, SMT DEF TypeOK
    <3>2. \A s \in ServiceID : delivered'[s] \o m_pendingMessages'[s]
                                = delivered[s] \o m_pendingMessages[s]
      BY <3>1, <2>2 DEF setClient, TypeOK
    <3>3. acc' = acc
      BY <3>2 DEF acc, accepted
    <3> QED BY <3>3, <2>1 DEF Quiet, Goal
  <2>3. CASE UNCHANGED <<m_pendingMessages, delivered>>
    BY <2>3, <2>1, <1>0 DEF Quiet, Goal
  <2> QED BY <1>3, <2>2, <2>3 DEF processRegisters, applicationRegisters, tryRegisterService
<1> QED BY <1>1, <1>2, <1>3 DEF Next

-----------------------------------------------------------------------------
Positions(sid) == 1 .. Len(acc[sid])

\* What is accepted for a service increases; no request is accepted for two
\* services, or accepted and refused.
InOrder ==
  \A s \in ServiceID : \A i, j \in Positions(s) : i < j => acc[s][i] < acc[s][j]

Disjoint ==
  /\ failed \subseteq 1 .. requests
  /\ \A s \in ServiceID : Len(acc[s]) <= requests
  /\ \A s \in ServiceID : \A i \in Positions(s) : acc[s][i] \in (1 .. requests) \ failed
  /\ \A s, t \in ServiceID : \A i \in Positions(s), j \in Positions(t) :
       acc[s][i] = acc[t][j] => s = t

Complete ==
  ~aborted => \A r \in (1 .. requests) \ failed :
                \E s \in ServiceID : \E i \in Positions(s) : acc[s][i] = r

IInv == TypeOK /\ NobodyWaitsWithoutNeed /\ InOrder /\ Disjoint /\ Complete

\* What is accepted for a service is a sequence of requests.
LEMMA AccType ==
  ASSUME TypeOK
  PROVE  /\ acc \in [ServiceID -> Seq(1 .. MaxRequests)]
         /\ \A s \in ServiceID : acc[s] = accepted(s)
<1>1. \A s \in ServiceID : accepted(s) \in Seq(1 .. MaxRequests)
  BY ConcatProperties DEF accepted, TypeOK
<1> QED BY <1>1 DEF acc

\* The invariant holds at the start.
LEMMA Initially == Init => IInv
<1> SUFFICES ASSUME Init PROVE IInv
  OBVIOUS
<1>1. TypeOK
  BY TypeInit
<1>2. NobodyWaitsWithoutNeed
  BY DEF Init, NobodyWaitsWithoutNeed
<1>3. \A s \in ServiceID : acc[s] = <<>>
  BY ConcatEmptySeq, SMT DEF acc, accepted, Init
<1> QED BY <1>1, <1>2, <1>3, SMT DEF IInv, InOrder, Disjoint, Complete, Positions, Init

\* A request that is accepted is newer than all before it.
LEMMA AcceptsStep ==
  ASSUME IInv, NEW sid \in ServiceID, Accepts(sid)
  PROVE  InOrder' /\ Disjoint' /\ Complete'
<1> DEFINE new == requests + 1
           end == Len(acc[sid]) + 1
<1>1. acc \in [ServiceID -> Seq(1 .. MaxRequests)] /\ requests \in Nat
  BY AccType, ActivationAssumption, SMT DEF IInv, TypeOK, ActivationAssumption
<1>2. \A s \in ServiceID : s # sid => acc'[s] = acc[s]
  BY <1>1 DEF Accepts
<1>3. /\ Len(acc'[sid]) = end
      /\ \A i \in Positions(sid) : acc'[sid][i] = acc[sid][i]
      /\ acc'[sid][end] = new
  BY <1>1, SMT DEF Accepts, Positions
<1>4. \A s \in ServiceID : Len(acc[s]) \in Nat
  BY <1>1, SMT
<1>5. \A s \in ServiceID : \A i \in Positions(s)' :
        \/ i \in Positions(s) /\ acc'[s][i] = acc[s][i]
        \/ s = sid /\ i = end /\ acc'[s][i] = new
  BY <1>2, <1>3, <1>4, SMT DEF Positions
<1>6. \A s \in ServiceID : \A i \in Positions(s) :
        i \in Positions(s)' /\ acc'[s][i] = acc[s][i]
  BY <1>2, <1>3, <1>4, SMT DEF Positions
<1>7. end \in Positions(sid)'
  BY <1>3, <1>4, SMT DEF Positions
<1>8. requests' = new /\ failed' = failed /\ aborted' = aborted
  BY DEF Accepts
<1>9. \A s \in ServiceID : \A i \in Positions(s) :
        acc[s][i] \in 1 .. requests /\ acc[s][i] \notin failed
  BY DEF IInv, Disjoint
<1>10. \A s \in ServiceID : \A i \in Positions(s) : acc[s][i] < new /\ i < Len(acc[s]) + 1
  BY <1>1, <1>4, <1>9, SMT DEF Positions
<1>11. InOrder'
  <2> SUFFICES ASSUME NEW s \in ServiceID, NEW i \in Positions(s)', NEW j \in Positions(s)',
                      i < j
               PROVE  acc'[s][i] < acc'[s][j]
    BY DEF InOrder
  <2>1. CASE j \in Positions(s)
    <3>1. i \in Positions(s)
      BY <2>1, <1>4, SMT DEF Positions
    <3>2. acc[s][i] < acc[s][j]
      BY <2>1, <3>1 DEF IInv, InOrder
    <3> QED BY <2>1, <3>1, <3>2, <1>6
  <2>2. CASE s = sid /\ j = end /\ acc'[s][j] = new
    <3>1. i \in Positions(s) /\ acc'[s][i] = acc[s][i]
      BY <2>2, <1>5, <1>4, SMT DEF Positions
    <3> QED BY <2>2, <3>1, <1>10
  <2> QED BY <2>1, <2>2, <1>5
<1>12. Disjoint'
  <2>1. failed' \subseteq 1 .. requests'
    BY <1>1, <1>8, SMT DEF IInv, Disjoint
  <2>2. \A s \in ServiceID : Len(acc'[s]) <= requests'
    BY <1>1, <1>2, <1>3, <1>4, <1>8, SMT DEF IInv, Disjoint
  <2>3. \A s \in ServiceID : \A i \in Positions(s)' : acc'[s][i] \in (1 .. requests') \ failed'
    <3>1. new \in (1 .. requests') \ failed'
      BY <1>1, <1>8, SMT DEF IInv, Disjoint
    <3>2. 1 .. requests \subseteq 1 .. requests'
      BY <1>1, <1>8, SMT
    <3> QED BY <3>1, <3>2, <1>5, <1>8, <1>9
  <2>4. \A s, t \in ServiceID : \A i \in Positions(s)', j \in Positions(t)' :
          acc'[s][i] = acc'[t][j] => s = t
    <3>1. \A s \in ServiceID : \A i \in Positions(s) : acc[s][i] # new
      BY <1>1, <1>9, SMT
    <3>2. \A s, t \in ServiceID : \A i \in Positions(s), j \in Positions(t) :
            acc[s][i] = acc[t][j] => s = t
      BY DEF IInv, Disjoint
    <3> HIDE DEF new
    <3> QED BY <3>1, <3>2, <1>5, SMT
  <2> QED BY <2>1, <2>2, <2>3, <2>4 DEF Disjoint
<1>13. Complete'
  <2> SUFFICES ASSUME ~aborted, NEW r \in (1 .. new) \ failed
               PROVE  \E s \in ServiceID : \E i \in Positions(s)' : acc'[s][i] = r
    BY <1>8 DEF Complete
  <2>1. CASE r = new
    BY <2>1, <1>3, <1>7
  <2>2. CASE r # new
    <3>1. r \in (1 .. requests) \ failed
      BY <2>2, <1>1, SMT
    <3>2. PICK s \in ServiceID : \E i \in Positions(s) : acc[s][i] = r
      BY <3>1 DEF IInv, Complete
    <3> QED BY <3>2, <1>6
  <2> QED BY <2>1, <2>2
<1> QED BY <1>11, <1>12, <1>13

\* Every step keeps it.
LEMMA Inductive == IInv /\ [Next]_vars => IInv'
<1> SUFFICES ASSUME IInv, [Next]_vars PROVE IInv'
  OBVIOUS
<1>1. CASE UNCHANGED vars
  <2>1. acc' = acc
    BY <1>1 DEF vars, acc, accepted
  <2> QED BY <1>1, <2>1, SMT DEF vars, IInv, TypeOK, NobodyWaitsWithoutNeed, InOrder, Disjoint,
                            Complete, Positions
<1>2. CASE Next
  <2>1. TypeOK' /\ NobodyWaitsWithoutNeed'
    BY <1>2, TypeStep, WaitingStep DEF IInv
  <2>2. requests \in Nat
    BY ActivationAssumption, SMT DEF IInv, TypeOK, ActivationAssumption
  <2>3. CASE Quiet
    BY <2>1, <2>3, SMT DEF Quiet, IInv, InOrder, Disjoint, Complete, Positions
  <2>4. CASE \E sid \in ServiceID : Accepts(sid)
    BY <2>1, <2>4, AcceptsStep DEF IInv
  <2>5. CASE Refuses
    <3>1. /\ 1 .. requests \subseteq 1 .. requests'
          /\ requests' \in 1 .. requests' /\ requests' \notin 1 .. requests
          /\ (1 .. requests') \ {requests'} = 1 .. requests
          /\ \A n \in Nat : n <= requests => n <= requests'
      BY <2>2, <2>5, SMT DEF Refuses
    <3>2. /\ failed' = failed \cup {requests'} /\ acc' = acc /\ aborted' = aborted
          /\ \A s \in ServiceID : Positions(s)' = Positions(s)
      BY <2>5 DEF Refuses, Positions
    <3>3. InOrder' BY <3>2 DEF IInv, InOrder
    <3>4. failed' \subseteq 1 .. requests' BY <3>1, <3>2 DEF IInv, Disjoint
    <3>5. \A s \in ServiceID : Len(acc'[s]) <= requests'
      <4>1. \A s \in ServiceID : acc[s] \in Seq(1 .. MaxRequests)
        BY AccType DEF IInv
      <4> QED BY <3>1, <3>2, <4>1, LenProperties DEF IInv, Disjoint
    <3>6. \A s \in ServiceID : \A i \in Positions(s)' :
            acc'[s][i] \in (1 .. requests') \ failed'
      BY <3>1, <3>2 DEF IInv, Disjoint
    <3>7. \A s, t \in ServiceID : \A i \in Positions(s)', j \in Positions(t)' :
            acc'[s][i] = acc'[t][j] => s = t
      <4>1. \A s, t \in ServiceID : \A i \in Positions(s), j \in Positions(t) :
              acc[s][i] = acc[t][j] => s = t
        BY DEF IInv, Disjoint
      <4> QED BY <3>2, <4>1, SMT
    <3>8. Disjoint' BY <3>4, <3>5, <3>6, <3>7 DEF Disjoint
    <3>9. Complete' BY <3>1, <3>2 DEF IInv, Complete
    <3> QED BY <2>1, <3>3, <3>8, <3>9 DEF IInv
  <2>6. CASE Aborts
    BY <2>1, <2>2, <2>6, SMT DEF Aborts, IInv, InOrder, Disjoint, Complete, Positions
  <2> QED BY <1>2, <2>1, <2>3, <2>4, <2>5, <2>6, Steps DEF IInv
<1> QED BY <1>1, <1>2

-----------------------------------------------------------------------------
\* What is delivered comes first in what is accepted.
LEMMA Prefix ==
  \A s, t \in Seq(1 .. MaxRequests) : \A k \in 1 .. Len(s) :
    k \in 1 .. Len(s \o t) /\ (s \o t)[k] = s[k]
<1> TAKE s, t \in Seq(1 .. MaxRequests)
<1> TAKE k \in 1 .. Len(s)
<1> QED BY SMT

\* A provider receives the requests in the order in which they were made:
\* WellKnownService keeps those that wait in order, and sends them before any
\* that follows.
THEOREM RequestsInOrder == Spec => []DeliveredInOrder
<1>1. IInv => DeliveredInOrder
  <2> SUFFICES ASSUME IInv, NEW s \in ServiceID,
                      NEW i \in 1 .. Len(delivered[s]), NEW j \in 1 .. Len(delivered[s]), i < j
               PROVE  delivered[s][i] < delivered[s][j]
    BY DEF DeliveredInOrder
  <2>1. /\ delivered[s] \in Seq(1 .. MaxRequests)
        /\ m_pendingMessages[s] \in Seq(1 .. MaxRequests)
    BY DEF IInv, TypeOK
  <2>2. acc[s] = delivered[s] \o m_pendingMessages[s]
    BY AccType DEF IInv, accepted
  <2>3. \A k \in 1 .. Len(delivered[s]) : k \in Positions(s) /\ acc[s][k] = delivered[s][k]
    <3> TAKE k \in 1 .. Len(delivered[s])
    <3>1. /\ k \in 1 .. Len(delivered[s] \o m_pendingMessages[s])
          /\ (delivered[s] \o m_pendingMessages[s])[k] = delivered[s][k]
      BY <2>1, Prefix
    <3> QED BY <3>1, <2>2 DEF Positions
  <2>4. acc[s][i] < acc[s][j]
    BY <2>3 DEF IInv, InOrder
  <2> QED BY <2>3, <2>4
<1> QED BY <1>1, Initially, Inductive, PTL DEF Spec

\* A request is never lost and never handled twice: it waits, or was
\* delivered once, or was answered with an error, whatever the order of
\* requests, starts, registrations and departures.
THEOREM RequestsOnce == Spec => []EachRequestOnce
<1>1. IInv => EachRequestOnce
  <2> SUFFICES ASSUME IInv, ~aborted, NEW r \in 1 .. requests
               PROVE  Cardinality({p \in ServiceID \X (1 .. MaxRequests) :
                          p[2] <= Len(accepted(p[1])) /\ accepted(p[1])[p[2]] = r})
                        = IF r \in failed THEN 0 ELSE 1
    BY DEF EachRequestOnce
  <2> DEFINE Places == {p \in ServiceID \X (1 .. MaxRequests) :
                          p[2] <= Len(accepted(p[1])) /\ accepted(p[1])[p[2]] = r}
  <2>1. /\ acc \in [ServiceID -> Seq(1 .. MaxRequests)]
        /\ \A s \in ServiceID : acc[s] = accepted(s)
    BY AccType DEF IInv
  <2>2. requests \in Nat /\ requests <= MaxRequests /\ MaxRequests \in Nat
    BY ActivationAssumption, SMT DEF IInv, TypeOK, ActivationAssumption
  <2>3. \A p \in Places : /\ p[1] \in ServiceID
                          /\ p[2] \in Positions(p[1])
                          /\ acc[p[1]][p[2]] = r
                          /\ p = <<p[1], p[2]>>
    BY <2>1, SMT DEF Positions
  <2>4. \A s \in ServiceID : \A i \in Positions(s) : acc[s][i] = r => <<s, i>> \in Places
    <3>1. \A s \in ServiceID : Len(acc[s]) \in Nat /\ Len(acc[s]) <= requests
      BY <2>1, SMT DEF IInv, Disjoint
    <3> QED BY <2>1, <2>2, <3>1, SMT DEF Positions
  <2> HIDE DEF Places
  <2>5. CASE r \in failed
    <3>1. Places = {}
      BY <2>3, <2>5, SMT DEF IInv, Disjoint
    <3> QED BY <3>1, <2>5, FS_EmptySet DEF Places
  <2>6. CASE r \notin failed
    <3>1. PICK s \in ServiceID : \E i \in Positions(s) : acc[s][i] = r
      BY <2>6 DEF IInv, Complete
    <3>2. PICK i \in Positions(s) : acc[s][i] = r
      BY <3>1
    <3>3. ASSUME NEW p \in Places PROVE p = <<s, i>>
      <4>1. p[1] = s
        BY <2>3, <3>2, <3>3 DEF IInv, Disjoint
      <4>2. p[2] \in Positions(s) /\ acc[s][p[2]] = r
        BY <2>3, <4>1
      <4>3. ~(p[2] < i) /\ ~(i < p[2])
        BY <2>1, <3>2, <4>2, SMT DEF IInv, InOrder, Positions
      <4> QED BY <2>3, <4>1, <4>2, <4>3, SMT DEF Positions
    <3>4. Places = {<<s, i>>}
      BY <2>4, <3>2, <3>3
    <3> QED BY <3>4, <2>6, FS_Singleton DEF Places
  <2> QED BY <2>5, <2>6
<1> QED BY <1>1, Initially, Inductive, PTL DEF Spec

\* Only requests are answered with an error, and one that finds its process
\* starting, or a provider, is not: WellKnownService::sendMessage looks at the
\* state that activateService leaves.
THEOREM ErrorsMeanStartFailed == Spec => ErrorMeansStartFailed
<1> DEFINE Refusal == \E sid \in ServiceID :
             \/ sid \in m_services /\ m_client[sid] = NULL /\ m_state'[sid] = "START_FAILED"
             \/ sid \notin m_services /\ otherProvider[sid] = NULL
<1>1. [Next]_vars => [\A r \in failed' \ failed : Refusal]_vars
  <2> SUFFICES ASSUME Next, failed' # failed PROVE Refusal
    OBVIOUS
  <2>1. PICK sid \in ServiceID :
          \/ dispatchRequest(sid) \/ processDies(sid) \/ providerLeaves(sid)
          \/ \E c \in Client : processRegisters(c, sid) \/ applicationRegisters(c, sid)
    BY DEF Next
  <2>2. dispatchRequest(sid)
    BY <2>1 DEF processDies, providerLeaves, processRegisters, applicationRegisters
  <2>3. CASE /\ sid \in m_services /\ m_client[sid] = NULL
             /\ sendMessageActivating(sid, requests + 1)
    <3>1. m_state'[sid] = "START_FAILED" BY <2>3 DEF sendMessageActivating
    <3> QED BY <2>3, <3>1
  <2>4. CASE sid \notin m_services /\ otherProvider[sid] = NULL BY <2>4
  <2> QED BY <2>2, <2>3, <2>4 DEF dispatchRequest
<1> QED BY <1>1, PTL DEF Spec, ErrorMeansStartFailed
=============================================================================
