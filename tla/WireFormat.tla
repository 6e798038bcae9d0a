----------------------------- MODULE WireFormat -----------------------------
(***************************************************************************)
(* The bytes of SOME/IP messages between daemons: the header that every    *)
(* message starts with, and service discovery messages, written by a       *)
(* NetworkSerializer and read back by a NetworkDeserializer.  A 32-bit     *)
(* value is a pair of 16-bit halves, as the code itself splits message and *)
(* request identifiers.                                                    *)
(***************************************************************************)
EXTENDS Naturals, Sequences, SequencesExt

\* A uint32_t, from its halves and from a small number.
word(hi, lo) == [hi |-> hi, lo |-> lo]
number(n) == word(n \div 65536, n % 65536)
allOnes == word(65535, 65535)

-----------------------------------------------------------------------------
\* Serializer::writeBasicTypeValue: network byte order.
u8(v) == <<v>>
u16(v) == <<v \div 256, v % 256>>
u32(w) == u16(w.hi) \o u16(w.lo)

\* LSBSerializer<3, uint32_t>: the three low bytes.
u24(w) == u8(w.hi % 256) \o u16(w.lo)

\* to4BitsTuple
twice4Bits(a, b) == u8((16 * a + b) % 256)

\* LengthPlaceHolder<uint32_t>: the bytes written in its scope, after their
\* number.
withLength(bytes) == u32(number(Len(bytes))) \o bytes

\* Deserializer::readBasicTypeValue at position p of bytes, from 0.
r8(bytes, p) == bytes[p + 1]
r16(bytes, p) == 256 * bytes[p + 1] + bytes[p + 2]
r32(bytes, p) == word(r16(bytes, p), r16(bytes, p + 2))

\* LSBDeserializer<3, uint32_t>
r24(bytes, p) == word(r8(bytes, p), r16(bytes, p + 1))

\* Tuple4Bits4Bits::deserialize
r4Bits(bytes, p) == <<r8(bytes, p) \div 16, r8(bytes, p) % 16>>

\* A length, which is small.
rLength(bytes, p) == 65536 * r32(bytes, p).hi + r32(bytes, p).lo

-----------------------------------------------------------------------------
REQUEST == 0
NOTIFICATION == 2
RESPONSE == 128
ERROR == 129

\* MUTANT: whatever is not a request is taken for an answer.
isReplyOrNotification(header) == header.messageType # REQUEST

\* SomeIPHeader::isReply
isReply(header) == header.messageType \in {RESPONSE, ERROR}

\* SomeIP::getMessageID, getServiceID and getMemberID: the halves.
getMessageID(serviceID, memberID) == word(serviceID, memberID)

\* SomeIPServiceDiscoveryMessage::SERVICE_DISCOVERY_MEMBER_ID
SERVICE_DISCOVERY_MEMBER_ID == word(65535, 33024)

SomeIPHeader(messageID, requestID, messageType) ==
  [messageID |-> messageID, requestID |-> requestID, protocolVersion |-> 1,
   interfaceVersion |-> 0, messageType |-> messageType, returnCode |-> 0]

\* A header and what follows it, as TCPClient::sendMessage and
\* SomeIPServiceDiscoveryMessage::serialize write them.
writeMessage(header, payload) ==
  u32(header.messageID) \o
    withLength(u32(header.requestID) \o u8(header.protocolVersion)
               \o u8(header.interfaceVersion) \o u8(header.messageType)
               \o u8(header.returnCode) \o payload)

SOMEIP_HEADER_LENGTH_ON_NETWORK == 16

\* SomeIPHeader::deserialize, and the first part of
\* TCPClient::processIncomingData.
readHeader(bytes) ==
  [messageID |-> r32(bytes, 0), requestID |-> r32(bytes, 8),
   protocolVersion |-> r8(bytes, 12), interfaceVersion |-> r8(bytes, 13),
   messageType |-> r8(bytes, 14), returnCode |-> r8(bytes, 15)]

\* The size of the payload that processIncomingData derives from the length.
payloadLength(bytes) ==
  (rLength(bytes, 4) + 8) - SOMEIP_HEADER_LENGTH_ON_NETWORK

-----------------------------------------------------------------------------
FindService == 0
OfferService == 1
Subscribe == 6
SubscribeAck == 7

\* SomeIPServiceDiscoveryServiceEntry::serialize and, for Subscribe,
\* SomeIPServiceDiscoveryEventGroupEntry::serialize.
serializeEntry(e) ==
  u8(e.type) \o u8(e.firstOption) \o u8(e.secondOption)
    \o twice4Bits(e.options1, e.options2) \o u16(e.serviceID)
    \o u16(e.instanceID) \o u8(e.majorVersion) \o u24(e.ttl) \o u32(e.tail)

\* Their deserialization, at position p.  The tail is the minor version, or a
\* reserved field and the event group.
deserializeEntry(bytes, p) ==
  [type |-> r8(bytes, p), firstOption |-> r8(bytes, p + 1),
   secondOption |-> r8(bytes, p + 2), options1 |-> r4Bits(bytes, p + 3)[1],
   options2 |-> r4Bits(bytes, p + 3)[2], serviceID |-> r16(bytes, p + 4),
   instanceID |-> r16(bytes, p + 6), majorVersion |-> r8(bytes, p + 8),
   ttl |-> r24(bytes, p + 9), tail |-> r32(bytes, p + 12)]

\* The option of an endpoint, [address, port], the address as four bytes:
\* OptionSerializeVisitor and IPv4ConfigurationOption::serialize.  The length
\* does not count the type (0x04); the protocol is TCP (0x06).
serializeOption(o) ==
  LET content == o.address \o u8(0) \o u8(6) \o u16(o.port)
  IN u16(Len(content) + 1) \o u8(4) \o u8(0) \o content

deserializeOption(bytes, p) ==
  [address |-> SubSeq(bytes, p + 5, p + 8), port |-> r16(bytes, p + 10)]

\* The bytes of an entry and of an option that the decoder goes over.
EntrySize == 16
OptionSize == 12
-----------------------------------------------------------------------------
\* A service discovery message: session [id, reboot], whether it is unicast,
\* entries, and the endpoints its entries refer to by their index.
serialize(m) ==
  writeMessage(
    SomeIPHeader(SERVICE_DISCOVERY_MEMBER_ID, word(0, m.session.id), NOTIFICATION),
    u8((IF m.session.reboot THEN 1 ELSE 0) + (IF m.unicast THEN 2 ELSE 0))
      \o <<0, 0, 0>>
      \o withLength(FlattenSeq([i \in DOMAIN m.entries |-> serializeEntry(m.entries[i])]))
      \o withLength(FlattenSeq([i \in DOMAIN m.options |-> serializeOption(m.options[i])])))

\* The entries and the options that SomeIPServiceDiscoveryMessage::deserialize
\* finds in the payload.  It goes over what it does not know after the type
\* of an entry, or after the second byte that follows the length of an option.
readEntries(payload) ==
  LET end == 8 + rLength(payload, 4)
      from[p \in Nat] ==
        IF p >= end THEN <<>>
        ELSE IF r8(payload, p) \in {FindService, OfferService, Subscribe, SubscribeAck}
             THEN <<deserializeEntry(payload, p)>> \o from[p + EntrySize]
             ELSE from[p + 1]
  IN from[8]

readOptions(payload) ==
  LET start == 12 + rLength(payload, 4)
      end == start + rLength(payload, start - 4)
      from[p \in Nat] ==
        IF p >= end THEN <<>>
        ELSE IF r8(payload, p + 2) = 4
             THEN <<deserializeOption(payload, p)>> \o from[p + OptionSize]
             ELSE from[p + 4]
  IN from[start]

\* EntryVisitor: the call of the listener for entry e.
visitEntry(e, options) ==
  LET service == [serviceID |-> e.serviceID, instanceID |-> e.instanceID] IN
  CASE e.type = OfferService ->
         [call |-> IF e.ttl # number(0) THEN "available" ELSE "unavailable",
          service |-> service, endPoint |-> options[e.firstOption + 1]]
    [] e.type = FindService -> [call |-> "find", service |-> service]
    [] e.type = Subscribe ->
         [call |-> IF e.ttl # number(0) THEN "subscription" ELSE "subscriptionFinished",
          service |-> service, member |-> e.tail.lo]

\* ServiceDiscoveryMessageDecoder::decodeMessage: the session of the message
\* and the calls of the listener.
decodeMessage(header, payload) ==
  [session |-> [id |-> header.requestID.lo, reboot |-> r8(payload, 0) % 2 = 1],
   calls |-> LET options == readOptions(payload) IN
             [i \in DOMAIN readEntries(payload) |->
                visitEntry(readEntries(payload)[i], options)]]

\* RemoteServiceListener::handleMessage, on a datagram.
decodeDatagram(bytes) ==
  decodeMessage(readHeader(bytes),
                SubSeq(bytes, SOMEIP_HEADER_LENGTH_ON_NETWORK + 1, Len(bytes)))

-----------------------------------------------------------------------------
\* SomeIPServiceDiscoveryServiceOfferedEntry, with a time to live, and
\* SomeIPServiceDiscoveryServiceUnregisteredEntry, without; their option is
\* the first of the message.
offerEntry(service, ttl) ==
  [type |-> OfferService, firstOption |-> 0, secondOption |-> 0,
   options1 |-> IF ttl = number(0) THEN 0 ELSE 1, options2 |-> 0,
   serviceID |-> service.serviceID, instanceID |-> service.instanceID,
   majorVersion |-> 1, ttl |-> ttl, tail |-> number(1)]

\* SomeIPServiceDiscoveryServiceQueryEntry, for all services.
queryEntry ==
  [type |-> FindService, firstOption |-> 0, secondOption |-> 0,
   options1 |-> 0, options2 |-> 0, serviceID |-> 65535, instanceID |-> 65535,
   majorVersion |-> 255, ttl |-> allOnes, tail |-> allOnes]

\* SomeIPServiceDiscoverySubscribeNotificationEntry.  m_reserved16 is not
\* initialized: reserved may be anything.
subscribeEntry(service, member, reserved) ==
  [type |-> Subscribe, firstOption |-> 0, secondOption |-> 0,
   options1 |-> 0, options2 |-> 0, serviceID |-> service.serviceID,
   instanceID |-> service.instanceID, majorVersion |-> 1, ttl |-> allOnes,
   tail |-> word(reserved, member)]
=============================================================================
