---------------------------- MODULE PayloadStream ----------------------------
(***************************************************************************)
(* SomeIPOutputStream and SomeIPInputStream: the arguments of a call in    *)
(* its payload.  A type is a record; its kind is a basic type, "string",   *)
(* "vector" (of a type) or "map" (of a key and a value type).  A string is *)
(* the sequence of its bytes, a map a function.                            *)
(***************************************************************************)
EXTENDS WireFormat, ByteArray, Functions

\* A length, a uint32_t.
length32(n) == u32(number(n))

\* operator<<, by type.  An unordered_map is iterated in some order.
RECURSIVE writeValue(_, _, _)
writeValue(b, type, v) ==
  CASE type.kind = "uint8_t" -> append(b, u8(v))
    [] type.kind = "uint16_t" -> append(b, u16(v))
    [] type.kind = "uint32_t" -> append(b, u32(v))
    [] type.kind = "string" -> append(append(b, length32(Len(v))), v)
    [] type.kind = "vector" ->
         FoldLeft(LAMBDA c, element : writeValue(c, type.of, element),
                  append(b, length32(Len(v))), v)
    [] type.kind = "map" ->
         LET keys == SetToSeq(DOMAIN v) IN
         FoldLeft(LAMBDA c, k : writeValue(writeValue(c, type.key, k), type.of, v[k]),
                  append(b, length32(Len(keys))), keys)

\* operator>>, by type, at position p: the value, and the position after it.
RECURSIVE readValue(_, _, _)
readValue(bytes, type, p) ==
  LET basic(value, n) == [value |-> value, next |-> p + n]
      n == rLength(bytes, p)
      each == [i \in 1 .. n |-> i]
  IN CASE type.kind = "uint8_t" -> basic(r8(bytes, p), 1)
       [] type.kind = "uint16_t" -> basic(r16(bytes, p), 2)
       [] type.kind = "uint32_t" -> basic(r32(bytes, p), 4)
       [] type.kind = "string" -> basic(SubSeq(bytes, p + 5, p + 4 + n), 4 + n)
       [] type.kind = "vector" ->
            FoldLeft(LAMBDA v, i : LET element == readValue(bytes, type.of, v.next) IN
                       [value |-> Append(v.value, element.value), next |-> element.next],
                     [value |-> <<>>, next |-> p + 4], each)
       [] type.kind = "map" ->
            FoldLeft(LAMBDA v, i : LET key == readValue(bytes, type.key, v.next)
                                       element == readValue(bytes, type.of, key.next) IN
                       [value |-> (key.value :> element.value) @@ v.value,
                        next |-> element.next],
                     [value |-> <<>>, next |-> p + 4], each)

\* The payload of a call with the given arguments, [type, value], and the
\* arguments of the same types that are read from a payload.
writeArguments(arguments) ==
  content(FoldLeft(LAMBDA b, x : writeValue(b, x.type, x.value), emptyByteArray, arguments))

readArguments(bytes, arguments) ==
  FoldLeft(LAMBDA v, x : LET r == readValue(bytes, x.type, v.next) IN
             [arguments |-> Append(v.arguments, [type |-> x.type, value |-> r.value]),
              next |-> r.next],
           [arguments |-> <<>>, next |-> 0], arguments).arguments
=============================================================================
