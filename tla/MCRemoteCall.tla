---------------------------- MODULE MCRemoteCall ----------------------------
(***************************************************************************)
(* Two hosts, one with two applications, and a provider of two services.   *)
(* Identifiers need both their bytes; the request IDs wrap around, which   *)
(* takes an application 61,440 messages.                                   *)
(***************************************************************************)
EXTENDS RemoteCall, TLC

MCApplication == {<<3, 1>>, <<3, 258>>, <<515, 1>>}
MCService == {[serviceID |-> 770, instanceID |-> 5], [serviceID |-> 1, instanceID |-> 1286]}

\* Nothing; a number and a string; strings by number, and numbers.  They
\* end before, at and after the end of the static buffer.
string == [kind |-> "string"]
uint16 == [kind |-> "uint16_t"]
MCArguments ==
  (<<3, 1>> :> <<[type |-> uint16, value |-> 770], [type |-> string, value |-> <<7, 8>>]>>)
  @@ (<<3, 258>> :> <<>>)
  @@ (<<515, 1>> :>
        <<[type |-> [kind |-> "map", key |-> [kind |-> "uint8_t"], of |-> string],
           value |-> (5 :> <<6>>) @@ (2 :> <<>>)],
          [type |-> [kind |-> "vector", of |-> [kind |-> "uint32_t"]],
           value |-> <<word(1, 515), word(0, 4)>>]>>)
=============================================================================
