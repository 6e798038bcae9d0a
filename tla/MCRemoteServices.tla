-------------------------- MODULE MCRemoteServices --------------------------
(* Small instances of RemoteServices. *)
EXTENDS RemoteServices

CONSTANTS h1, h2, a, b, c, i1

A1 == [serviceID |-> a, instanceID |-> i1]
B1 == [serviceID |-> b, instanceID |-> i1]
C1 == [serviceID |-> c, instanceID |-> i1]

\* Both hosts offer the same service, and each has one of its own; that of
\* the second is well-known.
SharedOffers == [h \in Host |-> IF h = h1 THEN {A1, B1} ELSE {A1, C1}]
\* One host offers one service.
SingleOffer == [h \in Host |-> {A1}]

NoWellKnown == {}
SomeWellKnown == {C1}
SharedSubscriptions == {A1}
=============================================================================
