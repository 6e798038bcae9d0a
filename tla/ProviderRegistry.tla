-------------------------- MODULE ProviderRegistry --------------------------
(***************************************************************************)
(* What the dispatcher promises about the ownership of services: a service *)
(* has at most one provider; only its provider, or the departure of its    *)
(* provider, sets it free; a client that has left provides nothing again.  *)
(***************************************************************************)
CONSTANTS Client, ServiceID, NULL

VARIABLES
  provider,  \* the client that provides each service, or NULL
  gone       \* the clients that have left

Init ==
  /\ provider = [sid \in ServiceID |-> NULL]
  /\ gone = {}

Claim(c, sid) ==
  /\ c \notin gone
  /\ provider[sid] = NULL
  /\ provider' = [provider EXCEPT ![sid] = c]
  /\ UNCHANGED gone

Release(c, sid) ==
  /\ provider[sid] = c
  /\ provider' = [provider EXCEPT ![sid] = NULL]
  /\ UNCHANGED gone

Leave(c) ==
  /\ c \notin gone
  /\ gone' = gone \cup {c}
  /\ provider' = [sid \in ServiceID |->
                    IF provider[sid] = c THEN NULL ELSE provider[sid]]

Next ==
  \E c \in Client :
    \/ Leave(c)
    \/ \E sid \in ServiceID : Claim(c, sid) \/ Release(c, sid)

Spec == Init /\ [][Next]_<<provider, gone>>
=============================================================================
