-------------------------- MODULE DiscoverySession --------------------------
(***************************************************************************)
(* The session identifiers of service discovery messages: how a daemon     *)
(* numbers what it multicasts, and how a listener tells from the numbers   *)
(* that the daemon was restarted.                                          *)
(***************************************************************************)
EXTENDS Naturals

CONSTANT SessionIDs  \* number of values of a session ID, 2^16 in the code

ASSUME SessionIDsAssumption == SessionIDs \in Nat /\ SessionIDs > 2

-----------------------------------------------------------------------------
\* s_nextMulticastSessionID and s_MulticastReboot when a daemon starts.
firstSession == [id |-> 1, reboot |-> TRUE]

\* MUTANT: the reboot flag outlives the wrap-around.
assignUniqueSessionIDKeepingFlag(s) ==
  LET next == (s.id + 1) % SessionIDs IN
  [id |-> IF next = 0 THEN 1 ELSE next, reboot |-> s.reboot]

\* SomeIPServiceDiscoveryMessage::assignUniqueSessionID: the session of the
\* message that follows one with session s.
assignUniqueSessionID(s) ==
  LET next == (s.id + 1) % SessionIDs IN
  IF next = 0 THEN [id |-> 1, reboot |-> FALSE]
              ELSE [id |-> next, reboot |-> s.reboot]

\* MUTANT: the reboot flag of the message is not looked at.
hasRebootedUnflagged(last, s) == s.id < last

\* RebootInformation::updateAndTestReboot: does a message with session s say
\* that its sender was restarted after it sent the one with identifier last?
hasRebooted(last, s) == s.reboot /\ s.id < last
=============================================================================
