----------------------------- MODULE MCMainLoop -----------------------------
(* Two clients of the daemon, local or one of them remote, for TLC.        *)
EXTENDS MainLoop

CONSTANTS c1, c2

Local == [c \in Client |-> "UDS"]
OneRemote == [c \in Client |-> IF c = c1 THEN "TCP" ELSE "UDS"]
=============================================================================
