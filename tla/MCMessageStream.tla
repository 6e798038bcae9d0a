--------------------------- MODULE MCMessageStream ---------------------------
(* Two messages with a two-byte size field, for TLC.                       *)
EXTENDS MessageStream

MCMessage == {[size |-> <<2, 0>>, payload |-> <<11, 12>>],
              [size |-> <<0, 1>>, payload |-> <<21, 22, 23, 24>>]}
MCEvents == {"POLLIN", "POLLOUT", "POLLHUP"}
=============================================================================
