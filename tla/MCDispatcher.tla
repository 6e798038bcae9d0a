---------------------------- MODULE MCDispatcher ----------------------------
(* Dispatcher with the symmetry of its constants, for TLC.                 *)
EXTENDS Dispatcher, TLC

Symmetry == Permutations(Client) \cup Permutations(ServiceID)
=============================================================================
