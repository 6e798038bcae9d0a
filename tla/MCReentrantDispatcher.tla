------------------------ MODULE MCReentrantDispatcher ------------------------
(* ReentrantDispatcher with the symmetry of its constants, for TLC.        *)
EXTENDS ReentrantDispatcher

Symmetry == Permutations(Client)
=============================================================================
