---------------------------- MODULE MCChatServer ----------------------------
(* ChatServer for TLC: the sessions are interchangeable. *)
EXTENDS ChatServer

Symmetry == Permutations(Sessions)
=============================================================================
