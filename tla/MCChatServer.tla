---------------------------- MODULE MCChatServer ----------------------------
(* Values of the constants for the runs of ChatServer.                     *)
EXTENDS ChatServer, TLC

CONSTANTS nick

\* Every client types the same nickname.
MCNickOf == [c \in Conns |-> nick]

Symmetry == Permutations(Conns)
=============================================================================
