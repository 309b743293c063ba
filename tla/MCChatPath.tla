----------------------------- MODULE MCChatPath -----------------------------
(* Symmetry of the connections for the run of ChatPath.                    *)
EXTENDS ChatPath, TLC

Symmetry == Permutations(Conns)
=============================================================================
