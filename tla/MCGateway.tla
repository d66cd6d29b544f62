------------------------------- MODULE MCGateway -------------------------------
(***************************************************************************)
(* Gateway with a handful of descriptors.                                  *)
(***************************************************************************)
EXTENDS Gateway, TLC

CONSTANTS NFds,            \* descriptors the kernel can hand out
          c0, c1, c2, c3

MCFds == 1 .. NFds
MCConns == {c0, c1, c2, c3}
FewConns == {c0, c1, c2}

\* The structures but the command pipe's are interchangeable.
Symmetry == Permutations(MCConns \ {c0})

================================================================================
