------------------------------ MODULE MCRunner ------------------------------
(***************************************************************************)
(* Runner on every tree of up to MaxNodes nodes.                           *)
(***************************************************************************)
EXTENDS Runner

CONSTANT MaxNodes

AllTrees ==
  UNION {{t \in [1 .. n -> 0 .. n - 1] : IsTree(t)} : n \in 3 .. MaxNodes}

=============================================================================
