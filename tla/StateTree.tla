------------------------------ MODULE StateTree ------------------------------
(***************************************************************************)
(* maokai-tree: building a tree.  StateTree::new and add_child are all     *)
(* that ever changes one; payload data is left out.                        *)
(***************************************************************************)
EXTENDS TreeView

CONSTANT MaxNodes                  \* bound on the arena, for model checking
ASSUME MaxNodesAssumption == MaxNodes \in Nat

VARIABLE arena                     \* the parent of every node

Init == arena = <<NoState, NoState>>

\* (mutant) the debug_assert on the parent is forgotten.
add_child_below_nil(parent) == arena' = Append(arena, parent)

add_child(parent) ==
  /\ parent # nil
  /\ arena' = Append(arena, parent)

Next ==
  /\ Len(arena) < MaxNodes
  /\ \E parent \in States(arena) : add_child(parent)

Spec == Init /\ [][Next]_arena

-----------------------------------------------------------------------------
\* The arena is a well-formed tree however it was built (StateTree::new,
\* add_child); in particular nothing ever hangs below nil.
TypeOK == IsTree(arena)

\* For every tree that add_child can build and every two different states of
\* it, nil included, propose_transition proposes exactly the states between
\* the two branches, each list in the order the callbacks need.
TransitionsExact ==
  \A current, target \in States(arena) :
    current # target => ExactTransition(arena, current, target)

=============================================================================
