------------------------------ MODULE TreeView ------------------------------
(***************************************************************************)
(* maokai-tree: what the code asks of a state topology (trait TreeView).   *)
(*                                                                         *)
(* The arena of indextree (external) only ever grows here: a node id is    *)
(* its position in the arena, and all the topology needs of a node is its  *)
(* parent.  So a tree `t' is the sequence of parents, t[s] = NoState when  *)
(* s has none.  StateTree::new allocates the root first and the detached   *)
(* node `nil' second.  The operators take the tree as first argument, the  *)
(* `&self' of the code.                                                    *)
(***************************************************************************)
EXTENDS Naturals, Sequences, FiniteSetsExt

NoState == 0
root == 1
nil == 2

States(t) == 1 .. Len(t)

\* What every tree the API can build looks like: two parentless nodes, and
\* children allocated after their parent, never below nil (debug_assert_ne!).
IsTree(t) ==
  /\ t \in Seq(Nat)
  /\ Len(t) >= 2
  /\ t[root] = NoState /\ t[nil] = NoState
  /\ \A s \in 3 .. Len(t) : t[s] \in (1 .. s - 1) \ {nil}

Above(s, p) == <<s>> \o p

\* NodeId::ancestors: s itself, then its parent, up to a parentless node.
path_rev_iter(t, s) ==
  LET path[n \in DOMAIN t] ==
        IF t[n] = NoState THEN <<n>> ELSE Above(n, path[t[n]])
  IN  path[s]

\* The states that are live while s is current.
Ancestors(t, s) ==
  LET p == path_rev_iter(t, s) IN {p[i] : i \in DOMAIN p}

\* (mutant) `ancestors().nth(0)': the state itself.
ParentIsSelf(t, s) == path_rev_iter(t, s)[1]

parent_of(t, s) ==
  LET p == path_rev_iter(t, s) IN IF Len(p) > 1 THEN p[2] ELSE NoState

\* The last k elements of two paths are the same.
TailsAgree(p, q, k) ==
  /\ k <= Len(p) /\ k <= Len(q)
  /\ \A d \in 0 .. k - 1 : p[Len(p) - d] = q[Len(q) - d]

\* (mutant) the loop stops one short: `i > 1 && j > 1'.
SharedTailShort(p, q) ==
  Max({k \in 0 .. Len(p) :
         TailsAgree(p, q, k) /\ (k = 0 \/ (k < Len(p) /\ k < Len(q)))})

\* How often the loop of propose_transition, which trims both paths from the
\* root end while they agree, goes round.
SharedTail(p, q) == Max({k \in 0 .. Len(p) : TailsAgree(p, q, k)})

propose_transition(t, current, target) ==
  IF current = target
  THEN [exit |-> <<current>>, enter |-> <<target>>]
  ELSE LET p == path_rev_iter(t, current)
           q == path_rev_iter(t, target)
           i == Len(p) - SharedTail(p, q)
           j == Len(q) - SharedTail(p, q)
       IN  [exit  |-> [n \in 1 .. i |-> p[n]],
            enter |-> [n \in 1 .. j |-> q[j + 1 - n]]]

(***************************************************************************)
(* The contract of propose_transition.                                     *)
(***************************************************************************)

\* s lists states each of which lies strictly above the ones before it.
Climbs(t, s) ==
  \A i, j \in 1 .. Len(s) :
    i < j => s[j] \in Ancestors(t, s[i]) /\ s[i] \notin Ancestors(t, s[j])

\* s lists states each of which lies strictly below the ones before it.
Descends(t, s) ==
  \A i, j \in 1 .. Len(s) :
    i < j => s[i] \in Ancestors(t, s[j]) /\ s[j] \notin Ancestors(t, s[i])

Elements(s) == {s[i] : i \in 1 .. Len(s)}

\* Between two different states: what is exited is exactly what is live now
\* and not wanted, bottom up; what is entered is exactly what is wanted and
\* not live, top down.  So the least common ancestor and all above it are
\* left alone, as the comment on propose_transition promises.
ExactTransition(t, current, target) ==
  LET tr == propose_transition(t, current, target)
  IN  /\ Elements(tr.exit)  = Ancestors(t, current) \ Ancestors(t, target)
      /\ Elements(tr.enter) = Ancestors(t, target) \ Ancestors(t, current)
      /\ Climbs(t, tr.exit)
      /\ Descends(t, tr.enter)

=============================================================================
