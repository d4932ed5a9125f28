----------------------------- MODULE Statechart -----------------------------
(***************************************************************************)
(* What maokai-runner promises of a transition, without paths or lists:    *)
(* states are left lowest first and only if the goal does not need them    *)
(* (a self-transition leaves and re-enters the state itself), and then     *)
(* joined highest first until the goal's branch is complete.               *)
(***************************************************************************)
EXTENDS TreeView

CONSTANT Trees                    \* the trees a runner may be made for

VARIABLES tree,
          live,                   \* states entered and not exited
          goal,                   \* target of the transition, or NoState
          doomed                  \* live states the transition still has to leave

vars == <<tree, live, goal, doomed>>

Init ==
  /\ tree \in Trees
  /\ live = {nil} /\ goal = NoState /\ doomed = {}

Begin(target) ==
  /\ goal = NoState /\ goal' = target
  /\ doomed' = IF live = Ancestors(tree, target) THEN {target}
               ELSE live \ Ancestors(tree, target)
  /\ UNCHANGED <<tree, live>>

Leave(s) ==
  /\ s \in doomed /\ \A d \in live \ {s} : s \notin Ancestors(tree, d)
  /\ live' = live \ {s} /\ doomed' = doomed \ {s}
  /\ UNCHANGED <<tree, goal>>

Join(s) ==
  /\ goal # NoState /\ doomed = {}
  /\ s \in Ancestors(tree, goal) \ live
  /\ Ancestors(tree, s) \ {s} \subseteq live
  /\ live' = live \cup {s}
  /\ UNCHANGED <<tree, goal, doomed>>

End ==
  /\ goal # NoState /\ doomed = {} /\ live = Ancestors(tree, goal)
  /\ goal' = NoState
  /\ UNCHANGED <<tree, live, doomed>>

Next ==
  \/ \E s \in States(tree) : Begin(s) \/ Leave(s) \/ Join(s)
  \/ End

Spec == Init /\ [][Next]_vars

=============================================================================
