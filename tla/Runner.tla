------------------------------- MODULE Runner -------------------------------
(***************************************************************************)
(* maokai-runner: Runner::transition and Runner::dispatch, one callback    *)
(* per step, and the caller, who owns the current state.  Callbacks are    *)
(* open: on_event gives any reply.  They do not call the runner ("Neither  *)
(* is re-entrant", README.md).                                             *)
(***************************************************************************)
EXTENDS TreeView

CONSTANT Trees
ASSUME TreesAssumption == \A t \in Trees : IsTree(t)

VARIABLES
  tree,
  behaviors,             \* the states with a registered behavior
  current,               \* the caller's
  phase,                 \* "rest", "exit", "enter" or "bubble"
  target,
  exit_list, enter_list, \* what is left of them
  probe, asked,          \* dispatch: next state to ask; those asked (ghost)
  reply,                 \* what dispatch returned, until the next call
  live                   \* ghost: states entered and not exited

transition_vars == <<target, exit_list, enter_list, live>>
dispatch_vars == <<probe, asked, reply>>
vars == <<tree, behaviors, current, phase, transition_vars, dispatch_vars>>

Init ==
  /\ tree \in Trees
  /\ behaviors \in SUBSET States(tree)
  /\ current = nil /\ phase = "rest"
  /\ target = NoState /\ exit_list = << >> /\ enter_list = << >>
  /\ probe = NoState /\ asked = << >> /\ reply = "Ignored"
  /\ live = {nil}

-----------------------------------------------------------------------------
\* (mutant) the enter list is not reversed.
EnterListUnreversed(s) ==
  LET tr == propose_transition(tree, current, s)
  IN  [tr EXCEPT !.enter = [i \in DOMAIN tr.enter |-> tr.enter[Len(tr.enter) + 1 - i]]]

Proposed(s) == propose_transition(tree, current, s)

transition(s) ==
  /\ phase = "rest"
  /\ target' = s
  /\ exit_list' = Proposed(s).exit /\ enter_list' = Proposed(s).enter
  /\ phase' = "exit"
  /\ asked' = << >> /\ reply' = "Ignored"
  /\ UNCHANGED <<tree, behaviors, current, live, probe>>

\* on_exit of the next state, if it has a behavior.
exit_next ==
  /\ phase = "exit" /\ exit_list # << >>
  /\ live' = live \ {Head(exit_list)}
  /\ exit_list' = Tail(exit_list)
  /\ UNCHANGED <<tree, behaviors, current, phase, target, enter_list, dispatch_vars>>

\* (mutant) the exit loop gives up early.
ExitBreaksOff ==
  /\ phase = "exit"
  /\ phase' = "enter"
  /\ UNCHANGED <<tree, behaviors, current, transition_vars, dispatch_vars>>

all_exited ==
  /\ phase = "exit" /\ exit_list = << >>
  /\ phase' = "enter"
  /\ UNCHANGED <<tree, behaviors, current, transition_vars, dispatch_vars>>

enter_next ==
  /\ phase = "enter" /\ enter_list # << >>
  /\ live' = live \cup {Head(enter_list)}
  /\ enter_list' = Tail(enter_list)
  /\ UNCHANGED <<tree, behaviors, current, phase, target, exit_list, dispatch_vars>>

\* (mutant) transition returns the state it started from.
ReturnsCurrent ==
  /\ phase = "enter" /\ enter_list = << >>
  /\ UNCHANGED current /\ target' = NoState
  /\ phase' = "rest"
  /\ UNCHANGED <<tree, behaviors, exit_list, enter_list, live, dispatch_vars>>

\* transition returns its target, which the caller makes the current state.
all_entered ==
  /\ phase = "enter" /\ enter_list = << >>
  /\ current' = target /\ target' = NoState
  /\ phase' = "rest"
  /\ UNCHANGED <<tree, behaviors, exit_list, enter_list, live, dispatch_vars>>

-----------------------------------------------------------------------------
Replies == {"Handled", "Ignored", "Transition"}

dispatch ==
  /\ phase = "rest"
  /\ probe' = current /\ asked' = << >> /\ reply' = "Ignored"
  /\ phase' = "bubble"
  /\ UNCHANGED <<tree, behaviors, current, transition_vars>>

\* (mutant) a state without a behavior ends the search.
StopsAtUnregistered == IF probe \in behaviors THEN parent_of(tree, probe) ELSE NoState

Above_probe == parent_of(tree, probe)

\* One round of the loop: ask the behavior at probe, if there is one, and go
\* up unless it says anything but Ignored.
bubble(r) ==
  /\ phase = "bubble"
  /\ probe \notin behaviors => r = "Ignored"
  /\ asked' = IF probe \in behaviors THEN Append(asked, probe) ELSE asked
  /\ IF r = "Ignored" /\ Above_probe # NoState
     THEN probe' = Above_probe /\ UNCHANGED <<phase, reply>>
     ELSE probe' = NoState /\ phase' = "rest" /\ reply' = r
  /\ UNCHANGED <<tree, behaviors, current, transition_vars>>

Next ==
  \/ \E s \in States(tree) : transition(s)
  \/ exit_next \/ all_exited \/ enter_next \/ all_entered
  \/ dispatch
  \/ \E r \in Replies : bubble(r)

Spec == Init /\ [][Next]_vars

FairSpec == Spec /\ WF_vars(exit_next \/ all_exited \/ enter_next \/ all_entered)
                 /\ WF_vars(\E r \in Replies : bubble(r))

-----------------------------------------------------------------------------
TypeOK ==
  /\ tree \in Trees /\ behaviors \subseteq States(tree)
  /\ current \in States(tree)
  /\ phase \in {"rest", "exit", "enter", "bubble"}
  /\ target \in IF phase \in {"exit", "enter"} THEN States(tree) ELSE {NoState}
  /\ probe \in IF phase = "bubble" THEN States(tree) ELSE {NoState}
  /\ exit_list \in Seq(States(tree)) /\ enter_list \in Seq(States(tree))
  /\ phase # "exit" => exit_list = << >>
  /\ phase \notin {"exit", "enter"} => enter_list = << >>
  /\ asked \in Seq(States(tree))
  /\ reply \in Replies
  /\ live \subseteq States(tree)

\* Outside of a transition exactly the current state and what lies above it
\* have been entered and not exited, whatever the sequence of transitions,
\* self-transitions and moves from and to nil was.
LiveIsBranch ==
  phase \notin {"exit", "enter"} => live = Ancestors(tree, current)

\* Every callback runs inside its parents': on_exit before theirs, on_enter
\* after theirs, also in the middle of a transition.
CallbacksNest ==
  \A s \in live : Ancestors(tree, s) \subseteq live

\* What a transition from c to g neither exits nor enters.
Kept(c, g) ==
  IF c = g THEN Ancestors(tree, g) \ {g}
  ELSE Ancestors(tree, c) \cap Ancestors(tree, g)

\* The inductive invariant behind them: how far a transition has come.
TransitionInv ==
  /\ LiveIsBranch
  /\ phase = "exit" =>
       /\ live = Kept(current, target) \cup Elements(exit_list)
       /\ Elements(exit_list) \subseteq Ancestors(tree, current) \ Kept(current, target)
       /\ Climbs(tree, exit_list)
       /\ Elements(enter_list) = Ancestors(tree, target) \ Kept(current, target)
       /\ Descends(tree, enter_list)
  /\ phase = "enter" =>
       /\ live = Ancestors(tree, target) \ Elements(enter_list)
       /\ Elements(enter_list) \subseteq Ancestors(tree, target)
       /\ Descends(tree, enter_list)

\* dispatch asks the behaviors of the current branch from the current state
\* up, each once and none left out, and stops at the first that does not
\* ignore the event ("the winning reply is returned verbatim; `Ignored' is
\* returned only when no level handled it").
DispatchAsksBranch ==
  [][phase = "bubble" /\ phase' = "rest" =>
       LET branch == Ancestors(tree, current) \cap behaviors
           winner == asked'[Len(asked')]
       IN  /\ Climbs(tree, asked')
           /\ IF reply' = "Ignored" THEN Elements(asked') = branch
              ELSE /\ asked' # << >>
                   /\ Elements(asked') = {s \in branch : winner \in Ancestors(tree, s)}]_vars

\* transition and dispatch return.
RunnerReturns == [](phase # "rest" => <>(phase = "rest"))

\* The transition of the code implements the abstract one.
Abstract == INSTANCE Statechart WITH
  goal <- target,
  doomed <- IF phase = "exit" THEN Elements(exit_list) ELSE {}
ImplementsStatechart == Abstract!Spec

=============================================================================
