---------------------------- MODULE RunnerProofs ----------------------------
(***************************************************************************)
(* maokai-runner: transitions are right in every tree, and Runner          *)
(* implements Statechart.                                                  *)
(***************************************************************************)
EXTENDS Runner, TreeViewProofs

LEMMA ParentTyped ==
  ASSUME NEW t, IsTree(t), NEW s \in States(t)
  PROVE  parent_of(t, s) \in States(t) \cup {NoState}
<1> DEFINE p == path_rev_iter(t, s)
<1>1. p \in Seq(Nat) /\ Len(p) \in Nat \ {0}
  BY PathTyped DEF States
<1>2. \A n \in 1 .. Len(p) : p[n] \in States(t)
  BY PathBounded DEF States
<1>3. Len(p) > 1 => 2 \in 1 .. Len(p)
  BY <1>1
<1> HIDE DEF p
<1>4. parent_of(t, s) = IF Len(p) > 1 THEN p[2] ELSE NoState
  BY DEF parent_of, p
<1> QED BY <1>2, <1>3, <1>4

\* Two states are the same if they have the same ancestors.
LEMMA BranchNamesState ==
  ASSUME NEW t, IsTree(t), NEW a \in States(t), NEW b \in States(t),
         Ancestors(t, a) = Ancestors(t, b)
  PROVE  a = b
<1>1. a \in Ancestors(t, b) /\ b \in Ancestors(t, a)
  BY AncestorsTyped
<1>2. a <= b /\ b <= a
  BY <1>1, AncestorsOrder
<1>3. a \in Nat /\ b \in Nat
  BY DEF States
<1> QED BY <1>2, <1>3

\* propose_transition in the words of TransitionInv, self-transitions included.
LEMMA ProposalSplits ==
  ASSUME IsTree(tree), current \in States(tree), NEW s \in States(tree)
  PROVE  /\ Elements(Proposed(s).exit) = Ancestors(tree, current) \ Kept(current, s)
         /\ Elements(Proposed(s).enter) = Ancestors(tree, s) \ Kept(current, s)
         /\ Climbs(tree, Proposed(s).exit) /\ Descends(tree, Proposed(s).enter)
         /\ Kept(current, s) \subseteq Ancestors(tree, current) \cap Ancestors(tree, s)
BY ProposalParts DEF Proposed, Kept, KeptBetween

-----------------------------------------------------------------------------
LEMMA TreeKnown == TypeOK => IsTree(tree)
BY TreesAssumption DEF TypeOK

LEMMA InitTyped == Init => TypeOK
<1> SUFFICES ASSUME Init PROVE TypeOK
  OBVIOUS
<1>1. IsTree(tree) /\ nil \in States(tree)
  BY TreesAssumption, NilAlone DEF Init
<1> QED BY <1>1 DEF Init, TypeOK, Replies

LEMMA StepTyped == TypeOK /\ [Next]_vars => TypeOK'
<1> SUFFICES ASSUME TypeOK, [Next]_vars PROVE TypeOK'
  OBVIOUS
<1>0. IsTree(tree)
  BY TreeKnown
<1>1. ASSUME NEW s \in States(tree), transition(s) PROVE TypeOK'
  <2>1. Proposed(s).exit \in Seq(States(tree)) /\ Proposed(s).enter \in Seq(States(tree))
    BY <1>0, ProposalTyped DEF TypeOK, Proposed
  <2> QED BY <1>1, <2>1 DEF TypeOK, transition, Replies
<1>2. CASE exit_next
  <2>1. Tail(exit_list) \in Seq(States(tree))
    BY <1>2, ElementsOfTail DEF TypeOK, exit_next
  <2> QED BY <1>2, <2>1 DEF TypeOK, exit_next, dispatch_vars
<1>3. CASE all_exited
  BY <1>3 DEF TypeOK, all_exited, transition_vars, dispatch_vars
<1>4. CASE enter_next
  <2>1. Tail(enter_list) \in Seq(States(tree)) /\ Head(enter_list) \in States(tree)
    BY <1>4 DEF TypeOK, enter_next
  <2> QED BY <1>4, <2>1 DEF TypeOK, enter_next, dispatch_vars
<1>5. CASE all_entered
  BY <1>5 DEF TypeOK, all_entered, dispatch_vars
<1>6. CASE dispatch
  BY <1>6 DEF TypeOK, dispatch, transition_vars, Replies
<1>7. ASSUME NEW r \in Replies, bubble(r) PROVE TypeOK'
  <2>1. probe \in States(tree) /\ phase = "bubble"
    BY <1>7 DEF TypeOK, bubble
  <2>2. Above_probe \in States(tree) \cup {NoState}
    BY <1>0, <2>1, ParentTyped DEF Above_probe
  <2>3. asked' \in Seq(States(tree))
    BY <1>7, <2>1 DEF bubble, TypeOK
  <2> QED BY <1>7, <2>1, <2>2, <2>3 DEF TypeOK, bubble, transition_vars
<1>8. CASE UNCHANGED vars
  BY <1>8 DEF TypeOK, vars, transition_vars, dispatch_vars
<1> QED BY <1>1, <1>2, <1>3, <1>4, <1>5, <1>6, <1>7, <1>8 DEF Next

\* The lists and cursors of transition and dispatch hold states of the tree,
\* and are used up when the call returns.
THEOREM TypeCorrect == Spec => []TypeOK
BY InitTyped, StepTyped, PTL DEF Spec

-----------------------------------------------------------------------------
LEMMA InitBranch == Init => TransitionInv
<1> SUFFICES ASSUME Init PROVE TransitionInv
  OBVIOUS
<1>1. Ancestors(tree, nil) = {nil}
  BY TreesAssumption, NilAlone DEF Init
<1> QED BY <1>1 DEF Init, TransitionInv, LiveIsBranch

LEMMA StepBranch ==
  TypeOK /\ TransitionInv /\ [Next]_vars => TransitionInv'
<1> SUFFICES ASSUME TypeOK, TransitionInv, [Next]_vars PROVE TransitionInv'
  OBVIOUS
<1>0. IsTree(tree)
  BY TreeKnown
<1>1. ASSUME NEW s \in States(tree), transition(s) PROVE TransitionInv'
  <2>1. /\ phase = "rest" /\ phase' = "exit" /\ target' = s
        /\ exit_list' = Proposed(s).exit /\ enter_list' = Proposed(s).enter
        /\ UNCHANGED <<tree, current, live>>
    BY <1>1 DEF transition
  <2>2. live = Ancestors(tree, current)
    BY <2>1 DEF TransitionInv, LiveIsBranch
  <2>3. Kept(current, target)' = Kept(current, s)
    BY <2>1 DEF Kept
  <2> QED BY <1>0, <2>1, <2>2, <2>3, ProposalSplits DEF TypeOK, TransitionInv, LiveIsBranch
<1>2. CASE exit_next
  <2>1. /\ phase = "exit" /\ phase' = "exit" /\ exit_list # << >>
        /\ live' = live \ {Head(exit_list)} /\ exit_list' = Tail(exit_list)
        /\ UNCHANGED <<tree, current, target, enter_list>>
    BY <1>2 DEF exit_next
  <2>2. exit_list \in Seq(States(tree))
    BY DEF TypeOK
  <2>3. /\ Elements(exit_list) = {Head(exit_list)} \cup Elements(Tail(exit_list))
        /\ Elements(Tail(exit_list)) \subseteq States(tree)
    BY <2>1, <2>2, ElementsOfTail, ElementsTyped
  <2>4. /\ Climbs(tree, Tail(exit_list))
        /\ \A d \in Elements(Tail(exit_list)) : Head(exit_list) \notin Ancestors(tree, d)
    BY <2>1, <2>2, ClimbsFromHead DEF TransitionInv
  <2>5. Head(exit_list) \notin Elements(Tail(exit_list))
    BY <1>0, <2>3, <2>4, AncestorsTyped
  <2>6. Kept(current, target)' = Kept(current, target)
    BY <2>1 DEF Kept
  <2> QED BY <2>1, <2>3, <2>4, <2>5, <2>6 DEF TransitionInv, LiveIsBranch
<1>3. CASE all_exited
  <2>1. /\ phase = "exit" /\ phase' = "enter" /\ exit_list = << >>
        /\ UNCHANGED <<tree, current, target, enter_list, live>>
    BY <1>3 DEF all_exited, transition_vars
  <2>2. target \in States(tree) /\ current \in States(tree)
    BY <2>1 DEF TypeOK
  <2>3. Kept(current, target) \subseteq Ancestors(tree, target)
    BY <1>0, <2>2, ProposalSplits
  <2> QED BY <2>1, <2>3, ElementsOfNone DEF TransitionInv, LiveIsBranch
<1>4. CASE enter_next
  <2>1. /\ phase = "enter" /\ phase' = "enter" /\ enter_list # << >>
        /\ live' = live \cup {Head(enter_list)} /\ enter_list' = Tail(enter_list)
        /\ UNCHANGED <<tree, current, target>>
    BY <1>4 DEF enter_next
  <2>2. enter_list \in Seq(States(tree))
    BY DEF TypeOK
  <2>3. /\ Elements(enter_list) = {Head(enter_list)} \cup Elements(Tail(enter_list))
        /\ Head(enter_list) \in States(tree)
    BY <2>1, <2>2, ElementsOfTail
  <2>4. /\ Descends(tree, Tail(enter_list))
        /\ \A d \in Elements(Tail(enter_list)) : d \notin Ancestors(tree, Head(enter_list))
    BY <2>1, <2>2, DescendsFromHead DEF TransitionInv
  <2>5. Head(enter_list) \notin Elements(Tail(enter_list))
    BY <1>0, <2>3, <2>4, AncestorsTyped
  <2> QED BY <2>1, <2>3, <2>4, <2>5 DEF TransitionInv, LiveIsBranch
<1>5. CASE all_entered
  <2>1. /\ phase = "enter" /\ phase' = "rest" /\ enter_list = << >>
        /\ current' = target /\ UNCHANGED <<tree, live>>
    BY <1>5 DEF all_entered
  <2> QED BY <2>1, ElementsOfNone DEF TransitionInv, LiveIsBranch
<1>6. CASE dispatch
  BY <1>6 DEF TransitionInv, LiveIsBranch, dispatch, transition_vars
<1>7. ASSUME NEW r \in Replies, bubble(r) PROVE TransitionInv'
  BY <1>7 DEF TransitionInv, LiveIsBranch, bubble, transition_vars
<1>8. CASE UNCHANGED vars
  <2>1. UNCHANGED <<tree, current, phase, target, exit_list, enter_list, live>>
    BY <1>8 DEF vars, transition_vars
  <2> QED BY <2>1 DEF TransitionInv, LiveIsBranch, Kept
<1> QED BY <1>1, <1>2, <1>3, <1>4, <1>5, <1>6, <1>7, <1>8 DEF Next

LEMMA BranchInv == Spec => [](TypeOK /\ TransitionInv)
<1>1. TypeOK /\ TransitionInv /\ [Next]_vars => (TypeOK /\ TransitionInv)'
  BY StepTyped, StepBranch
<1> QED BY <1>1, InitTyped, InitBranch, PTL DEF Spec

\* In the middle of a transition, live are the states that are kept, those
\* still to be exited and those already entered; the inductive invariant of
\* Runner::transition.
THEOREM TransitionsAlwaysSplit == Spec => []TransitionInv
BY BranchInv, PTL

\* Whatever transitions, self-transitions and moves from and to nil a caller
\* makes, in trees of every size, exactly the current branch is live outside
\* of Runner::transition.
THEOREM BranchAlwaysLive == Spec => []LiveIsBranch
<1>1. TransitionInv => LiveIsBranch
  BY DEF TransitionInv
<1> QED BY <1>1, BranchInv, PTL

-----------------------------------------------------------------------------
\* Nothing live lies below the state exit_next leaves.
LEMMA HeadIsLowest ==
  ASSUME TypeOK, TransitionInv, phase = "exit", exit_list # << >>
  PROVE  \A d \in live \ {Head(exit_list)} : Head(exit_list) \notin Ancestors(tree, d)
<1> DEFINE h == Head(exit_list)
<1>1. /\ IsTree(tree) /\ exit_list \in Seq(States(tree))
      /\ current \in States(tree) /\ target \in States(tree)
  BY TreeKnown DEF TypeOK
<1>2. /\ h \in Elements(exit_list)
      /\ Elements(exit_list) = {h} \cup Elements(Tail(exit_list))
  BY <1>1, ElementsOfTail
<1>3. \A d \in Elements(Tail(exit_list)) : h \notin Ancestors(tree, d)
  BY <1>1, ClimbsFromHead DEF TransitionInv
<1>4. /\ live = Kept(current, target) \cup Elements(exit_list)
      /\ h \in Ancestors(tree, current) \ Kept(current, target)
  BY <1>2 DEF TransitionInv
<1> HIDE DEF h
<1>5. ASSUME NEW d \in Kept(current, target) PROVE h \notin Ancestors(tree, d)
  <2>1. CASE current = target
    <3>1. h = target /\ d \in Ancestors(tree, target) /\ d # target
      BY <1>4, <1>5, <2>1 DEF Kept
    <3> QED BY <1>1, <3>1, AncestorsOrder
  <2>2. CASE current # target
    <3>1. d \in Ancestors(tree, current) /\ d \in Ancestors(tree, target)
      BY <1>5, <2>2 DEF Kept
    <3>2. Ancestors(tree, d) \subseteq Ancestors(tree, current) \cap Ancestors(tree, target)
      BY <1>1, <3>1, AncestorsOrder
    <3> QED BY <1>4, <2>2, <3>2 DEF Kept
  <2> QED BY <2>1, <2>2
<1> QED BY <1>2, <1>3, <1>4, <1>5 DEF h

\* All that lies above the state enter_next joins is live.
LEMMA AboveHeadIsLive ==
  ASSUME TypeOK, TransitionInv, phase = "enter", enter_list # << >>
  PROVE  /\ Head(enter_list) \in Ancestors(tree, target) \ live
         /\ Head(enter_list) \in States(tree)
         /\ Ancestors(tree, Head(enter_list)) \ {Head(enter_list)} \subseteq live
<1> DEFINE h == Head(enter_list)
<1>1. IsTree(tree) /\ enter_list \in Seq(States(tree)) /\ target \in States(tree)
  BY TreeKnown DEF TypeOK
<1>2. /\ h \in Elements(enter_list) /\ h \in States(tree)
      /\ Elements(enter_list) = {h} \cup Elements(Tail(enter_list))
  BY <1>1, ElementsOfTail
<1>3. \A d \in Elements(Tail(enter_list)) : d \notin Ancestors(tree, h)
  BY <1>1, DescendsFromHead DEF TransitionInv
<1>4. /\ live = Ancestors(tree, target) \ Elements(enter_list)
      /\ h \in Ancestors(tree, target)
  BY <1>2 DEF TransitionInv
<1>5. Ancestors(tree, h) \subseteq Ancestors(tree, target)
  BY <1>1, <1>4, AncestorsOrder
<1> QED BY <1>2, <1>3, <1>4, <1>5

\* Statechart has the tree operators from an instance of TreeView of its own.
LEMMA SameOperators ==
  /\ Abstract!NoState = NoState /\ Abstract!nil = nil
  /\ \A t : Abstract!States(t) = States(t)
  /\ \A t, s : Abstract!Ancestors(t, s) = Ancestors(t, s)
<1>1. Abstract!NoState = NoState /\ Abstract!nil = nil
  BY DEF Abstract!NoState, Abstract!nil, NoState, nil
<1>2. \A t : Abstract!States(t) = States(t)
  BY DEF Abstract!States, States
<1>3. \A t, s : Abstract!path_rev_iter(t, s) = path_rev_iter(t, s)
  BY DEF Abstract!path_rev_iter, Abstract!Above, Abstract!NoState,
         path_rev_iter, Above, NoState
<1>4. \A t, s : Abstract!Ancestors(t, s) = Ancestors(t, s)
  BY <1>3 DEF Abstract!Ancestors, Ancestors
<1> QED BY <1>1, <1>2, <1>4

\* Every step of the code is a step of the statechart, or none.
LEMMA StepRefines ==
  TypeOK /\ TypeOK' /\ TransitionInv /\ TransitionInv' /\ [Next]_vars
    => [Abstract!Next]_(Abstract!vars)
<1> SUFFICES ASSUME TypeOK, TypeOK', TransitionInv, TransitionInv', [Next]_vars
             PROVE  [Abstract!Next]_(Abstract!vars)
  OBVIOUS
<1>0. IsTree(tree) /\ current \in States(tree)
  BY TreeKnown DEF TypeOK
<1>1. ASSUME NEW s \in States(tree), transition(s) PROVE Abstract!Begin(s)
  <2>1. /\ phase = "rest" /\ phase' = "exit" /\ target' = s /\ target = NoState
        /\ exit_list' = Proposed(s).exit /\ UNCHANGED <<tree, live>>
    BY <1>1 DEF transition, TypeOK
  <2>2. live = Ancestors(tree, current)
    BY <2>1 DEF TransitionInv, LiveIsBranch
  <2>3. Elements(exit_list)' = Ancestors(tree, current) \ Kept(current, s)
    BY <1>0, <2>1, ProposalSplits
  <2>4. s \in Ancestors(tree, s)
    BY <1>0, AncestorsTyped
  <2>5. Elements(exit_list)' = IF live = Ancestors(tree, s) THEN {s}
                               ELSE live \ Ancestors(tree, s)
    <3>1. CASE current = s
      BY <2>2, <2>3, <2>4, <3>1 DEF Kept
    <3>2. CASE current # s
      <4>1. live # Ancestors(tree, s)
        BY <1>0, <2>2, <3>2, BranchNamesState
      <4> QED BY <2>2, <2>3, <3>2, <4>1 DEF Kept
    <3> QED BY <3>1, <3>2
  <2> QED BY <2>1, <2>5, SameOperators DEF Abstract!Begin
<1>2. CASE exit_next
  <2>1. /\ phase = "exit" /\ phase' = "exit" /\ exit_list # << >>
        /\ live' = live \ {Head(exit_list)} /\ exit_list' = Tail(exit_list)
        /\ UNCHANGED <<tree, target>>
    BY <1>2 DEF exit_next
  <2>2. exit_list \in Seq(States(tree))
    BY DEF TypeOK
  <2>3. /\ Head(exit_list) \in Elements(exit_list)
        /\ Elements(exit_list) = {Head(exit_list)} \cup Elements(Tail(exit_list))
        /\ Elements(exit_list) \subseteq States(tree)
    BY <2>1, <2>2, ElementsOfTail, ElementsTyped
  <2>4. \A d \in Elements(Tail(exit_list)) : Head(exit_list) \notin Ancestors(tree, d)
    BY <2>1, <2>2, ClimbsFromHead DEF TransitionInv
  <2>5. Elements(exit_list)' = Elements(exit_list) \ {Head(exit_list)}
    BY <1>0, <2>1, <2>3, <2>4, AncestorsTyped
  <2>6. Abstract!Leave(Head(exit_list))
    BY <2>1, <2>3, <2>5, HeadIsLowest, SameOperators DEF Abstract!Leave
  <2> QED BY <2>3, <2>6, SameOperators DEF Abstract!Next
<1>3. CASE all_exited
  <2>1. /\ phase = "exit" /\ phase' = "enter" /\ exit_list = << >>
        /\ UNCHANGED <<tree, target, live>>
    BY <1>3 DEF all_exited, transition_vars
  <2> QED BY <2>1, ElementsOfNone DEF Abstract!vars
<1>4. CASE enter_next
  <2>1. /\ phase = "enter" /\ phase' = "enter" /\ enter_list # << >>
        /\ live' = live \cup {Head(enter_list)} /\ UNCHANGED <<tree, target>>
    BY <1>4 DEF enter_next
  <2>2. target # NoState
    BY <2>1 DEF TypeOK, States, NoState
  <2>3. Head(enter_list) \in States(tree) /\ Abstract!Join(Head(enter_list))
    BY <2>1, <2>2, AboveHeadIsLive, SameOperators DEF Abstract!Join
  <2> QED BY <2>3, SameOperators DEF Abstract!Next
<1>5. CASE all_entered
  <2>1. /\ phase = "enter" /\ phase' = "rest" /\ enter_list = << >>
        /\ target' = NoState /\ UNCHANGED <<tree, live>>
    BY <1>5 DEF all_entered
  <2>2. target # NoState
    BY <2>1 DEF TypeOK, States, NoState
  <2>3. live = Ancestors(tree, target)
    BY <2>1, ElementsOfNone DEF TransitionInv
  <2>4. Abstract!End
    BY <2>1, <2>2, <2>3, SameOperators DEF Abstract!End
  <2> QED BY <2>4 DEF Abstract!Next
<1>6. ASSUME dispatch \/ (\E r \in Replies : bubble(r)) \/ UNCHANGED vars
      PROVE  UNCHANGED Abstract!vars
  <2>1. /\ UNCHANGED <<tree, target, exit_list, live>>
        /\ phase = phase' \/ (phase # "exit" /\ phase' # "exit")
    BY <1>6 DEF dispatch, bubble, vars, transition_vars
  <2> QED BY <2>1 DEF Abstract!vars
<1>7. ASSUME NEW s \in States(tree), transition(s) PROVE Abstract!Next
  BY <1>1, <1>7, SameOperators DEF Abstract!Next
<1> QED BY <1>2, <1>3, <1>4, <1>5, <1>6, <1>7 DEF Next

\* Runner::transition implements the statechart in every tree: states are
\* left lowest first and joined highest first, only those the goal asks for.
THEOREM RunnerImplements == Spec => ImplementsStatechart
<1>1. Init => Abstract!Init
  BY SameOperators DEF Init, Abstract!Init
<1> QED BY <1>1, StepRefines, BranchInv, PTL DEF Spec, ImplementsStatechart, Abstract!Spec

-----------------------------------------------------------------------------
\* The callbacks nest because the steps of the statechart keep them nested.
LEMMA StepNests ==
  ASSUME TypeOK, CallbacksNest, [Abstract!Next]_(Abstract!vars)
  PROVE  CallbacksNest'
<1>0. IsTree(tree)
  BY TreeKnown
<1>1. ASSUME NEW s \in States(tree), Abstract!Begin(s) PROVE CallbacksNest'
  BY <1>1 DEF Abstract!Begin, CallbacksNest
<1>2. ASSUME NEW s \in States(tree), Abstract!Leave(s) PROVE CallbacksNest'
  <2>1. /\ \A d \in live \ {s} : s \notin Ancestors(tree, d)
        /\ live' = live \ {s} /\ tree' = tree
    BY <1>2, SameOperators DEF Abstract!Leave
  <2> QED BY <2>1 DEF CallbacksNest
<1>3. ASSUME NEW s \in States(tree), Abstract!Join(s) PROVE CallbacksNest'
  <2>1. /\ Ancestors(tree, s) \ {s} \subseteq live
        /\ live' = live \cup {s} /\ tree' = tree
    BY <1>3, SameOperators DEF Abstract!Join
  <2> QED BY <2>1 DEF CallbacksNest
<1>4. CASE Abstract!End
  BY <1>4 DEF Abstract!End, CallbacksNest
<1>5. CASE UNCHANGED Abstract!vars
  BY <1>5 DEF Abstract!vars, CallbacksNest
<1> QED BY <1>1, <1>2, <1>3, <1>4, <1>5, SameOperators DEF Abstract!Next

\* on_enter runs after the parents' on_enter and on_exit before theirs, in
\* the middle of transitions too.
THEOREM CallbacksAlwaysNest == Spec => []CallbacksNest
<1>1. Init => CallbacksNest
  BY TreesAssumption, NilAlone DEF Init, CallbacksNest
<1>2. TypeOK /\ CallbacksNest /\ [Abstract!Next]_(Abstract!vars) => CallbacksNest'
  BY StepNests
<1> QED BY <1>1, <1>2, StepRefines, BranchInv, PTL DEF Spec
-----------------------------------------------------------------------------
(* dispatch: how far the event has bubbled.                                *)

\* The branch's behaviors strictly below the state to ask next, and no others,
\* have been asked.
BubbleInv ==
  phase = "bubble" =>
    /\ probe \in Ancestors(tree, current)
    /\ Climbs(tree, asked)
    /\ Elements(asked) =
         {s \in Ancestors(tree, current) \cap behaviors : s \notin Ancestors(tree, probe)}

LEMMA ElementsOfAppend ==
  ASSUME NEW S, NEW q \in Seq(S), NEW e \in S
  PROVE  /\ Elements(Append(q, e)) = Elements(q) \cup {e}
         /\ Append(q, e) # << >> /\ Append(q, e)[Len(Append(q, e))] = e
<1>1. /\ Len(Append(q, e)) = Len(q) + 1 /\ Len(q) \in Nat
      /\ \A i \in 1 .. Len(q) : Append(q, e)[i] = q[i]
      /\ Append(q, e)[Len(q) + 1] = e
  OBVIOUS
<1>2. 1 .. Len(q) + 1 = (1 .. Len(q)) \cup {Len(q) + 1}
  BY <1>1
<1> QED BY <1>1, <1>2 DEF Elements

LEMMA ClimbsAppend ==
  ASSUME NEW t, NEW S, NEW q \in Seq(S), NEW e \in S, Climbs(t, q),
         \A d \in Elements(q) : e \in Ancestors(t, d) /\ d \notin Ancestors(t, e)
  PROVE  Climbs(t, Append(q, e))
<1>1. /\ Len(Append(q, e)) = Len(q) + 1 /\ Len(q) \in Nat
      /\ \A i \in 1 .. Len(q) : Append(q, e)[i] = q[i] /\ q[i] \in Elements(q)
      /\ Append(q, e)[Len(q) + 1] = e
  BY DEF Elements
<1> SUFFICES ASSUME NEW i \in 1 .. Len(q) + 1, NEW j \in 1 .. Len(q) + 1, i < j
             PROVE  /\ Append(q, e)[j] \in Ancestors(t, Append(q, e)[i])
                    /\ Append(q, e)[i] \notin Ancestors(t, Append(q, e)[j])
  BY <1>1 DEF Climbs
<1>2. i \in 1 .. Len(q) /\ (j \in 1 .. Len(q) \/ j = Len(q) + 1)
  BY <1>1
<1> QED BY <1>1, <1>2 DEF Climbs

\* One round of the loop, in the words of the branch: who has been asked after it.
LEMMA BubbleAsks ==
  ASSUME TypeOK, BubbleInv, NEW r \in Replies, bubble(r)
  PROVE  /\ Climbs(tree, asked')
         /\ Elements(asked') = {s \in Ancestors(tree, current) \cap behaviors :
                                  probe \in Ancestors(tree, s)}
         /\ probe \in behaviors => asked' # << >> /\ asked'[Len(asked')] = probe
<1> DEFINE branch == Ancestors(tree, current) \cap behaviors
<1>0. IsTree(tree) /\ current \in States(tree) /\ phase = "bubble"
  BY TreeKnown DEF TypeOK, bubble
<1>1. probe \in States(tree) /\ asked \in Seq(States(tree)) /\ probe \in Ancestors(tree, current)
  BY <1>0 DEF TypeOK, BubbleInv
<1>2. /\ Climbs(tree, asked)
      /\ Elements(asked) = {s \in branch : s \notin Ancestors(tree, probe)}
  BY <1>0 DEF BubbleInv
<1>3. asked' = IF probe \in behaviors THEN Append(asked, probe) ELSE asked
  BY DEF bubble
<1>4. \A s \in branch : s \notin Ancestors(tree, probe) => probe \in Ancestors(tree, s)
  BY <1>0, <1>1, BranchLinear
<1>5. \A s \in branch : probe \in Ancestors(tree, s) => s = probe \/ s \notin Ancestors(tree, probe)
  <2>1. \A s \in branch : s \in States(tree)
    BY <1>0, AncestorsTyped
  <2> QED BY <1>0, <2>1, AncestorsOrder
<1>6. probe \in Ancestors(tree, probe)
  BY <1>0, <1>1, AncestorsTyped
<1> HIDE DEF branch
<1>7. CASE probe \in behaviors
  <2>1. Elements(asked') = Elements(asked) \cup {probe}
    BY <1>1, <1>3, <1>7, ElementsOfAppend
  <2>2. asked' # << >> /\ asked'[Len(asked')] = probe
    BY <1>1, <1>3, <1>7, ElementsOfAppend
  <2>3. Climbs(tree, asked')
    BY <1>1, <1>2, <1>3, <1>4, <1>7, ClimbsAppend
  <2>4. probe \in branch
    BY <1>1, <1>7 DEF branch
  <2>5. Elements(asked') = {s \in branch : probe \in Ancestors(tree, s)}
    BY <1>2, <1>4, <1>5, <1>6, <2>1, <2>4
  <2> QED BY <2>2, <2>3, <2>5 DEF branch
<1>8. CASE probe \notin behaviors
  <2>1. probe \notin branch
    BY <1>8 DEF branch
  <2>2. {s \in branch : s \notin Ancestors(tree, probe)} = {s \in branch : probe \in Ancestors(tree, s)}
    BY <1>4, <1>5, <2>1
  <2> QED BY <1>2, <1>3, <1>8, <2>2 DEF branch
<1> QED BY <1>7, <1>8

LEMMA InitBubble == Init => BubbleInv
BY DEF Init, BubbleInv

LEMMA StepBubble == TypeOK /\ BubbleInv /\ [Next]_vars => BubbleInv'
<1> SUFFICES ASSUME TypeOK, BubbleInv, [Next]_vars PROVE BubbleInv'
  OBVIOUS
<1>0. IsTree(tree) /\ current \in States(tree)
  BY TreeKnown DEF TypeOK
<1>1. ASSUME NEW s \in States(tree), transition(s) PROVE BubbleInv'
  BY <1>1 DEF transition, BubbleInv
<1>2. CASE exit_next
  BY <1>2 DEF exit_next, BubbleInv
<1>3. CASE all_exited
  BY <1>3 DEF all_exited, BubbleInv
<1>4. CASE enter_next
  BY <1>4 DEF enter_next, BubbleInv
<1>5. CASE all_entered
  BY <1>5 DEF all_entered, BubbleInv
<1>6. CASE dispatch
  <2>1. /\ probe' = current /\ asked' = << >>
        /\ UNCHANGED <<tree, behaviors, current>>
    BY <1>6 DEF dispatch
  <2>2. Climbs(tree, << >>)
    BY DEF Climbs
  <2>3. current \in Ancestors(tree, current)
    BY <1>0, AncestorsTyped
  <2> QED BY <2>1, <2>2, <2>3, ElementsOfNone DEF BubbleInv
<1>7. ASSUME NEW r \in Replies, bubble(r) PROVE BubbleInv'
  <2> SUFFICES ASSUME phase' = "bubble" PROVE BubbleInv'
    BY DEF BubbleInv
  <2> DEFINE branch == Ancestors(tree, current) \cap behaviors
             above == parent_of(tree, probe)
  <2>1. /\ probe' = above /\ above # NoState
        /\ UNCHANGED <<tree, behaviors, current>>
    BY <1>7 DEF bubble, Above_probe
  <2>2. probe \in States(tree) /\ probe \in Ancestors(tree, current)
    BY <1>0, <1>7 DEF TypeOK, bubble, BubbleInv
  <2>3. above \in States(tree)
    BY <1>0, <2>1, <2>2, ParentTyped
  <2>4. Ancestors(tree, probe) = {probe} \cup Ancestors(tree, above)
    BY <1>0, <2>1, <2>2, AncestorsOfParent
  <2>5. above \in Ancestors(tree, probe)
    BY <1>0, <2>3, <2>4, AncestorsTyped
  <2>6. above \in Ancestors(tree, current)
    BY <1>0, <2>2, <2>5, AncestorsOrder
  <2>7. above # probe
    <3>1. PICK p : p = path_rev_iter(tree, probe)
      OBVIOUS
    <3>2. p \in Seq(Nat) /\ Len(p) > 1 /\ above = p[2] /\ 2 \in 1 .. Len(p)
      BY <1>0, <2>1, <2>2, <3>1, PathTyped DEF parent_of, States
    <3>3. p[2] < probe
      BY <1>0, <2>2, <3>1, <3>2, PathBounded DEF States
    <3> QED BY <3>2, <3>3, <2>2 DEF States
  <2>8. probe \notin Ancestors(tree, above)
    BY <1>0, <2>2, <2>5, <2>7, AncestorsOrder
  <2>9. /\ Climbs(tree, asked')
        /\ Elements(asked') = {s \in branch : probe \in Ancestors(tree, s)}
    BY <1>7, BubbleAsks
  <2>10. ASSUME NEW s \in branch
         PROVE  probe \in Ancestors(tree, s) <=> s \notin Ancestors(tree, above)
    <3>1. s \in States(tree) /\ s \in Ancestors(tree, current)
      BY <1>0, AncestorsTyped
    <3>2. s \in Ancestors(tree, above) => probe \notin Ancestors(tree, s)
      BY <1>0, <2>3, <2>8, AncestorsOrder
    <3>3. probe \in Ancestors(tree, s) \/ s \in Ancestors(tree, probe)
      BY <1>0, <2>2, <3>1, BranchLinear
    <3>4. s = probe => probe \in Ancestors(tree, s)
      BY <1>0, <3>1, AncestorsTyped
    <3> QED BY <2>4, <3>2, <3>3, <3>4
  <2> HIDE DEF branch, above
  <2>11. Elements(asked') = {s \in branch : s \notin Ancestors(tree, above)}
    BY <2>9, <2>10
  <2> QED BY <2>1, <2>6, <2>9, <2>11 DEF BubbleInv, branch
<1>8. CASE UNCHANGED vars
  BY <1>8 DEF vars, dispatch_vars, BubbleInv
<1> QED BY <1>1, <1>2, <1>3, <1>4, <1>5, <1>6, <1>7, <1>8 DEF Next

\* dispatch asks every behavior of the branch, bottom up and each once, up to
\* the one that does not ignore the event, in trees of every size.
THEOREM DispatchAlwaysAsksBranch == Spec => DispatchAsksBranch
<1> DEFINE Asks ==
      LET branch == Ancestors(tree, current) \cap behaviors
          winner == asked'[Len(asked')]
      IN  /\ Climbs(tree, asked')
          /\ IF reply' = "Ignored" THEN Elements(asked') = branch
             ELSE /\ asked' # << >>
                  /\ Elements(asked') = {s \in branch : winner \in Ancestors(tree, s)}
<1>1. ASSUME TypeOK, BubbleInv, Next, phase = "bubble", phase' = "rest" PROVE Asks
  <2>1. PICK r \in Replies : bubble(r)
    BY <1>1 DEF Next, transition, exit_next, all_exited, enter_next, all_entered, dispatch
  <2>2. /\ Climbs(tree, asked')
        /\ Elements(asked') = {s \in Ancestors(tree, current) \cap behaviors :
                                 probe \in Ancestors(tree, s)}
        /\ probe \in behaviors => asked' # << >> /\ asked'[Len(asked')] = probe
    BY <1>1, <2>1, BubbleAsks
  <2>3. reply' = r
    BY <1>1, <2>1 DEF bubble
  <2>4. CASE r = "Ignored"
    <3>1. IsTree(tree) /\ current \in States(tree) /\ probe \in States(tree)
          /\ probe \in Ancestors(tree, current)
      BY <1>1, TreeKnown DEF TypeOK, BubbleInv
    <3>2. parent_of(tree, probe) = NoState
      BY <1>1, <2>1, <2>4 DEF bubble, Above_probe
    <3>3. Ancestors(tree, probe) = {probe}
      BY <3>1, <3>2, AncestorsOfParent
    <3>4. \A s \in Ancestors(tree, current) : probe \in Ancestors(tree, s)
      BY <3>1, <3>3, BranchLinear, AncestorsTyped
    <3>5. Elements(asked') = Ancestors(tree, current) \cap behaviors
      BY <2>2, <3>4
    <3> QED BY <2>2, <2>3, <2>4, <3>5
  <2>5. CASE r # "Ignored"
    <3>1. probe \in behaviors
      BY <2>1, <2>5 DEF bubble
    <3>2. asked' # << >> /\ asked'[Len(asked')] = probe
      BY <2>2, <3>1
    <3> QED BY <2>2, <2>3, <2>5, <3>2
  <2> QED BY <2>4, <2>5
<1>2. TypeOK /\ BubbleInv /\ [Next]_vars => [phase = "bubble" /\ phase' = "rest" => Asks]_vars
  BY <1>1
<1>3. TypeOK /\ BubbleInv /\ [Next]_vars => BubbleInv'
  BY StepBubble
<1>4. Spec => []BubbleInv
  BY <1>3, InitBubble, TypeCorrect, PTL DEF Spec
<1> QED BY <1>2, <1>4, TypeCorrect, PTL DEF Spec, DispatchAsksBranch
=============================================================================
