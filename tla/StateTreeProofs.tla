--------------------------- MODULE StateTreeProofs ---------------------------
(***************************************************************************)
(* maokai-tree: the properties of StateTree, for trees of every size, and  *)
(* lookup is exact in every tree, for every data set shorter than the mask *)
(* is wide.                                                                *)
(***************************************************************************)
EXTENDS Lookup, TreeViewProofs, FiniteSetTheorems

LEMMA InitIsTree == Init => TypeOK
BY DEF Init, TypeOK, IsTree, root, nil, NoState

LEMMA AddChildIsTree ==
  ASSUME TypeOK, NEW parent \in States(arena), add_child(parent)
  PROVE  /\ TypeOK'
         /\ Len(arena') = Len(arena) + 1
         /\ \A s \in 1 .. Len(arena) : arena'[s] = arena[s]
<1>1. /\ arena \in Seq(Nat) /\ Len(arena) \in Nat /\ Len(arena) >= 2
      /\ parent \in Nat /\ parent \in 1 .. Len(arena) /\ parent # nil
      /\ arena' = Append(arena, parent)
  BY DEF TypeOK, IsTree, States, add_child
<1>2. /\ arena' \in Seq(Nat) /\ Len(arena') = Len(arena) + 1
      /\ arena'[Len(arena) + 1] = parent
      /\ \A s \in 1 .. Len(arena) : arena'[s] = arena[s]
  BY <1>1
<1>3. arena'[root] = NoState /\ arena'[nil] = NoState
  BY <1>1, <1>2 DEF TypeOK, IsTree, root, nil
<1>4. ASSUME NEW s \in 3 .. Len(arena')
      PROVE  arena'[s] \in (1 .. s - 1) \ {nil}
  <2>1. CASE s = Len(arena) + 1
    BY <2>1, <1>1, <1>2
  <2>2. CASE s # Len(arena) + 1
    <3>1. s \in 3 .. Len(arena) /\ s \in 1 .. Len(arena)
      BY <2>2, <1>1, <1>2
    <3> QED BY <3>1, <1>2 DEF TypeOK, IsTree
  <2> QED BY <2>1, <2>2
<1> QED BY <1>1, <1>2, <1>3, <1>4 DEF TypeOK, IsTree

LEMMA StepIsTree == TypeOK /\ [Next]_arena => TypeOK'
<1>1. CASE Next
  BY <1>1, AddChildIsTree DEF Next
<1>2. CASE UNCHANGED arena
  BY <1>2 DEF TypeOK
<1> QED BY <1>1, <1>2

\* Every tree the API can build is well formed (StateTree::new, add_child).
THEOREM TypeCorrect == Spec => []TypeOK
BY InitIsTree, StepIsTree, PTL DEF Spec

\* In every tree the API can build, of any size, propose_transition is exact
\* between any two different states.
THEOREM TransitionsAlwaysExact == Spec => []TransitionsExact
<1>1. TypeOK => TransitionsExact
  BY TransitionExact DEF TypeOK, TransitionsExact
<1> QED BY <1>1, TypeCorrect, PTL

-----------------------------------------------------------------------------
(* lookup: where the children of a state stand in the walk.                *)

\* parent_of reads the arena.
LEMMA ParentOf ==
  ASSUME NEW t, IsTree(t), NEW s \in States(t)
  PROVE  parent_of(t, s) = t[s]
<1> DEFINE p == path_rev_iter(t, s)
<1>1. parent_of(t, s) = IF Len(p) > 1 THEN p[2] ELSE NoState
  BY DEF parent_of
<1>2. CASE t[s] = NoState
  <2>1. p = <<s>>
    BY <1>2, PathEquation DEF States
  <2> QED BY <1>1, <1>2, <2>1
<1>3. CASE t[s] # NoState
  <2> DEFINE q == path_rev_iter(t, t[s])
  <2>1. /\ t[s] \in States(t) /\ Len(p) = Len(q) + 1
        /\ \A i \in 1 .. Len(q) : p[i + 1] = q[i]
    BY <1>3, PathOfChild DEF States
  <2>2. Len(q) \in Nat \ {0} /\ q[1] = t[s]
    BY <2>1, PathTyped DEF States
  <2>3. 1 \in 1 .. Len(q)
    BY <2>2
  <2>4. p[1 + 1] = q[1]
    BY <2>1, <2>3
  <2> HIDE DEF p, q
  <2> QED BY <1>1, <2>1, <2>2, <2>4
<1> QED BY <1>2, <1>3

\* The child and its parent.
LEMMA ChildFacts ==
  ASSUME NEW t, IsTree(t), NEW s \in States(t), NEW c \in States(t), t[c] = s
  PROVE  /\ s < c
         /\ Ancestors(t, c) = {c} \cup Ancestors(t, s)
         /\ c \notin Ancestors(t, s)
<1>1. s \in Nat /\ c \in Nat /\ s # NoState
  BY DEF States, NoState, IsTree
<1>2. s < c
  BY <1>1, ParentBelow DEF States
<1>3. Ancestors(t, c) = {c} \cup Ancestors(t, s)
  BY <1>1, ParentOf, AncestorsOfParent
<1>4. c \notin Ancestors(t, s)
  BY <1>1, <1>2, AncestorsOrder
<1> QED BY <1>2, <1>3, <1>4

\* What lies strictly below a state lies below one of its children.
LEMMA BelowChild ==
  ASSUME NEW t, IsTree(t), NEW s \in States(t), NEW u \in States(t),
         s \in Ancestors(t, u), u # s
  PROVE  \E c \in States(t) : t[c] = s /\ c \in Ancestors(t, u)
<1> DEFINE T == {a \in Ancestors(t, u) : s \in Ancestors(t, a) /\ a # s}
<1>1. T \in SUBSET Nat /\ u \in T
  BY AncestorsTyped DEF States
<1>2. PICK c \in T : \A a \in T : c <= a
  BY <1>1, LeastNumber
<1>3. c \in States(t) /\ c \in Nat /\ s \in Nat
  BY <1>1, <1>2, AncestorsTyped DEF States
<1>4. t[c] # NoState
  <2>1. ASSUME t[c] = NoState PROVE FALSE
    <3>1. Ancestors(t, c) = {c}
      BY <2>1, <1>3, ParentOf, AncestorsOfParent
    <3> QED BY <3>1, <1>2
  <2> QED BY <2>1
<1>5. t[c] \in States(t) /\ t[c] < c /\ t[c] \in Nat
  BY <1>3, <1>4, ParentBelow DEF States
<1>6. Ancestors(t, c) = {c} \cup Ancestors(t, t[c])
  BY <1>3, <1>5, ChildFacts
<1>7. t[c] \in Ancestors(t, u)
  <2>1. t[c] \in Ancestors(t, c)
    BY <1>5, <1>6, AncestorsTyped
  <2> QED BY <2>1, <1>2, AncestorsOrder
<1>8. s \in Ancestors(t, t[c])
  BY <1>2, <1>6
<1>9. t[c] = s
  <2>1. ASSUME t[c] # s PROVE FALSE
    <3>1. t[c] \in T
      BY <2>1, <1>7, <1>8
    <3> QED BY <3>1, <1>2, <1>5, <1>3
  <2> QED BY <2>1
<1> QED BY <1>2, <1>3, <1>9

\* Of what lies below the earlier of two siblings and what lies below the
\* later one, the former comes first in the walk.
LEMMA SiblingsInOrder ==
  ASSUME NEW t, IsTree(t), NEW s \in States(t),
         NEW c \in States(t), t[c] = s, NEW e \in States(t), t[e] = s, c # e,
         NEW v \in States(t), c \in Ancestors(t, v),
         NEW u \in States(t), e \in Ancestors(t, u)
  PROVE  /\ c \in Ancestors(t, v) \ Ancestors(t, u)
         /\ \A x \in Ancestors(t, v) \ Ancestors(t, u) :
              x = c \/ c \in Ancestors(t, x)
         /\ v # u /\ u \notin Ancestors(t, v)
<1>1. /\ Ancestors(t, c) = {c} \cup Ancestors(t, s) /\ c \notin Ancestors(t, s)
      /\ Ancestors(t, e) = {e} \cup Ancestors(t, s) /\ e \notin Ancestors(t, s)
  BY ChildFacts
<1>2. c \notin Ancestors(t, e) /\ e \notin Ancestors(t, c)
  BY <1>1
<1>3. c \notin Ancestors(t, u) /\ e \notin Ancestors(t, v)
  BY <1>2, BranchLinear
<1>4. Ancestors(t, s) \subseteq Ancestors(t, u)
  BY <1>1, AncestorsOrder
<1>5. ASSUME NEW x \in Ancestors(t, v) \ Ancestors(t, u)
      PROVE  x = c \/ c \in Ancestors(t, x)
  <2>1. x \in Ancestors(t, c) \/ c \in Ancestors(t, x)
    BY BranchLinear
  <2> QED BY <2>1, <1>1, <1>4
<1>6. v # u /\ u \notin Ancestors(t, v)
  <2>1. ASSUME u \in Ancestors(t, v) PROVE FALSE
    BY <2>1, <1>3, AncestorsOrder
  <2> QED BY <2>1, AncestorsTyped
<1> QED BY <1>3, <1>5, <1>6

LEMMA SiblingsPrecede ==
  ASSUME IsTree(arena), NEW s \in States(arena),
         NEW c \in States(arena), arena[c] = s,
         NEW e \in States(arena), arena[e] = s, c < e,
         NEW v \in States(arena), c \in Ancestors(arena, v),
         NEW u \in States(arena), e \in Ancestors(arena, u)
  PROVE  Precedes(v, u)
<1> DEFINE tr == propose_transition(arena, v, u)
<1> DEFINE ex == tr.exit
<1> DEFINE en == tr.enter
<1>0. c \in Nat /\ e \in Nat /\ c # e
  BY DEF States
<1>1. /\ c \in Ancestors(arena, v) \ Ancestors(arena, u)
      /\ \A x \in Ancestors(arena, v) \ Ancestors(arena, u) :
           x = c \/ c \in Ancestors(arena, x)
      /\ v # u /\ u \notin Ancestors(arena, v)
  BY <1>0, SiblingsInOrder
<1>2. /\ e \in Ancestors(arena, u) \ Ancestors(arena, v)
      /\ \A x \in Ancestors(arena, u) \ Ancestors(arena, v) :
           x = e \/ e \in Ancestors(arena, x)
  BY <1>0, SiblingsInOrder
<1>3. ExactTransition(arena, v, u)
  BY <1>1, TransitionExact
<1>4. /\ Elements(ex) = Ancestors(arena, v) \ Ancestors(arena, u)
      /\ Elements(en) = Ancestors(arena, u) \ Ancestors(arena, v)
      /\ Climbs(arena, ex) /\ Descends(arena, en)
  BY <1>3 DEF ExactTransition
<1>5. Len(ex) \in Nat /\ Len(en) \in Nat
  BY ProposalTyped
<1>6. Precedes(v, u) <=> \/ v \in Ancestors(arena, u)
                         \/ u \notin Ancestors(arena, v) /\ ex[Len(ex)] < en[1]
  BY DEF Precedes
<1> HIDE DEF ex, en, tr
<1>7. ex[Len(ex)] = c
  <2>1. PICK i \in 1 .. Len(ex) : ex[i] = c
    BY <1>1, <1>4 DEF Elements
  <2>2. Len(ex) \in 1 .. Len(ex) /\ ex[Len(ex)] \in Elements(ex)
    BY <2>1, <1>5 DEF Elements
  <2>3. i # Len(ex) => c \notin Ancestors(arena, ex[Len(ex)])
    BY <2>1, <2>2, <1>5, <1>4 DEF Climbs
  <2> QED BY <2>1, <2>2, <2>3, <1>1, <1>4
<1>8. en[1] = e
  <2>1. PICK i \in 1 .. Len(en) : en[i] = e
    BY <1>2, <1>4 DEF Elements
  <2>2. 1 \in 1 .. Len(en) /\ en[1] \in Elements(en)
    BY <2>1, <1>5 DEF Elements
  <2>3. i # 1 => e \notin Ancestors(arena, en[1])
    BY <2>1, <2>2, <1>5, <1>4 DEF Descends
  <2> QED BY <2>1, <2>2, <2>3, <1>2, <1>4
<1> QED BY <1>1, <1>6, <1>7, <1>8
-----------------------------------------------------------------------------
\* The positions of U that ask for d, and the states from s down to u that
\* carry it.
Asking(dataset, U, d) == {i \in U : dataset[i] = d}
Carrying(s, u, d) ==
  {a \in Ancestors(arena, u) : s \in Ancestors(arena, a) /\ data[a] = d}

\* The states from s down to u carry what the positions of U ask for.
Covers(dataset, s, u, U) ==
  \A d \in Payloads :
    Cardinality(Asking(dataset, U, d)) <= Cardinality(Carrying(s, u, d))

LEMMA AskingFinite ==
  ASSUME NEW n \in Nat, NEW dataset, NEW U \in SUBSET (1 .. n), NEW d
  PROVE  /\ IsFiniteSet(Asking(dataset, U, d))
         /\ Cardinality(Asking(dataset, U, d)) \in Nat
<1>1. IsFiniteSet(1 .. n)
  BY FS_Interval
<1>2. Asking(dataset, U, d) \in SUBSET (1 .. n)
  BY DEF Asking
<1> QED BY <1>1, <1>2, FS_Subset, FS_CardinalityType

LEMMA AncestorsFinite ==
  ASSUME NEW t, IsTree(t), NEW s \in States(t)
  PROVE  IsFiniteSet(Ancestors(t, s))
<1>1. IsFiniteSet(States(t))
  BY FS_Interval DEF States, IsTree
<1> QED BY <1>1, AncestorsTyped, FS_Subset

LEMMA CarryingFinite ==
  ASSUME IsTree(arena), NEW s, NEW u \in States(arena), NEW d
  PROVE  /\ IsFiniteSet(Carrying(s, u, d))
         /\ Cardinality(Carrying(s, u, d)) \in Nat
<1>1. Carrying(s, u, d) \in SUBSET Ancestors(arena, u)
  BY DEF Carrying
<1> QED BY <1>1, AncestorsFinite, FS_Subset, FS_CardinalityType

LEMMA TickSubset ==
  ASSUME NEW dataset, NEW U, NEW x
  PROVE  Tick(dataset, U, x) \in SUBSET U
BY DEF Tick

\* A node takes one position off those that ask for its payload, and none
\* off the others.
LEMMA TickCount ==
  ASSUME NEW n \in Nat, NEW dataset, NEW U \in SUBSET (1 .. n), NEW x, NEW d
  PROVE  Cardinality(Asking(dataset, Tick(dataset, U, x), d)) =
           IF d = x /\ Cardinality(Asking(dataset, U, d)) # 0
           THEN Cardinality(Asking(dataset, U, d)) - 1
           ELSE Cardinality(Asking(dataset, U, d))
<1> DEFINE hits == Asking(dataset, U, x)
<1> DEFINE rest == Tick(dataset, U, x)
<1>1. rest = IF hits = {} THEN U ELSE U \ {Min(hits)}
  BY DEF Tick, Asking
<1>2. hits # {} => Min(hits) \in hits
  <2>1. hits \in SUBSET (1 .. n)
    BY DEF Asking
  <2>2. 1 .. n \in SUBSET Nat
    OBVIOUS
  <2> HIDE DEF hits
  <2> QED BY <2>1, <2>2, MinIsLeast
<1>4. IsFiniteSet(hits) /\ Cardinality(hits) \in Nat
  BY AskingFinite
<1>5. hits = {} <=> Cardinality(hits) = 0
  BY <1>4, FS_EmptySet
<1>6. ASSUME d # x \/ hits = {}
      PROVE  Asking(dataset, rest, d) = Asking(dataset, U, d)
  BY <1>1, <1>2, <1>6 DEF Asking
<1>7. ASSUME hits # {}
      PROVE  Cardinality(Asking(dataset, rest, x)) = Cardinality(hits) - 1
  <2>1. Asking(dataset, rest, x) = hits \ {Min(hits)}
    BY <1>1, <1>7 DEF Asking
  <2> HIDE DEF hits, rest
  <2> QED BY <2>1, <1>2, <1>4, <1>7, FS_RemoveElement
<1> HIDE DEF rest
<1> QED BY <1>5, <1>6, <1>7 DEF rest

\* The states from a parent down to u: the parent, and those from its child on.
LEMMA CarryingChild ==
  ASSUME IsTree(arena), NEW s \in States(arena),
         NEW c \in States(arena), arena[c] = s,
         NEW u \in States(arena), c \in Ancestors(arena, u), NEW d
  PROVE  Cardinality(Carrying(s, u, d)) =
           LET k == Cardinality(Carrying(c, u, d))
           IN  IF d = data[s] THEN k + 1 ELSE k
<1>1. Ancestors(arena, c) = {c} \cup Ancestors(arena, s) /\ c \notin Ancestors(arena, s)
  BY ChildFacts
<1>2. s \in Ancestors(arena, c) /\ s \in Ancestors(arena, u) /\ s \in Ancestors(arena, s)
  BY <1>1, AncestorsTyped, AncestorsOrder
<1>3. ASSUME NEW a \in Ancestors(arena, u)
      PROVE  s \in Ancestors(arena, a) <=> a = s \/ c \in Ancestors(arena, a)
  <2>0. a \in States(arena)
    BY AncestorsTyped
  <2>1. ASSUME c \in Ancestors(arena, a) PROVE s \in Ancestors(arena, a)
    BY <2>0, <2>1, <1>2, AncestorsOrder
  <2>2. ASSUME s \in Ancestors(arena, a), a # s, c \notin Ancestors(arena, a) PROVE FALSE
    <3>1. a \in Ancestors(arena, c)
      BY <2>2, BranchLinear
    <3>2. a \in Ancestors(arena, s)
      BY <3>1, <2>0, <2>2, <1>1, AncestorsTyped
    <3> QED BY <3>2, <2>2, AncestorsOrder
  <2> QED BY <1>2, <2>1, <2>2
<1>4. c \notin Ancestors(arena, s)
  BY <1>1
<1>5. Carrying(s, u, d) =
        IF d = data[s] THEN Carrying(c, u, d) \cup {s} ELSE Carrying(c, u, d)
  BY <1>2, <1>3 DEF Carrying
<1>6. s \notin Carrying(c, u, d)
  BY <1>4 DEF Carrying
<1>7. IsFiniteSet(Carrying(c, u, d))
  BY CarryingFinite
<1> QED BY <1>5, <1>6, <1>7, FS_AddElement

LEMMA CarryingSelf ==
  ASSUME IsTree(arena), NEW s \in States(arena), NEW d
  PROVE  Cardinality(Carrying(s, s, d)) = IF d = data[s] THEN 1 ELSE 0
<1>1. \A a \in Ancestors(arena, s) : s \in Ancestors(arena, a) <=> a = s
  BY AncestorsTyped, AncestorsOrder
<1>2. s \in Ancestors(arena, s)
  BY AncestorsTyped
<1>3. Carrying(s, s, d) = IF d = data[s] THEN {s} ELSE {}
  BY <1>1, <1>2 DEF Carrying
<1> QED BY <1>3, FS_Singleton, FS_EmptySet

\* Going down to a child with what is left open asks for the same.
LEMMA CoversBelow ==
  ASSUME IsTree(arena), NEW s \in States(arena),
         NEW c \in States(arena), arena[c] = s,
         NEW u \in States(arena), c \in Ancestors(arena, u),
         NEW n \in Nat, NEW dataset, NEW U \in SUBSET (1 .. n)
  PROVE  Covers(dataset, s, u, U) <=>
           Covers(dataset, c, u, Tick(dataset, U, data[s]))
<1>0. PICK x : x = data[s]
  OBVIOUS
<1> DEFINE rest == Tick(dataset, U, x)
<1>1. ASSUME NEW d
      PROVE  (Cardinality(Asking(dataset, U, d)) <= Cardinality(Carrying(s, u, d)))
             <=> (Cardinality(Asking(dataset, rest, d)) <= Cardinality(Carrying(c, u, d)))
  <2> DEFINE k == Cardinality(Asking(dataset, U, d))
  <2> DEFINE h == Cardinality(Carrying(c, u, d))
  <2>1. k \in Nat /\ h \in Nat
    BY AskingFinite, CarryingFinite
  <2>2. Cardinality(Asking(dataset, rest, d)) =
          IF d = x /\ k # 0 THEN k - 1 ELSE k
    BY TickCount
  <2>3. Cardinality(Carrying(s, u, d)) = IF d = x THEN h + 1 ELSE h
    BY <1>0, CarryingChild
  <2> HIDE DEF h, rest
  <2>4. (k <= Cardinality(Carrying(s, u, d))) <=> (Cardinality(Asking(dataset, rest, d)) <= h)
    <3> HIDE DEF k
    <3> QED BY <2>1, <2>2, <2>3
  <2> QED BY <2>4 DEF h, rest
<1> HIDE DEF rest
<1>2. Covers(dataset, s, u, U) <=> Covers(dataset, c, u, rest)
  BY <1>1 DEF Covers
<1> QED BY <1>0, <1>2 DEF rest

\* A state alone covers what its payload ticks off completely.
LEMMA CoversAlone ==
  ASSUME IsTree(arena), NEW s \in States(arena),
         NEW n \in Nat, NEW dataset, NEW U \in SUBSET (1 .. n),
         \A i \in U : dataset[i] \in Payloads
  PROVE  Covers(dataset, s, s, U) <=> Tick(dataset, U, data[s]) = {}
<1> DEFINE rest == Tick(dataset, U, data[s])
<1>0. rest \in SUBSET U
  BY TickSubset
<1>1. ASSUME NEW d
      PROVE  (Cardinality(Asking(dataset, U, d)) <= Cardinality(Carrying(s, s, d)))
             <=> Asking(dataset, rest, d) = {}
  <2> DEFINE k == Cardinality(Asking(dataset, U, d))
  <2>1. k \in Nat
    BY AskingFinite
  <2>2. Cardinality(Asking(dataset, rest, d)) =
          IF d = data[s] /\ k # 0 THEN k - 1 ELSE k
    BY TickCount
  <2>3. Cardinality(Carrying(s, s, d)) = IF d = data[s] THEN 1 ELSE 0
    BY CarryingSelf
  <2>4. Asking(dataset, rest, d) = {} <=> Cardinality(Asking(dataset, rest, d)) = 0
    <3>1. rest \in SUBSET (1 .. n)
      BY <1>0
    <3> HIDE DEF rest
    <3> QED BY <3>1, AskingFinite, FS_EmptySet
  <2> HIDE DEF rest
  <2>5. (k <= Cardinality(Carrying(s, s, d))) <=> (Cardinality(Asking(dataset, rest, d)) = 0)
    <3> HIDE DEF k
    <3> QED BY <2>1, <2>2, <2>3
  <2> QED BY <2>4, <2>5 DEF rest
<1> HIDE DEF rest
<1>2. Covers(dataset, s, s, U) <=> \A d \in Payloads : Asking(dataset, rest, d) = {}
  BY <1>1 DEF Covers
<1>3. (\A d \in Payloads : Asking(dataset, rest, d) = {}) <=> rest = {}
  BY <1>0 DEF Asking
<1> QED BY <1>2, <1>3 DEF rest
-----------------------------------------------------------------------------
\* One call of dfs, where v has the answers of the calls for the children.
Answer(dataset, v, s, U) ==
  LET rest == Tick(dataset, U, get_data(s))
      hits == {c \in children_of(s) : v[c][rest] # NoState}
  IN  IF rest = {} THEN s
      ELSE IF hits = {} THEN NoState ELSE v[Min(hits)][rest]

\* v has the answers of the calls for the states from k on.
IsVisit(dataset, k, v) ==
  v = [s \in k .. Len(arena) |->
         [U \in SUBSET DOMAIN dataset |-> Answer(dataset, v, s, U)]]

LEMMA ChildrenOf ==
  ASSUME IsTree(arena), NEW s \in States(arena)
  PROVE  /\ children_of(s) = {c \in States(arena) : arena[c] = s}
         /\ \A c \in children_of(s) : c \in Nat /\ s < c /\ c <= Len(arena)
<1>1. children_of(s) = {c \in States(arena) : arena[c] = s}
  BY ParentOf DEF children_of
<1>2. ASSUME NEW c \in children_of(s) PROVE c \in Nat /\ s < c /\ c <= Len(arena)
  BY <1>1, ChildFacts DEF States
<1> QED BY <1>1, <1>2

\* A call depends on the answers for the children only.
LEMMA AnswerLocal ==
  ASSUME IsTree(arena), NEW s \in States(arena), NEW dataset, NEW U, NEW v, NEW w,
         \A c \in children_of(s) : v[c] = w[c]
  PROVE  Answer(dataset, v, s, U) = Answer(dataset, w, s, U)
<1> DEFINE rest == Tick(dataset, U, get_data(s))
<1> DEFINE hits == {c \in children_of(s) : v[c][rest] # NoState}
<1>1. hits = {c \in children_of(s) : w[c][rest] # NoState}
  OBVIOUS
<1>2. hits \in SUBSET Nat
  BY ChildrenOf
<1>3. hits # {} => v[Min(hits)][rest] = w[Min(hits)][rest]
  <2>1. hits # {} => Min(hits) \in hits
    <3> HIDE DEF hits
    <3> QED BY <1>2, MinIsLeast
  <2> QED BY <2>1
<1>4. /\ Answer(dataset, v, s, U) = IF rest = {} THEN s
           ELSE IF hits = {} THEN NoState ELSE v[Min(hits)][rest]
      /\ Answer(dataset, w, s, U) = IF rest = {} THEN s
           ELSE IF hits = {} THEN NoState ELSE w[Min(hits)][rest]
  BY <1>1 DEF Answer
<1> HIDE DEF hits, rest
<1> QED BY <1>3, <1>4

LEMMA VisitExtends ==
  ASSUME IsTree(arena), NEW dataset, NEW k \in 1 .. Len(arena),
         NEW v, IsVisit(dataset, k + 1, v)
  PROVE  \E w : IsVisit(dataset, k, w)
<1> DEFINE D == SUBSET DOMAIN dataset
<1> DEFINE L == Len(arena)
<1> DEFINE w == [s \in k .. L |->
                   [U \in D |-> Answer(dataset, v, s, U)]]
<1>0. k \in Nat /\ L \in Nat
  BY DEF IsTree
<1>1. \A s \in k + 1 .. L : s \in k .. L /\ v[s] = [U \in D |-> Answer(dataset, v, s, U)]
  <2> DEFINE f(s) == [U \in D |-> Answer(dataset, v, s, U)]
  <2>1. v = [s \in k + 1 .. L |-> f(s)]
    BY DEF IsVisit
  <2> HIDE DEF f
  <2>2. \A s \in k + 1 .. L : s \in k .. L /\ v[s] = f(s)
    BY <1>0, <2>1
  <2> QED BY <2>2 DEF f
<1>2. \A s \in k + 1 .. L : w[s] = v[s]
  BY <1>1
<1>3. ASSUME NEW s \in k .. L, NEW U \in D
      PROVE  Answer(dataset, v, s, U) = Answer(dataset, w, s, U)
  <2>1. s \in States(arena) /\ s \in Nat
    BY <1>0 DEF States
  <2>2. ASSUME NEW c \in children_of(s) PROVE v[c] = w[c]
    <3>1. c \in Nat /\ s < c /\ c <= L
      BY <2>1, ChildrenOf
    <3>2. c \in k + 1 .. L
      BY <3>1, <2>1, <1>0
    <3> QED BY <3>2, <1>2
  <2> HIDE DEF w
  <2> QED BY <2>1, <2>2, AnswerLocal
<1>4. ASSUME NEW s \in k .. L
      PROVE  [U \in D |-> Answer(dataset, v, s, U)] = [U \in D |-> Answer(dataset, w, s, U)]
  <2> HIDE DEF w, D
  <2> QED BY <1>3
<1>5. w = [s \in k .. L |-> [U \in D |-> Answer(dataset, w, s, U)]]
  <2> DEFINE f(s) == [U \in D |-> Answer(dataset, v, s, U)]
  <2> DEFINE g(s) == [U \in D |-> Answer(dataset, w, s, U)]
  <2>1. \A s \in k .. L : f(s) = g(s)
    BY <1>4
  <2>2. w = [s \in k .. L |-> f(s)]
    OBVIOUS
  <2> HIDE DEF w, f, g
  <2>3. w = [s \in k .. L |-> g(s)]
    BY <2>1, <2>2
  <2> QED BY <2>3 DEF g
<1>6. IsVisit(dataset, k, w)
  <2> HIDE DEF w
  <2> QED BY <1>5 DEF IsVisit
<1> QED BY <1>6

LEMMA VisitsExist ==
  ASSUME IsTree(arena), NEW dataset
  PROVE  \E v : IsVisit(dataset, 1, v)
<1> DEFINE L == Len(arena)
<1> DEFINE T == {j \in Nat : j <= L /\ ~ \E v : IsVisit(dataset, L + 1 - j, v)}
<1>0. L \in Nat
  BY DEF IsTree
<1>1. SUFFICES ASSUME T # {} PROVE FALSE
  <2>1. L \notin T
    BY <1>1
  <2>2. \E v : IsVisit(dataset, L + 1 - L, v)
    BY <2>1, <1>0
  <2>3. L + 1 - L = 1
    BY <1>0
  <2> QED BY <2>2, <2>3
<1>2. PICK m \in T : \A j \in T : m <= j
  BY <1>1, LeastNumber
<1>3. m # 0
  <2> DEFINE v == [s \in L + 1 .. L |-> [U \in SUBSET DOMAIN dataset |-> NoState]]
  <2>1. \A s : s \notin L + 1 .. L
    BY <1>0
  <2>2. v = [s \in L + 1 .. L |->
               [U \in SUBSET DOMAIN dataset |-> Answer(dataset, v, s, U)]]
    BY <2>1
  <2>3. IsVisit(dataset, L + 1, v)
    BY <2>2 DEF IsVisit
  <2>4. L + 1 - 0 = L + 1
    BY <1>0
  <2> QED BY <2>3, <2>4
<1> DEFINE k == L + 1 - m
<1>4. /\ m \in Nat /\ m <= L /\ ~ \E v : IsVisit(dataset, k, v)
      /\ m - 1 \in Nat /\ m - 1 <= L /\ m - 1 \notin T
      /\ k \in 1 .. L /\ L + 1 - (m - 1) = k + 1
  BY <1>0, <1>2, <1>3
<1>5. PICK v : IsVisit(dataset, k + 1, v)
  BY <1>4
<1> HIDE DEF k, T
<1>6. \E w : IsVisit(dataset, k, w)
  BY <1>4, <1>5, VisitExtends
<1> QED BY <1>4, <1>6

\* dfs is what its recursion says: every call is made with the answers for
\* the children, which have greater ids.
LEMMA DfsEquation ==
  ASSUME IsTree(arena), NEW dataset
  PROVE  \E v : /\ IsVisit(dataset, 1, v)
                /\ \A s, U : dfs(dataset, s, U) = v[s][U]
<1> DEFINE eq(v) == v = [s \in States(arena) |->
                 [unmatched \in SUBSET DOMAIN dataset |->
                    Answer(dataset, v, s, unmatched)]]
<1> DEFINE visit == CHOOSE v : eq(v)
<1>1. PICK v : IsVisit(dataset, 1, v)
  BY VisitsExist
<1>2. eq(v)
  BY <1>1 DEF IsVisit, States
<1>3. eq(visit)
  BY <1>2
<1>4. \A s, U : dfs(dataset, s, U) = visit[s][U]
  BY DEF dfs, Answer
<1> HIDE DEF visit
<1>5. IsVisit(dataset, 1, visit)
  BY <1>3 DEF IsVisit, States
<1> QED BY <1>4, <1>5
-----------------------------------------------------------------------------
\* The states at or below s to which the states from s on carry what U asks for.
Candidates(dataset, s, U) ==
  {u \in States(arena) : s \in Ancestors(arena, u) /\ Covers(dataset, s, u, U)}

\* found is the first state of S in the walk.
IsFirst(found, S) ==
  IF S = {} THEN found = NoState
  ELSE found \in S /\ \A u \in S : Precedes(found, u)

\* A state that is not enough by itself has the candidates of its children.
LEMMA CandidatesBelow ==
  ASSUME IsTree(arena), NEW s \in States(arena),
         NEW n \in Nat, NEW dataset, NEW U \in SUBSET (1 .. n),
         \A i \in U : dataset[i] \in Payloads,
         NEW rest, rest = Tick(dataset, U, data[s]), rest # {}
  PROVE  /\ \A c \in children_of(s) :
              Candidates(dataset, c, rest) \subseteq Candidates(dataset, s, U)
         /\ \A u \in Candidates(dataset, s, U) :
              \E c \in children_of(s) : u \in Candidates(dataset, c, rest)
<1>0. children_of(s) = {c \in States(arena) : arena[c] = s}
  BY ChildrenOf
<1>1. ASSUME NEW c \in children_of(s), NEW u \in Candidates(dataset, c, rest)
      PROVE  u \in Candidates(dataset, s, U)
  <2>1. /\ c \in States(arena) /\ arena[c] = s /\ u \in States(arena)
        /\ c \in Ancestors(arena, u) /\ Covers(dataset, c, u, rest)
    BY <1>0, <1>1 DEF Candidates
  <2>2. Covers(dataset, s, u, U)
    BY <2>1, CoversBelow
  <2>3. s \in Ancestors(arena, c)
    BY <2>1, ChildFacts, AncestorsTyped
  <2>4. s \in Ancestors(arena, u)
    BY <2>1, <2>3, AncestorsOrder
  <2> QED BY <2>1, <2>2, <2>4 DEF Candidates
<1>2. ASSUME NEW u \in Candidates(dataset, s, U)
      PROVE  \E c \in children_of(s) : u \in Candidates(dataset, c, rest)
  <2>1. u \in States(arena) /\ s \in Ancestors(arena, u) /\ Covers(dataset, s, u, U)
    BY <1>2 DEF Candidates
  <2>2. u # s
    BY <2>1, CoversAlone
  <2>3. PICK c \in States(arena) : arena[c] = s /\ c \in Ancestors(arena, u)
    BY <2>1, <2>2, BelowChild
  <2>4. Covers(dataset, c, u, rest)
    BY <2>1, <2>3, CoversBelow
  <2> QED BY <1>0, <2>1, <2>3, <2>4 DEF Candidates
<1> QED BY <1>1, <1>2

\* If the calls for the children are right, so is the call for the state.
LEMMA AnswerExact ==
  ASSUME IsTree(arena), NEW s \in States(arena),
         NEW n \in Nat, NEW dataset, NEW v,
         \A i \in 1 .. n : dataset[i] \in Payloads,
         \A c \in children_of(s), U \in SUBSET (1 .. n) :
           IsFirst(v[c][U], Candidates(dataset, c, U)),
         NEW U \in SUBSET (1 .. n)
  PROVE  IsFirst(Answer(dataset, v, s, U), Candidates(dataset, s, U))
<1> DEFINE rest == Tick(dataset, U, data[s])
<1> DEFINE hits == {c \in children_of(s) : v[c][rest] # NoState}
<1> DEFINE all == Candidates(dataset, s, U)
<1> DEFINE of(c) == Candidates(dataset, c, rest)
<1>0. \A i \in U : dataset[i] \in Payloads
  OBVIOUS
<1>1. Answer(dataset, v, s, U) = IF rest = {} THEN s
        ELSE IF hits = {} THEN NoState ELSE v[Min(hits)][rest]
  BY DEF Answer, get_data
<1>2. rest \in SUBSET (1 .. n)
  BY TickSubset
<1>3. CASE rest = {}
  <2>1. Covers(dataset, s, s, U)
    BY <1>0, <1>3, CoversAlone
  <2>2. s \in all /\ \A u \in all : s \in Ancestors(arena, u)
    BY <2>1, AncestorsTyped DEF Candidates
  <2> HIDE DEF all
  <2>3. \A u \in all : Precedes(s, u)
    BY <2>2 DEF Precedes
  <2>4. IsFirst(s, all)
    BY <2>2, <2>3 DEF IsFirst
  <2> QED BY <1>1, <1>3, <2>4 DEF all
<1>4. CASE rest # {}
  <2>1. /\ \A c \in children_of(s) : of(c) \subseteq all
        /\ \A u \in all : \E c \in children_of(s) : u \in of(c)
    BY <1>0, <1>4, CandidatesBelow
  <2>2. \A c \in children_of(s) : IsFirst(v[c][rest], of(c))
    BY <1>2
  <2>3. /\ children_of(s) = {c \in States(arena) : arena[c] = s}
        /\ \A c \in children_of(s) : c \in Nat
    BY ChildrenOf
  <2>4. \A c, u : u \in of(c) => u \in States(arena) /\ c \in Ancestors(arena, u)
    BY DEF Candidates
  <2>5. NoState \notin States(arena)
    BY DEF NoState, States, IsTree
  <2> HIDE DEF all, of, rest
  <2>6. \A c \in children_of(s) : of(c) = {} <=> v[c][rest] = NoState
    BY <2>2, <2>4, <2>5 DEF IsFirst
  <2>7. CASE hits = {}
    <3>1. all = {}
      BY <2>1, <2>6, <2>7
    <3> QED BY <1>1, <1>4, <2>7, <3>1 DEF IsFirst, all
  <2>8. CASE hits # {}
    <3> DEFINE m == Min(hits)
    <3> DEFINE found == v[m][rest]
    <3>1. hits \in SUBSET Nat
      BY <2>3
    <3>2. m \in hits /\ \A c \in hits : m <= c
      <4> HIDE DEF hits
      <4> QED BY <2>8, <3>1, MinIsLeast
    <3>3. m \in children_of(s) /\ m \in States(arena) /\ arena[m] = s /\ m \in Nat
      BY <3>2, <2>3
    <3>4. found \in of(m) /\ \A u \in of(m) : Precedes(found, u)
      BY <3>2, <3>3, <2>2 DEF IsFirst
    <3>5. Answer(dataset, v, s, U) = found
      BY <1>1, <1>4, <2>8
    <3> HIDE DEF m, found
    <3>6. found \in States(arena) /\ m \in Ancestors(arena, found) /\ found \in all
      BY <3>3, <3>4, <2>1, <2>4
    <3>7. ASSUME NEW u \in all PROVE Precedes(found, u)
      <4>1. PICK c \in children_of(s) : u \in of(c)
        BY <2>1
      <4>2. /\ c \in hits /\ c \in States(arena) /\ arena[c] = s /\ c \in Nat
            /\ u \in States(arena) /\ c \in Ancestors(arena, u)
        BY <4>1, <2>3, <2>4, <2>6
      <4>3. CASE c = m
        BY <4>1, <4>3, <3>4
      <4>4. CASE c # m
        <5>1. m < c
          BY <4>2, <4>4, <3>2, <3>3
        <5> QED BY <5>1, <3>3, <3>6, <4>2, SiblingsPrecede
      <4> QED BY <4>3, <4>4
    <3>8. IsFirst(found, all)
      BY <3>6, <3>7 DEF IsFirst
    <3> QED BY <3>5, <3>8 DEF all
  <2> QED BY <2>7, <2>8
<1> QED BY <1>3, <1>4

\* So every call is right, the ones for the greatest ids first.
LEMMA VisitExact ==
  ASSUME IsTree(arena), NEW n \in Nat, NEW dataset, DOMAIN dataset = 1 .. n,
         \A i \in 1 .. n : dataset[i] \in Payloads,
         NEW v, IsVisit(dataset, 1, v)
  PROVE  \A s \in States(arena), U \in SUBSET (1 .. n) :
           IsFirst(v[s][U], Candidates(dataset, s, U))
<1> DEFINE L == Len(arena)
<1> DEFINE ok(s) == \A U \in SUBSET (1 .. n) : IsFirst(v[s][U], Candidates(dataset, s, U))
<1> DEFINE T == {j \in Nat : j < L /\ ~ ok(L - j)}
<1>0. L \in Nat
  BY DEF IsTree
<1>1. SUFFICES ASSUME T # {} PROVE FALSE
  <2>1. ASSUME NEW s \in States(arena) PROVE ok(s)
    <3>1. L - s \in Nat /\ L - s < L /\ L - (L - s) = s
      BY <1>0 DEF States
    <3>2. L - s \notin T
      BY <1>1
    <3> HIDE DEF ok
    <3> QED BY <3>1, <3>2
  <2> QED BY <2>1
<1>2. PICK m \in T : \A j \in T : m <= j
  BY <1>1, LeastNumber
<1> DEFINE s == L - m
<1>3. m \in Nat /\ s \in States(arena) /\ s \in Nat /\ ~ ok(s)
  BY <1>0, <1>2 DEF States
<1>4. ASSUME NEW c \in children_of(s) PROVE ok(c)
  <2>1. c \in Nat /\ s < c /\ c <= L
    BY <1>3, ChildrenOf
  <2>2. L - c \in Nat /\ L - c < L /\ L - c < m /\ L - (L - c) = c
    BY <2>1, <1>0, <1>3
  <2>3. L - c \notin T
    BY <1>2, <1>3, <2>2
  <2> HIDE DEF ok
  <2> QED BY <2>2, <2>3
<1> HIDE DEF s, T
<1>5. ASSUME NEW U \in SUBSET (1 .. n)
      PROVE  IsFirst(v[s][U], Candidates(dataset, s, U))
  <2>1. v[s][U] = Answer(dataset, v, s, U)
    BY <1>3 DEF IsVisit, States
  <2>2. IsFirst(Answer(dataset, v, s, U), Candidates(dataset, s, U))
    BY <1>3, <1>4, AnswerExact
  <2> QED BY <2>1, <2>2
<1> QED BY <1>3, <1>5
-----------------------------------------------------------------------------
\* nil is nobody's ancestor but its own; the root is everybody else's.
LEMMA RootAbove ==
  ASSUME NEW t, IsTree(t), NEW s \in States(t), s # nil
  PROVE  root \in Ancestors(t, s) /\ nil \notin Ancestors(t, s)
<1> DEFINE T == {n \in States(t) : n # nil /\ ~ (root \in Ancestors(t, n) /\ nil \notin Ancestors(t, n))}
<1>1. SUFFICES ASSUME T # {} PROVE FALSE
  OBVIOUS
<1>2. T \in SUBSET Nat
  BY DEF States
<1>3. PICK m \in T : \A j \in T : m <= j
  BY <1>1, <1>2, LeastNumber
<1>4. /\ m \in States(t) /\ m \in Nat /\ m # nil
      /\ ~ (root \in Ancestors(t, m) /\ nil \notin Ancestors(t, m))
  BY <1>2, <1>3
<1>5. CASE m = root
  <2>1. t[m] = NoState /\ root # nil
    BY <1>5 DEF IsTree, root, nil
  <2>2. Ancestors(t, m) = {m}
    BY <1>4, <2>1, ParentOf, AncestorsOfParent
  <2> QED BY <1>4, <1>5, <2>1, <2>2
<1>6. CASE m # root
  <2>1. m \in 3 .. Len(t)
    BY <1>4, <1>6 DEF States, root, nil, IsTree
  <2>2. t[m] \in (1 .. m - 1) \ {nil}
    BY <2>1 DEF IsTree
  <2>3. t[m] \in States(t) /\ t[m] # nil /\ t[m] < m /\ t[m] \in Nat
    BY <2>1, <2>2, <1>4 DEF States
  <2>4. t[m] \notin T
    BY <2>3, <1>3, <1>4
  <2>5. root \in Ancestors(t, t[m]) /\ nil \notin Ancestors(t, t[m])
    BY <2>3, <2>4
  <2>6. Ancestors(t, m) = {m} \cup Ancestors(t, t[m])
    BY <1>4, <2>3, ChildFacts
  <2> QED BY <1>4, <2>5, <2>6
<1> QED BY <1>5, <1>6

\* Putting a sequence together from the front, element by element.
LEMMA GatherFacts ==
  ASSUME NEW N \in Nat, NEW h \in [1 .. N -> Payloads]
  PROVE  /\ \E f : f = [i \in 0 .. N |-> IF i = 0 THEN << >>
                ELSE f[i - 1] \o (IF h[i] = NoData THEN << >> ELSE <<h[i]>>)]
         /\ \A f : f = [i \in 0 .. N |-> IF i = 0 THEN << >>
                ELSE f[i - 1] \o (IF h[i] = NoData THEN << >> ELSE <<h[i]>>)]
              => f[N] = h
<1> DEFINE front(i) == [k \in 1 .. i |-> h[k]]
<1> DEFINE step(f, i) == IF i = 0 THEN << >>
             ELSE f[i - 1] \o (IF h[i] = NoData THEN << >> ELSE <<h[i]>>)
<1>1. ASSUME NEW i \in 1 .. N
      PROVE  /\ h[i] # NoData
             /\ front(i - 1) \o <<h[i]>> = front(i)
  <2>1. h[i] \in Payloads /\ h[i] # NoData
    BY LookupAssumption
  <2>2. front(i - 1) \in Seq(Payloads) /\ Len(front(i - 1)) = i - 1
    <3>1. i - 1 \in Nat /\ \A k \in 1 .. i - 1 : k \in 1 .. N
      OBVIOUS
    <3>2. front(i - 1) \in [1 .. i - 1 -> Payloads]
      BY <3>1
    <3> QED BY <3>1, <3>2
  <2>3. front(i) \in Seq(Payloads) /\ Len(front(i)) = i
    <3>1. i \in Nat /\ \A k \in 1 .. i : k \in 1 .. N
      OBVIOUS
    <3>2. front(i) \in [1 .. i -> Payloads]
      BY <3>1
    <3> QED BY <3>1, <3>2
  <2>4. /\ \A k \in 1 .. i : front(i)[k] = h[k]
        /\ \A k \in 1 .. i - 1 : front(i - 1)[k] = h[k]
    OBVIOUS
  <2> HIDE DEF front
  <2> DEFINE both == front(i - 1) \o <<h[i]>>
  <2>5. both \in Seq(Payloads) /\ Len(both) = i
    BY <2>1, <2>2
  <2>6. \A k \in 1 .. i : both[k] = front(i)[k]
    BY <2>1, <2>2, <2>4
  <2> HIDE DEF both
  <2>7. both = front(i)
    BY <2>3, <2>5, <2>6
  <2> QED BY <2>1, <2>7 DEF both
<1>2. front(0) = << >>
  OBVIOUS
<1>3. \E f : f = [i \in 0 .. N |-> step(f, i)]
  <2> DEFINE w == [i \in 0 .. N |-> front(i)]
  <2>1. ASSUME NEW i \in 0 .. N PROVE front(i) = step(w, i)
    <3>1. CASE i = 0
      BY <3>1, <1>2
    <3>2. CASE i # 0
      <4>1. i \in 1 .. N /\ i - 1 \in 0 .. N
        BY <3>2
      <4>2. w[i - 1] = front(i - 1)
        BY <4>1
      <4> HIDE DEF w, front
      <4> QED BY <4>1, <4>2, <3>2, <1>1
    <3> QED BY <3>1, <3>2
  <2>2. w = [i \in 0 .. N |-> step(w, i)]
    <3> DEFINE g(i) == step(w, i)
    <3>1. \A i \in 0 .. N : front(i) = g(i)
      BY <2>1
    <3> HIDE DEF g, front, step
    <3>2. w = [i \in 0 .. N |-> g(i)]
      BY <3>1
    <3> QED BY <3>2 DEF g
  <2> HIDE DEF w
  <2> QED BY <2>2
<1>4. ASSUME NEW f, f = [i \in 0 .. N |-> step(f, i)]
      PROVE  f[N] = h
  <2> DEFINE T == {i \in 0 .. N : f[i] # front(i)}
  <2>1. \A i \in 0 .. N : f[i] = step(f, i)
    BY <1>4
  <2>2. T = {}
    <3>1. SUFFICES ASSUME T # {} PROVE FALSE
      OBVIOUS
    <3>2. T \in SUBSET Nat
      OBVIOUS
    <3>3. PICK m \in T : \A j \in T : m <= j
      BY <3>1, <3>2, LeastNumber
    <3>4. m # 0
      BY <2>1, <3>3, <1>2
    <3>5. m \in 1 .. N /\ m - 1 \in 0 .. N /\ m - 1 \notin T
      BY <3>3, <3>4
    <3>6. f[m - 1] = front(m - 1)
      BY <3>5
    <3>7. f[m] = step(f, m)
      BY <2>1, <3>5
    <3> HIDE DEF front
    <3>8. f[m] = front(m)
      BY <3>4, <3>5, <3>6, <3>7, <1>1
    <3> QED BY <3>3, <3>8
  <2>3. f[N] = front(N)
    <3>1. N \in 0 .. N
      OBVIOUS
    <3> HIDE DEF front
    <3> QED BY <2>2, <3>1
  <2>4. front(N) = h
    OBVIOUS
  <2> QED BY <2>3, <2>4
<1> QED BY <1>3, <1>4

\* What lookup relies on: every state but nil carries a payload.
DataInv ==
  /\ IsTree(arena)
  /\ data \in Seq(Payloads \cup {NoData}) /\ Len(data) = Len(arena)
  /\ data[nil] = NoData
  /\ \A s \in States(arena) \ {nil} : data[s] \in Payloads

\* travel gives the payloads of the path, turned round.
LEMMA TravelIs ==
  ASSUME DataInv, NEW s \in States(arena), s # nil,
         NEW p, p = path_rev_iter(arena, s)
  PROVE  travel(s) = [i \in 1 .. Len(p) |-> data[p[Len(p) + 1 - i]]]
<1> DEFINE N == Len(p)
<1> DEFINE h == [i \in 1 .. N |-> data[p[N + 1 - i]]]
<1>0. IsTree(arena) /\ p \in Seq(Nat) /\ N \in Nat
  BY PathTyped DEF DataInv, States
<1>1. \A i \in 1 .. N : N + 1 - i \in 1 .. N
  BY <1>0
<1>2. \A j \in 1 .. N : p[j] \in States(arena) \ {nil}
  <2>1. Ancestors(arena, s) = {p[j] : j \in 1 .. N}
    BY <1>0 DEF Ancestors
  <2> QED BY <1>0, <2>1, RootAbove, AncestorsTyped
<1>3. h \in [1 .. N -> Payloads]
  BY <1>1, <1>2 DEF DataInv
<1>4. \A i \in 1 .. N : h[i] = data[p[N + 1 - i]]
  OBVIOUS
<1> DEFINE eq(f) == f = [i \in 0 .. N |-> IF i = 0 THEN << >>
             ELSE f[i - 1] \o (IF data[p[N + 1 - i]] = NoData THEN << >>
                               ELSE <<data[p[N + 1 - i]]>>)]
<1> DEFINE down == CHOOSE f : eq(f)
<1>5. travel(s) = down[N]
  BY DEF travel, get_data
<1> DEFINE eh(f) == f = [i \in 0 .. N |-> IF i = 0 THEN << >>
             ELSE f[i - 1] \o (IF h[i] = NoData THEN << >> ELSE <<h[i]>>)]
<1>6. (\E f : eh(f)) /\ \A f : eh(f) => f[N] = h
  <2> HIDE DEF h, N
  <2> QED BY <1>0, <1>3, GatherFacts
<1>7. ASSUME NEW f PROVE eq(f) <=> eh(f)
  <2> DEFINE a(i) == IF i = 0 THEN << >>
             ELSE f[i - 1] \o (IF data[p[N + 1 - i]] = NoData THEN << >>
                               ELSE <<data[p[N + 1 - i]]>>)
  <2> DEFINE b(i) == IF i = 0 THEN << >>
             ELSE f[i - 1] \o (IF h[i] = NoData THEN << >> ELSE <<h[i]>>)
  <2>1. ASSUME NEW i \in 0 .. N PROVE a(i) = b(i)
    <3>1. i # 0 => i \in 1 .. N
      BY <1>0
    <3>2. i # 0 => h[i] = data[p[N + 1 - i]]
      BY <3>1, <1>4
    <3> HIDE DEF h, N
    <3> QED BY <3>2
  <2>2. [i \in 0 .. N |-> a(i)] = [i \in 0 .. N |-> b(i)]
    <3> HIDE DEF a, b, N
    <3> QED BY <2>1
  <2> HIDE DEF N, h
  <2> QED BY <2>2
<1>8. eq(down)
  <2>1. \E f : eq(f)
    BY <1>6, <1>7
  <2> HIDE DEF eq
  <2> QED BY <2>1
<1> HIDE DEF down, eq, eh
<1>9. down[N] = h
  BY <1>6, <1>7, <1>8
<1> QED BY <1>5, <1>9

\* Counting along travel is counting the states of the branch.
LEMMA TravelCount ==
  ASSUME DataInv, NEW s \in States(arena), s # nil, NEW d
  PROVE  Count(travel(s), d) = Cardinality(Carrying(root, s, d))
<1> DEFINE p == path_rev_iter(arena, s)
<1> DEFINE N == Len(p)
<1> DEFINE S == {i \in 1 .. N : data[p[N + 1 - i]] = d}
<1> DEFINE T == Carrying(root, s, d)
<1> DEFINE f == [i \in S |-> p[N + 1 - i]]
<1>0. IsTree(arena) /\ p \in Seq(Nat) /\ N \in Nat
  BY PathTyped DEF DataInv, States
<1>1. \A i \in 1 .. N : N + 1 - i \in 1 .. N /\ N + 1 - (N + 1 - i) = i
  BY <1>0
<1>2. travel(s) = [i \in 1 .. N |-> data[p[N + 1 - i]]]
  BY TravelIs
<1>3. Count(travel(s), d) = Cardinality(S)
  <2>1. {i \in DOMAIN travel(s) : travel(s)[i] = d} = S
    BY <1>2
  <2> QED BY <2>1 DEF Count
<1>4. Ancestors(arena, s) = {p[j] : j \in 1 .. N}
  BY <1>0 DEF Ancestors
<1>5. T = {a \in Ancestors(arena, s) : data[a] = d}
  <2>1. ASSUME NEW a \in Ancestors(arena, s) PROVE root \in Ancestors(arena, a)
    <3>1. a \in States(arena) /\ a # nil
      BY <1>0, RootAbove, AncestorsTyped
    <3> QED BY <1>0, <3>1, RootAbove
  <2> QED BY <2>1 DEF Carrying
<1>6. \A i, j \in 1 .. N : p[i] = p[j] => i = j
  <2>1. ASSUME NEW i \in 1 .. N, NEW j \in 1 .. N, i < j PROVE p[i] # p[j]
    <3>1. p[i] \notin Ancestors(arena, p[j]) /\ p[j] \in States(arena)
      BY <1>0, <2>1, PathClimbs, PathBounded DEF States
    <3> QED BY <1>0, <3>1, AncestorsTyped
  <2>2. \A i, j \in 1 .. N : i = j \/ i < j \/ j < i
    BY <1>0
  <2> HIDE DEF p, N
  <2> QED BY <2>1, <2>2
<1>7. IsFiniteSet(T)
  BY <1>0, CarryingFinite
<1> HIDE DEF p, N, T
<1>8. f \in [S -> T]
  BY <1>1, <1>4, <1>5
<1>9. \A i, j \in S : f[i] = f[j] => i = j
  <2>1. ASSUME NEW i \in S, NEW j \in S, f[i] = f[j] PROVE i = j
    <3>1. N + 1 - i = N + 1 - j
      BY <2>1, <1>1, <1>6
    <3>2. N + 1 - (N + 1 - i) = i /\ N + 1 - (N + 1 - j) = j
      BY <1>1
    <3> QED BY <3>1, <3>2
  <2> QED BY <2>1
<1>10. ASSUME NEW a \in T PROVE \E i \in S : f[i] = a
  <2>1. PICK j \in 1 .. N : a = p[j]
    BY <1>4, <1>5
  <2>2. N + 1 - j \in S
    BY <2>1, <1>1, <1>5
  <2>3. f[N + 1 - j] = a
    BY <2>1, <2>2, <1>1
  <2> QED BY <2>2, <2>3
<1> HIDE DEF f, S
<1>11. f \in Injection(S, T) /\ f \in Surjection(S, T)
  BY <1>8, <1>9, <1>10 DEF Injection, IsInjective, Surjection
<1>12. Cardinality(S) = Cardinality(T)
  BY <1>7, <1>11, FS_Injection
<1> QED BY <1>3, <1>12 DEF T

\* lookup is exact in every tree with payloads, for every data set shorter
\* than the mask is wide.
LEMMA LookupIsExact ==
  ASSUME DataInv, MaxData < Width
  PROVE  LookupExact
<1>1. SUFFICES ASSUME NEW dataset \in DataSets
      PROVE  LET found == lookup(dataset)
                 candidates == {s \in States(arena) \ {nil} : Carries(s, dataset)}
             IN  IF candidates = {} THEN found = NoState
                 ELSE found \in candidates /\ \A s \in candidates : Precedes(found, s)
  BY DEF LookupExact
<1>2. PICK n \in 0 .. MaxData : dataset \in [1 .. n -> Payloads]
  BY DEF DataSets
<1>3. n \in Nat /\ n < Width /\ Width \in Nat /\ Len(dataset) = n
  BY <1>2, LookupAssumption
<1>4. IsTree(arena) /\ root \in States(arena) /\ root # nil
  BY DEF DataInv, IsTree, States, root, nil
<1>5. lookup(dataset) = dfs(dataset, root, 1 .. n)
  BY <1>3 DEF lookup, FullMask
<1>6. PICK v : IsVisit(dataset, 1, v) /\ \A s, U : dfs(dataset, s, U) = v[s][U]
  BY <1>4, DfsEquation
<1>7. IsFirst(v[root][1 .. n], Candidates(dataset, root, 1 .. n))
  <2>1. 1 .. n \in SUBSET (1 .. n)
    OBVIOUS
  <2> QED BY <2>1, <1>2, <1>3, <1>4, <1>6, VisitExact
<1>8. ASSUME NEW s \in States(arena), s # nil
      PROVE  Carries(s, dataset) <=> Covers(dataset, root, s, 1 .. n)
  <2>1. ASSUME NEW d
        PROVE  (Count(travel(s), d) >= Count(dataset, d)) <=>
               (Cardinality(Asking(dataset, 1 .. n, d)) <= Cardinality(Carrying(root, s, d)))
    <3>1. Count(dataset, d) = Cardinality(Asking(dataset, 1 .. n, d))
      BY <1>2 DEF Count, Asking
    <3>2. Count(travel(s), d) = Cardinality(Carrying(root, s, d))
      BY <1>8, TravelCount
    <3>3. Cardinality(Asking(dataset, 1 .. n, d)) \in Nat
      BY <1>3, AskingFinite
    <3>4. Cardinality(Carrying(root, s, d)) \in Nat
      BY <1>4, CarryingFinite
    <3> QED BY <3>1, <3>2, <3>3, <3>4
  <2> QED BY <2>1 DEF Carries, Covers
<1>9. {s \in States(arena) \ {nil} : Carries(s, dataset)} = Candidates(dataset, root, 1 .. n)
  <2>1. \A s \in States(arena) : root \in Ancestors(arena, s) <=> s # nil
    BY <1>4, RootAbove, NilAlone
  <2> QED BY <2>1, <1>8 DEF Candidates
<1> QED BY <1>5, <1>6, <1>7, <1>9 DEF IsFirst

LEMMA DataInitInv == DataInit => DataInv
<1>1. SUFFICES ASSUME DataInit PROVE DataInv
  OBVIOUS
<1>2. PICK d \in Payloads : data = <<d, NoData>>
  BY <1>1 DEF DataInit
<1>3. arena = <<NoState, NoState>>
  BY <1>1 DEF DataInit, Init
<1> QED BY <1>2, <1>3 DEF DataInv, IsTree, States, root, nil, NoState

\* A step with a payload is a step of StateTree.
LEMMA DataStep == DataNext => Next
BY DEF DataNext, add, Next

LEMMA DataStepInv == DataInv /\ [DataNext]_<<arena, data>> => DataInv'
<1>1. SUFFICES ASSUME DataInv, [DataNext]_<<arena, data>> PROVE DataInv'
  OBVIOUS
<1>2. CASE DataNext
  <2>1. PICK p \in States(arena), d \in Payloads : add(p, d)
    BY <1>2 DEF DataNext
  <2>2. add_child(p) /\ data' = Append(data, d)
    BY <2>1 DEF add
  <2>3. TypeOK
    BY <1>1 DEF DataInv, TypeOK
  <2>4. TypeOK' /\ Len(arena') = Len(arena) + 1
    BY <2>2, <2>3, AddChildIsTree
  <2> DEFINE L == Len(arena)
  <2>5. L \in Nat /\ L >= 2 /\ nil = 2
    BY <2>3 DEF TypeOK, IsTree, nil
  <2>6. data \in Seq(Payloads \cup {NoData}) /\ Len(data) = L
    BY <1>1 DEF DataInv
  <2>7. /\ data' \in Seq(Payloads \cup {NoData}) /\ Len(data') = L + 1
        /\ data'[L + 1] = d
        /\ \A s \in 1 .. L : data'[s] = data[s]
    BY <2>2, <2>5, <2>6
  <2>8. IsTree(arena') /\ States(arena)' = 1 .. L + 1
    BY <2>4 DEF TypeOK, States
  <2>9. data'[nil] = NoData
    BY <1>1, <2>5, <2>7 DEF DataInv
  <2>10. ASSUME NEW s \in 1 .. L + 1, s # nil PROVE data'[s] \in Payloads
    <3>1. s = L + 1 \/ s \in 1 .. L
      BY <2>5
    <3> QED BY <3>1, <2>7, <2>10, <1>1 DEF DataInv, States
  <2> QED BY <2>4, <2>7, <2>8, <2>9, <2>10 DEF DataInv
<1>3. CASE UNCHANGED <<arena, data>>
  BY <1>1, <1>3 DEF DataInv, States
<1> QED BY <1>1, <1>2, <1>3

\* Payloads change nothing about the topology: a tree with payloads is built
\* by the steps of StateTree, whose theorems therefore hold of it.
THEOREM DataTreeIsTree == DataSpec => Spec
<1>1. DataInit => Init
  BY DEF DataInit
<1>2. [DataNext]_<<arena, data>> => [Next]_arena
  BY DataStep
<1> QED BY <1>1, <1>2, PTL DEF DataSpec, Spec

\* lookup finds the first state of the walk whose branch carries the data
\* set, repetitions included, and finds none only if there is none: in every
\* tree with any payloads, for every data set shorter than the mask is wide
\* (at the full width the shift overflows).
THEOREM LookupAlwaysExact ==
  ASSUME MaxData < Width
  PROVE  DataSpec => []LookupExact
<1>1. DataInv => LookupExact
  BY LookupIsExact
<1>2. DataSpec => []DataInv
  BY DataInitInv, DataStepInv, PTL DEF DataSpec
<1> QED BY <1>1, <1>2, PTL
=============================================================================
