--------------------------- MODULE TreeViewProofs ---------------------------
(***************************************************************************)
(* Facts about the tree operators, for every tree, and about the least and *)
(* greatest numbers of a set, which the proofs about the reconciler and    *)
(* the machine rest on too.                                                *)
(***************************************************************************)
EXTENDS TreeView, WellFoundedInduction, TLAPS

\* Every non-empty set of naturals has a least element: induction over data,
\* stated about sets.
LEMMA LeastNumber ==
  ASSUME NEW T \in SUBSET Nat, T # {}
  PROVE  \E m \in T : \A k \in T : m <= k
<1> DEFINE R == {ss \in Nat \X Nat : ss[1] < ss[2]}
<1>1. IsWellFoundedOn(R, Nat)
  BY NatLessThanWellFounded, Zenon DEF OpToRel
<1>2. T \subseteq Nat
  OBVIOUS
<1> HIDE DEF R
<1>3. PICK m \in T : \A k \in T : ~ (<<k, m>> \in R)
  BY <1>1, <1>2, WFMin
<1>4. ASSUME NEW k \in T PROVE m <= k
  <2>1. m \in Nat /\ k \in Nat
    BY <1>2
  <2>2. ~ (k < m)
    BY <1>3, <2>1 DEF R
  <2> QED BY <2>1, <2>2
<1> QED BY <1>4

\* Min (FiniteSetsExt) is the least element.
LEMMA MinIsLeast ==
  ASSUME NEW T \in SUBSET Nat, T # {}
  PROVE  Min(T) \in T /\ \A k \in T : Min(T) <= k
<1>1. \E x \in T : \A y \in T : x <= y
  BY LeastNumber
<1>2. Min(T) \in T /\ \A y \in T : Min(T) =< y
  BY <1>1, Zenon DEF Min
<1> QED BY <1>2

\* Every bounded non-empty set of naturals has a greatest element, and Max
\* (FiniteSetsExt) is one.
LEMMA MaxIsGreatest ==
  ASSUME NEW n \in Nat, NEW T \in SUBSET (0 .. n), T # {}
  PROVE  Max(T) \in T /\ \A k \in T : k <= Max(T)
<1> DEFINE U == {n - k : k \in T}
<1>1. U \in SUBSET Nat /\ U # {}
  <2>1. \A k \in T : n - k \in Nat
    OBVIOUS
  <2>2. PICK x \in T : TRUE
    OBVIOUS
  <2>3. n - x \in U
    BY <2>2
  <2> QED BY <2>1, <2>3
<1>2. PICK u \in U : \A v \in U : u <= v
  BY <1>1, LeastNumber
<1>3. PICK m \in T : u = n - m
  BY <1>2
<1>4. \A k \in T : k <= m
  <2>1. ASSUME NEW k \in T PROVE k <= m
    <3>1. n - m <= n - k
      BY <1>2, <1>3
    <3> QED BY <3>1
  <2> QED BY <2>1
<1>5. \E x \in T : \A y \in T : x >= y
  BY <1>3, <1>4
<1>6. Max(T) \in T /\ \A y \in T : Max(T) >= y
  BY <1>5, Zenon DEF Max
<1> QED BY <1>6

-----------------------------------------------------------------------------
LEMMA AboveProps ==
  ASSUME NEW s \in Nat, NEW p \in Seq(Nat)
  PROVE  /\ Above(s, p) \in Seq(Nat)
         /\ Len(Above(s, p)) = Len(p) + 1
         /\ Above(s, p)[1] = s
         /\ \A i \in 1 .. Len(p) : Above(s, p)[i + 1] = p[i]
BY DEF Above

LEMMA SingleProps ==
  ASSUME NEW s \in Nat
  PROVE  <<s>> \in Seq(Nat) /\ Len(<<s>>) = 1 /\ <<s>>[1] = s
OBVIOUS

\* What IsTree says of the parent of one state.
LEMMA ParentBelow ==
  ASSUME NEW t, IsTree(t), NEW s \in 1 .. Len(t)
  PROVE  /\ Len(t) \in Nat /\ s \in Nat /\ DOMAIN t = 1 .. Len(t)
         /\ t[s] = NoState \/ (t[s] \in 1 .. s - 1 /\ t[s] \in 1 .. Len(t))
BY DEF IsTree, root, nil, NoState

\* p gives the path of every state up to k.
IsPath(t, k, p) ==
  /\ p \in [1 .. k -> Seq(Nat)]
  /\ \A n \in 1 .. k :
       p[n] = IF t[n] = NoState THEN <<n>> ELSE Above(n, p[t[n]])

LEMMA PathExtends ==
  ASSUME NEW t, IsTree(t), NEW k \in 1 .. Len(t),
         NEW p, IsPath(t, k - 1, p)
  PROVE  \E q : IsPath(t, k, q)
<1> DEFINE last == IF t[k] = NoState THEN <<k>> ELSE Above(k, p[t[k]])
<1> DEFINE q == [n \in 1 .. k |-> IF n = k THEN last ELSE p[n]]
<1>0. k \in Nat /\ Len(t) \in Nat
  BY ParentBelow
<1>1. last \in Seq(Nat)
  <2>1. CASE t[k] = NoState
    BY <2>1, <1>0, SingleProps
  <2>2. CASE t[k] # NoState
    <3>1. p[t[k]] \in Seq(Nat)
      BY <2>2, ParentBelow DEF IsPath
    <3> QED BY <3>1, <2>2, <1>0, AboveProps
  <2> QED BY <2>1, <2>2
<1> HIDE DEF last
<1>2. q \in [1 .. k -> Seq(Nat)]
  BY <1>0, <1>1 DEF IsPath
<1>3. ASSUME NEW n \in 1 .. k
      PROVE  q[n] = IF t[n] = NoState THEN <<n>> ELSE Above(n, q[t[n]])
  <2>1. n \in 1 .. Len(t)
    BY <1>0
  <2>2. t[n] # NoState => t[n] \in 1 .. n - 1 /\ t[n] \in 1 .. k /\ t[n] # k
    BY <2>1, <1>0, ParentBelow
  <2>3. t[n] # NoState => q[t[n]] = p[t[n]]
    BY <2>2
  <2>4. CASE n = k
    BY <2>3, <2>4 DEF last
  <2>5. CASE n # k
    <3>1. n \in 1 .. k - 1 /\ q[n] = p[n]
      BY <2>5, <1>0
    <3> QED BY <3>1, <2>3 DEF IsPath
  <2> QED BY <2>4, <2>5
<1>4. IsPath(t, k, q)
  BY <1>2, <1>3 DEF IsPath
<1> QED BY <1>4

LEMMA PathsExist ==
  ASSUME NEW t, IsTree(t)
  PROVE  \E p : IsPath(t, Len(t), p)
<1> DEFINE T == {j \in Nat : j <= Len(t) /\ ~ \E p : IsPath(t, j, p)}
<1>0. Len(t) \in Nat
  BY DEF IsTree
<1>1. SUFFICES ASSUME T # {} PROVE FALSE
  BY <1>0
<1>2. PICK m \in T : \A j \in T : m <= j
  BY <1>1, LeastNumber
<1>3. m # 0
  <2>1. IsPath(t, 0, [n \in 1 .. 0 |-> << >>])
    BY DEF IsPath
  <2> QED BY <2>1
<1>4. m \in 1 .. Len(t) /\ m - 1 \in Nat /\ m - 1 <= Len(t) /\ m - 1 \notin T
  BY <1>2, <1>3, <1>0
<1>5. PICK p : IsPath(t, m - 1, p)
  BY <1>4
<1>6. \E q : IsPath(t, m, q)
  BY <1>4, <1>5, PathExtends
<1> QED BY <1>6

\* The recursive definition of path_rev_iter is sound: it has the value its
\* equation says, because a parent is always allocated before its child.
LEMMA PathEquation ==
  ASSUME NEW t, IsTree(t), NEW s \in 1 .. Len(t)
  PROVE  path_rev_iter(t, s) =
           IF t[s] = NoState THEN <<s>> ELSE Above(s, path_rev_iter(t, t[s]))
<1> DEFINE eq(p) == p = [n \in DOMAIN t |->
                           IF t[n] = NoState THEN <<n>> ELSE Above(n, p[t[n]])]
<1> DEFINE path == CHOOSE p : eq(p)
<1>0. DOMAIN t = 1 .. Len(t)
  BY ParentBelow
<1>1. PICK p : IsPath(t, Len(t), p)
  BY PathsExist
<1>2. eq(p)
  BY <1>0, <1>1 DEF IsPath
<1>3. eq(path)
  BY <1>2
<1>4. \A n : path_rev_iter(t, n) = path[n]
  BY DEF path_rev_iter
<1> HIDE DEF path
<1>5. path[s] = IF t[s] = NoState THEN <<s>> ELSE Above(s, path[t[s]])
  BY <1>0, <1>3
<1> QED BY <1>4, <1>5

LEMMA PathTyped ==
  ASSUME NEW t, IsTree(t), NEW s \in 1 .. Len(t)
  PROVE  /\ path_rev_iter(t, s) \in Seq(Nat)
         /\ Len(path_rev_iter(t, s)) \in Nat \ {0}
         /\ path_rev_iter(t, s)[1] = s
<1> DEFINE ok(n) == /\ path_rev_iter(t, n) \in Seq(Nat)
                    /\ Len(path_rev_iter(t, n)) \in Nat \ {0}
                    /\ path_rev_iter(t, n)[1] = n
<1> DEFINE T == {n \in 1 .. Len(t) : ~ ok(n)}
<1>1. SUFFICES ASSUME T # {} PROVE FALSE
  OBVIOUS
<1>2. T \in SUBSET Nat
  BY ParentBelow
<1>3. PICK m \in T : \A j \in T : m <= j
  BY <1>1, <1>2, LeastNumber
<1>4. m \in 1 .. Len(t) /\ m \in Nat /\ ~ ok(m)
  BY <1>3, <1>2
<1>5. CASE t[m] = NoState
  <2>1. path_rev_iter(t, m) = <<m>>
    BY <1>4, <1>5, PathEquation
  <2> QED BY <2>1, <1>4, SingleProps
<1>6. CASE t[m] # NoState
  <2>1. t[m] \in 1 .. Len(t) /\ t[m] \in Nat /\ t[m] < m
    BY <1>4, <1>6, ParentBelow
  <2>2. ok(t[m])
    BY <2>1, <1>3, <1>4
  <2>3. path_rev_iter(t, m) = Above(m, path_rev_iter(t, t[m]))
    BY <1>4, <1>6, PathEquation
  <2> DEFINE up == path_rev_iter(t, t[m])
  <2>4. up \in Seq(Nat) /\ Len(up) \in Nat
    BY <2>2
  <2>5. path_rev_iter(t, m) = Above(m, up)
    BY <2>3
  <2> HIDE DEF up
  <2>6. /\ Above(m, up) \in Seq(Nat)
        /\ Len(Above(m, up)) = Len(up) + 1
        /\ Above(m, up)[1] = m
    BY <2>4, <1>4, AboveProps
  <2> QED BY <2>4, <2>5, <2>6, <1>4
<1> QED BY <1>5, <1>6

\* How the path of a child is made from its parent's.
LEMMA PathOfChild ==
  ASSUME NEW t, IsTree(t), NEW s \in 1 .. Len(t), t[s] # NoState
  PROVE  /\ t[s] \in 1 .. Len(t) /\ t[s] < s
         /\ Len(path_rev_iter(t, s)) = Len(path_rev_iter(t, t[s])) + 1
         /\ \A i \in 1 .. Len(path_rev_iter(t, t[s])) :
              path_rev_iter(t, s)[i + 1] = path_rev_iter(t, t[s])[i]
<1>1. t[s] \in 1 .. Len(t) /\ t[s] < s /\ s \in Nat
  BY ParentBelow
<1>2. path_rev_iter(t, s) = Above(s, path_rev_iter(t, t[s]))
  BY PathEquation
<1> DEFINE up == path_rev_iter(t, t[s])
<1>3. up \in Seq(Nat)
  BY <1>1, PathTyped
<1> HIDE DEF up
<1>4. /\ Len(Above(s, up)) = Len(up) + 1
      /\ \A i \in 1 .. Len(up) : Above(s, up)[i + 1] = up[i]
  BY <1>1, <1>3, AboveProps
<1> QED BY <1>1, <1>2, <1>4 DEF up

\* The rest of a path, from its i-th state r on, is the path of r.
PathFrom(t, s, i) ==
  LET p == path_rev_iter(t, s)
      r == p[i]
      q == path_rev_iter(t, r)
  IN  /\ r \in 1 .. Len(t)
      /\ IF i = 1 THEN r = s ELSE r < s
      /\ Len(q) = Len(p) + 1 - i
      /\ \A d \in 0 .. Len(p) - i : p[i + d] = q[1 + d]

LEMMA PathSuffix ==
  ASSUME NEW t, IsTree(t), NEW s \in 1 .. Len(t),
         NEW i \in 1 .. Len(path_rev_iter(t, s))
  PROVE  PathFrom(t, s, i)
<1> DEFINE ok(n) == \A k \in 1 .. Len(path_rev_iter(t, n)) : PathFrom(t, n, k)
<1> DEFINE T == {n \in 1 .. Len(t) : ~ ok(n)}
<1>1. SUFFICES ASSUME T # {} PROVE FALSE
  OBVIOUS
<1>2. T \in SUBSET Nat
  BY ParentBelow
<1>3. PICK m \in T : \A j \in T : m <= j
  BY <1>1, <1>2, LeastNumber
<1>4. m \in 1 .. Len(t) /\ m \in Nat /\ ~ ok(m)
  BY <1>3, <1>2
<1> DEFINE p == path_rev_iter(t, m)
<1>5. PICK k \in 1 .. Len(p) : ~ PathFrom(t, m, k)
  BY <1>4
<1>6. p \in Seq(Nat) /\ Len(p) \in Nat /\ p[1] = m /\ k \in Nat
  BY <1>4, <1>5, PathTyped
<1>7. k # 1
  BY <1>4, <1>5, <1>6 DEF PathFrom
<1>8. t[m] # NoState
  <2>1. ASSUME t[m] = NoState PROVE FALSE
    <3>1. p = <<m>>
      BY <2>1, <1>4, PathEquation
    <3> QED BY <3>1, <1>5, <1>7
  <2> QED BY <2>1
<1> DEFINE up == path_rev_iter(t, t[m])
<1>9. /\ t[m] \in 1 .. Len(t) /\ t[m] < m /\ t[m] \in Nat
      /\ Len(p) = Len(up) + 1
      /\ \A j \in 1 .. Len(up) : p[j + 1] = up[j]
  BY <1>4, <1>8, PathOfChild
<1>10. ok(t[m])
  BY <1>9, <1>3, <1>4
<1>11. Len(up) \in Nat
  BY <1>9, PathTyped
<1>12. k - 1 \in 1 .. Len(up) /\ k - 1 \in Nat
  BY <1>5, <1>6, <1>7, <1>9, <1>11
<1>13. PathFrom(t, t[m], k - 1)
  BY <1>10, <1>12
<1>14. p[k] = up[k - 1]
  <2>1. k - 1 + 1 = k
    BY <1>6
  <2>2. p[k - 1 + 1] = up[k - 1]
    BY <1>9, <1>12
  <2> QED BY <2>1, <2>2
<1> DEFINE q == path_rev_iter(t, p[k])
<1>15. /\ p[k] \in 1 .. Len(t)
       /\ p[k] <= t[m]
       /\ Len(q) = Len(up) + 1 - (k - 1)
       /\ \A d \in 0 .. Len(up) - (k - 1) : up[k - 1 + d] = q[1 + d]
  BY <1>13, <1>14, <1>9, SMTT(30) DEF PathFrom
<1>16. p[k] < m /\ Len(q) = Len(p) + 1 - k
  <2> DEFINE r == p[k]
  <2>1. r \in Nat /\ r <= t[m] /\ t[m] < m
    BY <1>15, <1>9, ParentBelow
  <2>2. Len(q) = Len(up) + 1 - (k - 1) /\ Len(p) = Len(up) + 1
    BY <1>15, <1>9
  <2> HIDE DEF p, q, up, r
  <2>3. r < m
    BY <2>1, <1>4, <1>9
  <2>4. Len(q) = Len(p) + 1 - k
    BY <2>2, <1>11, <1>6
  <2> QED BY <2>3, <2>4 DEF r
<1>17. ASSUME NEW d \in 0 .. Len(p) - k PROVE p[k + d] = q[1 + d]
  <2>1. d \in 0 .. Len(up) - (k - 1) /\ k - 1 + d \in 1 .. Len(up)
    BY <1>9, <1>11, <1>12, <1>6
  <2>2. p[k - 1 + d + 1] = up[k - 1 + d]
    BY <2>1, <1>9
  <2>3. k - 1 + d + 1 = k + d
    BY <1>6
  <2> QED BY <2>1, <2>2, <2>3, <1>15
<1> QED BY <1>5, <1>7, <1>15, <1>16, <1>17 DEF PathFrom

LEMMA SharedTailProps ==
  ASSUME NEW p \in Seq(Nat), NEW q \in Seq(Nat)
  PROVE  /\ SharedTail(p, q) \in Nat
         /\ TailsAgree(p, q, SharedTail(p, q))
         /\ \A k \in Nat : TailsAgree(p, q, k) => k <= SharedTail(p, q)
<1> DEFINE T == {k \in 0 .. Len(p) : TailsAgree(p, q, k)}
<1>1. T \in SUBSET (0 .. Len(p)) /\ 0 \in T /\ Len(p) \in Nat
  BY DEF TailsAgree
<1>2. Max(T) \in T /\ \A k \in T : k <= Max(T)
  <2> HIDE DEF T
  <2> QED BY <1>1, MaxIsGreatest
<1>3. SharedTail(p, q) = Max(T)
  BY DEF SharedTail
<1>4. \A k \in Nat : TailsAgree(p, q, k) => k \in T
  BY DEF TailsAgree
<1>5. \A k \in T : k \in Nat /\ TailsAgree(p, q, k)
  OBVIOUS
<1> HIDE DEF T
<1> QED BY <1>2, <1>3, <1>4, <1>5

LEMMA SharedTailSymmetric ==
  ASSUME NEW p \in Seq(Nat), NEW q \in Seq(Nat)
  PROVE  SharedTail(p, q) = SharedTail(q, p)
<1> DEFINE T == {k \in 0 .. Len(p) : TailsAgree(p, q, k)}
<1> DEFINE U == {k \in 0 .. Len(q) : TailsAgree(q, p, k)}
<1>1. \A k : TailsAgree(p, q, k) <=> TailsAgree(q, p, k)
  BY Zenon DEF TailsAgree
<1>2. \A k : k \in T <=> k \in U
  <2>1. \A k : TailsAgree(p, q, k) => k <= Len(p) /\ k <= Len(q)
    BY Zenon DEF TailsAgree
  <2>2. Len(p) \in Nat /\ Len(q) \in Nat
    OBVIOUS
  <2> QED BY <1>1, <2>1, <2>2
<1>3. T = U
  BY <1>2, Zenon
<1> QED BY <1>3 DEF SharedTail

\* No state below the shared tail is on the other path: from a shared state
\* on both paths go on alike, so it would belong to the tail.
LEMMA NothingSharedBelow ==
  ASSUME NEW t, IsTree(t), NEW s \in 1 .. Len(t), NEW r \in 1 .. Len(t),
         NEW p, p = path_rev_iter(t, s), NEW q, q = path_rev_iter(t, r),
         NEW a \in 1 .. Len(p), NEW b \in 1 .. Len(q), p[a] = q[b]
  PROVE  Len(p) + 1 - a <= SharedTail(p, q)
<1> DEFINE w == path_rev_iter(t, p[a])
<1> DEFINE lp == Len(p)
<1> DEFINE lq == Len(q)
<1> DEFINE k == Len(w)
<1>0. p \in Seq(Nat) /\ q \in Seq(Nat) /\ lp \in Nat /\ lq \in Nat
  BY PathTyped
<1>1. PathFrom(t, s, a) /\ PathFrom(t, r, b)
  BY PathSuffix
<1>2. k = lp + 1 - a /\ k = lq + 1 - b
  BY <1>1 DEF PathFrom
<1>3. /\ \A d \in 0 .. lp - a : p[a + d] = w[1 + d]
      /\ \A d \in 0 .. lq - b : q[b + d] = w[1 + d]
  BY <1>1 DEF PathFrom
<1>4. a \in 1 .. lp /\ b \in 1 .. lq
  OBVIOUS
<1> HIDE DEF w, k, lp, lq
<1>5. k \in Nat /\ k <= lp /\ k <= lq
  BY <1>0, <1>2, <1>4
<1>6. ASSUME NEW d \in 0 .. k - 1
      PROVE  p[lp - d] = q[lq - d]
  <2> DEFINE e == lp - a - d
  <2>1. /\ e \in 0 .. lp - a /\ e \in 0 .. lq - b
        /\ a + e = lp - d /\ b + e = lq - d
    BY <1>0, <1>2, <1>4
  <2> HIDE DEF e
  <2>2. p[lp - d] = w[1 + e] /\ q[lq - d] = w[1 + e]
    BY <2>1, <1>3
  <2> QED BY <2>2
<1>7. TailsAgree(p, q, k)
  BY <1>5, <1>6 DEF TailsAgree, lp, lq
<1>8. k <= SharedTail(p, q)
  BY <1>0, <1>5, <1>7, SharedTailProps
<1> QED BY <1>2, <1>8 DEF lp

\* What is left of a path without the shared tail: the states of s's branch
\* that are not on r's.
LEMMA TrimmedPath ==
  ASSUME NEW t, IsTree(t), NEW s \in 1 .. Len(t), NEW r \in 1 .. Len(t),
         NEW p, p = path_rev_iter(t, s), NEW q, q = path_rev_iter(t, r)
  PROVE  /\ Len(p) - SharedTail(p, q) \in 0 .. Len(p)
         /\ {p[n] : n \in 1 .. Len(p) - SharedTail(p, q)} =
              Ancestors(t, s) \ Ancestors(t, r)
<1> DEFINE lp == Len(p)
<1> DEFINE lq == Len(q)
<1> DEFINE c == SharedTail(p, q)
<1>0. p \in Seq(Nat) /\ q \in Seq(Nat) /\ lp \in Nat /\ lq \in Nat
  BY PathTyped
<1>1. c \in Nat /\ TailsAgree(p, q, c)
  BY <1>0, SharedTailProps
<1>2. /\ c <= lp /\ c <= lq
      /\ \A d \in 0 .. c - 1 : p[lp - d] = q[lq - d]
  BY <1>1 DEF TailsAgree
<1>3. /\ Ancestors(t, s) = {p[n] : n \in 1 .. lp}
      /\ Ancestors(t, r) = {q[n] : n \in 1 .. lq}
  BY <1>0 DEF Ancestors
<1>4. \A a \in 1 .. lp, b \in 1 .. lq : p[a] = q[b] => lp + 1 - a <= c
  BY NothingSharedBelow
<1> HIDE DEF lp, lq, c
<1>5. \A n \in 1 .. lp - c : n \in 1 .. lp /\ p[n] \notin Ancestors(t, r)
  <2>1. ASSUME NEW n \in 1 .. lp - c, NEW b \in 1 .. lq, p[n] = q[b]
        PROVE  FALSE
    <3>1. n \in 1 .. lp /\ ~ (lp + 1 - n <= c)
      BY <1>0, <1>1, <1>2
    <3> QED BY <3>1, <2>1, <1>4
  <2> QED BY <2>1, <1>0, <1>1, <1>3
<1>6. ASSUME NEW n \in 1 .. lp, n \notin 1 .. lp - c
      PROVE  p[n] \in Ancestors(t, r)
  <2>1. /\ lp - n \in 0 .. c - 1
        /\ lp - (lp - n) = n
        /\ lq - (lp - n) \in 1 .. lq
    BY <1>0, <1>1, <1>2, <1>6
  <2>2. p[n] = q[lq - (lp - n)]
    BY <1>2, <2>1
  <2> QED BY <1>3, <2>1, <2>2
<1>7. {p[n] : n \in 1 .. lp - c} = Ancestors(t, s) \ Ancestors(t, r)
  BY <1>3, <1>5, <1>6
<1>8. lp - c \in 0 .. lp
  BY <1>0, <1>1, <1>2
<1> QED BY <1>7, <1>8 DEF lp, c

\* A path only leads to smaller ids.
LEMMA PathBounded ==
  ASSUME NEW t, IsTree(t), NEW s \in 1 .. Len(t),
         NEW n \in 1 .. Len(path_rev_iter(t, s))
  PROVE  /\ path_rev_iter(t, s)[n] \in 1 .. Len(t)
         /\ path_rev_iter(t, s)[n] <= s
         /\ n # 1 => path_rev_iter(t, s)[n] < s
<1>1. PathFrom(t, s, n)
  BY PathSuffix
<1>2. s \in Nat
  BY ParentBelow
<1> QED BY <1>1, <1>2 DEF PathFrom

\* Along a path every state lies strictly above the ones before it.
LEMMA PathClimbs ==
  ASSUME NEW t, IsTree(t), NEW s \in 1 .. Len(t),
         NEW p, p = path_rev_iter(t, s),
         NEW a \in 1 .. Len(p), NEW b \in 1 .. Len(p), a < b
  PROVE  p[b] \in Ancestors(t, p[a]) /\ p[a] \notin Ancestors(t, p[b])
<1> DEFINE x == p[a]
<1> DEFINE y == p[b]
<1> DEFINE w == path_rev_iter(t, x)
<1> DEFINE v == path_rev_iter(t, y)
<1> DEFINE lp == Len(p)
<1>0. lp \in Nat /\ a \in 1 .. lp /\ b \in 1 .. lp
  BY PathTyped
<1>1. x \in 1 .. Len(t) /\ y \in 1 .. Len(t)
  BY PathBounded
<1>2. PathFrom(t, s, a)
  BY PathSuffix
<1>3. /\ Len(w) = lp + 1 - a
      /\ \A d \in 0 .. lp - a : p[a + d] = w[1 + d]
  BY <1>2 DEF PathFrom
<1> HIDE DEF lp
<1>4. /\ b - a \in 0 .. lp - a /\ a + (b - a) = b /\ 1 + (b - a) # 1
      /\ 1 + (b - a) \in 1 .. lp + 1 - a
  BY <1>0
<1>5. y = w[1 + (b - a)] /\ 1 + (b - a) \in 1 .. Len(w)
  BY <1>3, <1>4
<1> HIDE DEF x, y
<1>6. y < x
  BY <1>1, <1>4, <1>5, PathBounded
<1>7. w \in Seq(Nat) /\ v \in Seq(Nat) /\ x \in Nat /\ y \in Nat
  BY <1>1, PathTyped, ParentBelow
<1>8. y \in Ancestors(t, x)
  BY <1>5, <1>7 DEF Ancestors
<1>9. \A n \in 1 .. Len(v) : v[n] <= y
  BY <1>1, PathBounded
<1>10. \A n \in DOMAIN v : v[n] # x
  <2>1. DOMAIN v = 1 .. Len(v) /\ \A n \in DOMAIN v : v[n] \in Nat
    BY <1>7
  <2> HIDE DEF v
  <2> QED BY <2>1, <1>6, <1>7, <1>9
<1>11. x \notin Ancestors(t, y)
  BY <1>10 DEF Ancestors
<1> QED BY <1>8, <1>11 DEF x, y

\* For every tree and every two different states of it: propose_transition
\* exits exactly the live states that are not wanted, bottom up, and enters
\* exactly the wanted ones that are not live, top down.
THEOREM TransitionExact ==
  ASSUME NEW t, IsTree(t), NEW current \in States(t), NEW target \in States(t),
         current # target
  PROVE  ExactTransition(t, current, target)
<1> DEFINE p == path_rev_iter(t, current)
<1> DEFINE q == path_rev_iter(t, target)
<1> DEFINE lp == Len(p)
<1> DEFINE lq == Len(q)
<1> DEFINE i == lp - SharedTail(p, q)
<1> DEFINE j == lq - SharedTail(p, q)
<1> DEFINE exit == [n \in 1 .. i |-> p[n]]
<1> DEFINE enter == [n \in 1 .. j |-> q[j + 1 - n]]
<1>0. current \in 1 .. Len(t) /\ target \in 1 .. Len(t)
  BY DEF States
<1>1. /\ p \in Seq(Nat) /\ q \in Seq(Nat) /\ lp \in Nat /\ lq \in Nat
  BY <1>0, PathTyped
<1>2. propose_transition(t, current, target) = [exit |-> exit, enter |-> enter]
  BY DEF propose_transition
<1>3. i \in 0 .. lp /\ {p[n] : n \in 1 .. i} =
        Ancestors(t, current) \ Ancestors(t, target)
  <2>1. /\ Len(p) - SharedTail(p, q) \in 0 .. Len(p)
        /\ {p[n] : n \in 1 .. Len(p) - SharedTail(p, q)} =
             Ancestors(t, current) \ Ancestors(t, target)
    <3> HIDE DEF i, j, lp, lq, exit, enter
    <3> QED BY <1>0, TrimmedPath
  <2> QED BY <2>1
<1>4. j \in 0 .. lq /\ {q[n] : n \in 1 .. j} =
        Ancestors(t, target) \ Ancestors(t, current)
  <2>1. SharedTail(p, q) = SharedTail(q, p)
    BY <1>1, SharedTailSymmetric
  <2> QED BY <1>0, <2>1, TrimmedPath
<1>5. \A a, b \in 1 .. lp : a < b => /\ p[b] \in Ancestors(t, p[a])
                                     /\ p[a] \notin Ancestors(t, p[b])
  BY <1>0, PathClimbs
<1>6. \A a, b \in 1 .. lq : a < b => /\ q[b] \in Ancestors(t, q[a])
                                     /\ q[a] \notin Ancestors(t, q[b])
  BY <1>0, PathClimbs
<1> HIDE DEF p, q, lp, lq, i, j
<1>7. i \in Nat /\ j \in Nat /\ i <= lp /\ j <= lq
  BY <1>1, <1>3, <1>4
<1>8. Len(exit) = i /\ Len(enter) = j
  BY <1>7
<1>9. Elements(exit) = Ancestors(t, current) \ Ancestors(t, target)
  <2>1. Elements(exit) = {p[n] : n \in 1 .. i}
    BY <1>8 DEF Elements
  <2> QED BY <2>1, <1>3
<1>10. Elements(enter) = Ancestors(t, target) \ Ancestors(t, current)
  <2>1. \A n \in 1 .. j : j + 1 - n \in 1 .. j /\ enter[n] = q[j + 1 - n]
    BY <1>7
  <2>2. \A n \in 1 .. j : enter[j + 1 - n] = q[n]
    BY <1>7
  <2>3. Elements(enter) = {enter[n] : n \in 1 .. j}
    BY <1>8 DEF Elements
  <2> HIDE DEF enter
  <2>4. Elements(enter) = {q[n] : n \in 1 .. j}
    BY <2>1, <2>2, <2>3
  <2> QED BY <2>4, <1>4
<1>11. Climbs(t, exit)
  <2>1. ASSUME NEW a \in 1 .. i, NEW b \in 1 .. i, a < b
        PROVE  exit[b] \in Ancestors(t, exit[a]) /\ exit[a] \notin Ancestors(t, exit[b])
    <3>1. a \in 1 .. lp /\ b \in 1 .. lp /\ exit[a] = p[a] /\ exit[b] = p[b]
      BY <1>1, <1>7
    <3> QED BY <3>1, <2>1, <1>5
  <2> QED BY <2>1, <1>8 DEF Climbs
<1>12. Descends(t, enter)
  <2>1. ASSUME NEW a \in 1 .. j, NEW b \in 1 .. j, a < b
        PROVE  enter[a] \in Ancestors(t, enter[b]) /\ enter[b] \notin Ancestors(t, enter[a])
    <3>1. /\ j + 1 - a \in 1 .. lq /\ j + 1 - b \in 1 .. lq
          /\ j + 1 - b < j + 1 - a
          /\ enter[a] = q[j + 1 - a] /\ enter[b] = q[j + 1 - b]
      BY <1>1, <1>7, <2>1
    <3> QED BY <3>1, <1>6
  <2> QED BY <2>1, <1>8 DEF Descends
<1> HIDE DEF exit, enter
<1> QED BY <1>2, <1>9, <1>10, <1>11, <1>12 DEF ExactTransition

LEMMA AncestorsTyped ==
  ASSUME NEW t, IsTree(t), NEW s \in States(t)
  PROVE  Ancestors(t, s) \subseteq States(t) /\ s \in Ancestors(t, s)
<1> DEFINE p == path_rev_iter(t, s)
<1>1. p \in Seq(Nat) /\ Len(p) \in Nat \ {0} /\ p[1] = s
  BY PathTyped DEF States
<1>2. Ancestors(t, s) = {p[i] : i \in 1 .. Len(p)}
  BY <1>1 DEF Ancestors
<1>3. \A i \in 1 .. Len(p) : p[i] \in States(t)
  BY PathBounded DEF States
<1> HIDE DEF p
<1>4. 1 \in 1 .. Len(p)
  BY <1>1
<1> QED BY <1>1, <1>2, <1>3, <1>4

\* Being above is transitive and, between different states, one-way.
LEMMA AncestorsOrder ==
  ASSUME NEW t, IsTree(t), NEW s \in States(t), NEW a \in Ancestors(t, s)
  PROVE  /\ Ancestors(t, a) \subseteq Ancestors(t, s)
         /\ a # s => s \notin Ancestors(t, a)
         /\ a <= s
<1> DEFINE p == path_rev_iter(t, s)
<1>0. s \in 1 .. Len(t) /\ s \in Nat
  BY ParentBelow DEF States
<1>1. p \in Seq(Nat) /\ Len(p) \in Nat \ {0} /\ p[1] = s
  BY <1>0, PathTyped
<1>2. PICK i \in 1 .. Len(p) : a = p[i]
  BY <1>1 DEF Ancestors
<1>3. PathFrom(t, s, i)
  BY <1>0, PathSuffix
<1> DEFINE q == path_rev_iter(t, a)
<1> DEFINE lp == Len(p)
<1>4. /\ a \in 1 .. Len(t) /\ Len(q) = lp + 1 - i
      /\ \A d \in 0 .. lp - i : p[i + d] = q[1 + d]
      /\ a <= s /\ (a # s => a < s)
  BY <1>0, <1>2, <1>3 DEF PathFrom
<1>5. lp \in Nat /\ i \in 1 .. lp
  BY <1>1
<1>6. q \in Seq(Nat) /\ DOMAIN q = 1 .. Len(q) /\ DOMAIN p = 1 .. lp
  BY <1>1, <1>4, PathTyped
<1> HIDE DEF lp
<1>7. ASSUME NEW n \in DOMAIN q PROVE q[n] \in Ancestors(t, s)
  <2>1. n - 1 \in 0 .. lp - i /\ 1 + (n - 1) = n /\ i + (n - 1) \in 1 .. lp
    BY <1>4, <1>5, <1>6, SMTT(30)
  <2>2. q[n] = p[i + (n - 1)] /\ i + (n - 1) \in DOMAIN p
    BY <2>1, <1>4, <1>6
  <2> QED BY <2>2 DEF Ancestors
<1>8. \A n \in DOMAIN q : q[n] <= a
  BY <1>4, <1>6, PathBounded
<1>9. ASSUME a # s PROVE s \notin Ancestors(t, a)
  <2>1. \A n \in DOMAIN q : q[n] # s
    <3>1. a < s /\ a \in Nat /\ \A n \in DOMAIN q : q[n] \in Nat
      BY <1>0, <1>4, <1>6, <1>9
    <3> HIDE DEF q
    <3> QED BY <3>1, <1>0, <1>8
  <2> QED BY <2>1 DEF Ancestors
<1>10. Ancestors(t, a) \subseteq Ancestors(t, s)
  BY <1>7 DEF Ancestors
<1> QED BY <1>4, <1>9, <1>10

\* Of two states of a branch one lies above the other.
LEMMA BranchLinear ==
  ASSUME NEW t, IsTree(t), NEW s \in States(t),
         NEW a \in Ancestors(t, s), NEW b \in Ancestors(t, s)
  PROVE  a \in Ancestors(t, b) \/ b \in Ancestors(t, a)
<1> DEFINE p == path_rev_iter(t, s)
<1>1. p \in Seq(Nat) /\ Len(p) \in Nat /\ DOMAIN p = 1 .. Len(p)
  BY PathTyped DEF States
<1>2. PICK i \in 1 .. Len(p), j \in 1 .. Len(p) : a = p[i] /\ b = p[j]
  BY <1>1 DEF Ancestors
<1>3. \A m, n \in 1 .. Len(p) : m < n => p[n] \in Ancestors(t, p[m])
  BY PathClimbs DEF States
<1>4. CASE i = j
  <2>1. a \in States(t)
    BY AncestorsTyped
  <2> QED BY <2>1, <1>2, <1>4, AncestorsTyped
<1>5. i < j \/ j < i \/ i = j
  OBVIOUS
<1> HIDE DEF p
<1> QED BY <1>2, <1>3, <1>4, <1>5

\* What lies at or above a state: itself, and what lies at or above its parent.
LEMMA AncestorsOfParent ==
  ASSUME NEW t, IsTree(t), NEW s \in States(t)
  PROVE  Ancestors(t, s) =
           {s} \cup IF parent_of(t, s) = NoState THEN {} ELSE Ancestors(t, parent_of(t, s))
<1> DEFINE p == path_rev_iter(t, s)
<1>1. /\ p \in Seq(Nat) /\ Len(p) \in Nat \ {0} /\ DOMAIN p = 1 .. Len(p) /\ p[1] = s
  BY PathTyped DEF States
<1>2. parent_of(t, s) = IF Len(p) > 1 THEN p[2] ELSE NoState
  BY DEF parent_of
<1>3. CASE t[s] = NoState
  <2>1. p = <<s>>
    BY <1>3, PathEquation DEF States
  <2>2. Ancestors(t, s) = {s} /\ Len(p) = 1
    BY <2>1 DEF Ancestors
  <2> QED BY <1>2, <2>2
<1>4. CASE t[s] # NoState
  <2> DEFINE q == path_rev_iter(t, t[s])
  <2>1. /\ t[s] \in States(t) /\ Len(p) = Len(q) + 1
        /\ \A i \in 1 .. Len(q) : p[i + 1] = q[i]
    BY <1>4, PathOfChild DEF States
  <2>2. q \in Seq(Nat) /\ Len(q) \in Nat \ {0} /\ DOMAIN q = 1 .. Len(q) /\ q[1] = t[s]
    BY <2>1, PathTyped DEF States
  <2>3. p[2] = t[s] /\ Len(p) > 1
    <3>1. 1 \in 1 .. Len(q)
      BY <2>2
    <3>2. p[1 + 1] = q[1]
      BY <2>1, <3>1
    <3> QED BY <3>2, <2>1, <2>2
  <2>4. parent_of(t, s) = t[s] /\ t[s] # NoState
    BY <1>2, <1>4, <2>3
  <2>5. Ancestors(t, s) = {p[i] : i \in 1 .. Len(p)} /\ Ancestors(t, t[s]) = {q[i] : i \in 1 .. Len(q)}
    BY <1>1, <2>2 DEF Ancestors
  <2> HIDE DEF p, q
  <2>6. \A i \in 1 .. Len(p) : i = 1 \/ (i - 1 \in 1 .. Len(q) /\ p[i] = q[i - 1])
    <3> SUFFICES ASSUME NEW i \in 1 .. Len(p), i # 1
                 PROVE  i - 1 \in 1 .. Len(q) /\ p[i] = q[i - 1]
      OBVIOUS
    <3>1. i - 1 \in 1 .. Len(q) /\ (i - 1) + 1 = i
      BY <1>1, <2>1, <2>2
    <3> QED BY <3>1, <2>1
  <2>7. \A i \in 1 .. Len(q) : i + 1 \in 1 .. Len(p)
    BY <1>1, <2>1, <2>2
  <2>8. 1 \in 1 .. Len(p)
    BY <1>1
  <2>9. {p[i] : i \in 1 .. Len(p)} = {s} \cup {q[i] : i \in 1 .. Len(q)}
    <3>1. ASSUME NEW i \in 1 .. Len(p) PROVE p[i] \in {s} \cup {q[k] : k \in 1 .. Len(q)}
      BY <1>1, <2>6
    <3>2. ASSUME NEW i \in 1 .. Len(q) PROVE q[i] \in {p[k] : k \in 1 .. Len(p)}
      BY <2>1, <2>7
    <3>3. s \in {p[i] : i \in 1 .. Len(p)}
      BY <1>1, <2>8
    <3> QED BY <3>1, <3>2, <3>3
  <2> QED BY <2>4, <2>5, <2>9
<1> QED BY <1>3, <1>4

LEMMA ProposalTyped ==
  ASSUME NEW t, IsTree(t), NEW current \in States(t), NEW target \in States(t)
  PROVE  /\ propose_transition(t, current, target).exit \in Seq(States(t))
         /\ propose_transition(t, current, target).enter \in Seq(States(t))
<1> DEFINE p == path_rev_iter(t, current)
<1> DEFINE q == path_rev_iter(t, target)
<1> DEFINE i == Len(p) - SharedTail(p, q)
<1> DEFINE j == Len(q) - SharedTail(p, q)
<1> DEFINE exit == [n \in 1 .. i |-> p[n]]
<1> DEFINE enter == [n \in 1 .. j |-> q[j + 1 - n]]
<1>1. CASE current = target
  BY <1>1 DEF propose_transition
<1>2. CASE current # target
  <2>0. current \in 1 .. Len(t) /\ target \in 1 .. Len(t)
    BY DEF States
  <2>1. p \in Seq(Nat) /\ q \in Seq(Nat) /\ Len(p) \in Nat /\ Len(q) \in Nat
    BY <2>0, PathTyped
  <2>2. SharedTail(p, q) \in Nat /\ SharedTail(p, q) <= Len(p) /\ SharedTail(p, q) <= Len(q)
    BY <2>1, SharedTailProps DEF TailsAgree
  <2>3. /\ \A n \in 1 .. Len(p) : p[n] \in States(t)
        /\ \A n \in 1 .. Len(q) : q[n] \in States(t)
    BY <2>0, PathBounded DEF States
  <2>4. propose_transition(t, current, target) = [exit |-> exit, enter |-> enter]
    BY <1>2 DEF propose_transition
  <2>5. i \in Nat /\ i <= Len(p) /\ j \in Nat /\ j <= Len(q)
    BY <2>1, <2>2
  <2> HIDE DEF p, q, i, j
  <2>6. exit \in [1 .. i -> States(t)]
    BY <2>1, <2>3, <2>5
  <2>7. \A n \in 1 .. j : j + 1 - n \in 1 .. Len(q)
    BY <2>1, <2>5
  <2>8. enter \in [1 .. j -> States(t)]
    BY <2>3, <2>7
  <2> HIDE DEF exit, enter
  <2>9. exit \in Seq(States(t)) /\ enter \in Seq(States(t))
    BY <2>5, <2>6, <2>8
  <2> QED BY <2>4, <2>9
<1> QED BY <1>1, <1>2

(* Lists that are worked off from the front.                               *)
LEMMA ElementsOfTail ==
  ASSUME NEW S, NEW s \in Seq(S), s # << >>
  PROVE  /\ Head(s) \in Elements(s) /\ Tail(s) \in Seq(S)
         /\ Elements(s) = {Head(s)} \cup Elements(Tail(s))
<1>1. /\ Len(s) \in Nat /\ Len(s) > 0 /\ Head(s) = s[1]
      /\ Tail(s) \in Seq(S) /\ Len(Tail(s)) = Len(s) - 1
      /\ \A i \in 1 .. Len(s) - 1 : Tail(s)[i] = s[i + 1]
  OBVIOUS
<1>2. 1 \in 1 .. Len(s) /\ \A i \in 1 .. Len(s) - 1 : i + 1 \in 1 .. Len(s)
  BY <1>1
<1>3. \A i \in 1 .. Len(s) : i = 1 \/ (i - 1 \in 1 .. Len(s) - 1 /\ s[i] = Tail(s)[i - 1])
  BY <1>1
<1>4. Elements(Tail(s)) \subseteq Elements(s) /\ Head(s) \in Elements(s)
  BY <1>1, <1>2 DEF Elements
<1>5. Elements(s) \subseteq {Head(s)} \cup Elements(Tail(s))
  BY <1>1, <1>3 DEF Elements
<1> QED BY <1>1, <1>4, <1>5

LEMMA ClimbsFromHead ==
  ASSUME NEW t, NEW S, NEW s \in Seq(S), s # << >>, Climbs(t, s)
  PROVE  /\ Climbs(t, Tail(s))
         /\ \A d \in Elements(Tail(s)) : Head(s) \notin Ancestors(t, d)
<1>1. /\ Len(s) \in Nat /\ Len(s) > 0 /\ Head(s) = s[1]
      /\ Len(Tail(s)) = Len(s) - 1
      /\ \A i \in 1 .. Len(s) - 1 : Tail(s)[i] = s[i + 1] /\ i + 1 \in 1 .. Len(s) /\ 1 < i + 1
      /\ 1 \in 1 .. Len(s)
  OBVIOUS
<1>2. ASSUME NEW i \in 1 .. Len(s) - 1 PROVE Head(s) \notin Ancestors(t, Tail(s)[i])
  BY <1>1 DEF Climbs
<1>3. ASSUME NEW i \in 1 .. Len(s) - 1, NEW j \in 1 .. Len(s) - 1, i < j
      PROVE  /\ Tail(s)[j] \in Ancestors(t, Tail(s)[i])
             /\ Tail(s)[i] \notin Ancestors(t, Tail(s)[j])
  <2>1. i + 1 < j + 1
    BY <1>3
  <2> QED BY <1>1, <2>1 DEF Climbs
<1> QED BY <1>1, <1>2, <1>3 DEF Climbs, Elements

LEMMA DescendsFromHead ==
  ASSUME NEW t, NEW S, NEW s \in Seq(S), s # << >>, Descends(t, s)
  PROVE  /\ Descends(t, Tail(s))
         /\ \A d \in Elements(Tail(s)) : d \notin Ancestors(t, Head(s))
<1>1. /\ Len(s) \in Nat /\ Len(s) > 0 /\ Head(s) = s[1]
      /\ Len(Tail(s)) = Len(s) - 1
      /\ \A i \in 1 .. Len(s) - 1 : Tail(s)[i] = s[i + 1] /\ i + 1 \in 1 .. Len(s) /\ 1 < i + 1
      /\ 1 \in 1 .. Len(s)
  OBVIOUS
<1>2. ASSUME NEW i \in 1 .. Len(s) - 1 PROVE Tail(s)[i] \notin Ancestors(t, Head(s))
  BY <1>1 DEF Descends
<1>3. ASSUME NEW i \in 1 .. Len(s) - 1, NEW j \in 1 .. Len(s) - 1, i < j
      PROVE  /\ Tail(s)[i] \in Ancestors(t, Tail(s)[j])
             /\ Tail(s)[j] \notin Ancestors(t, Tail(s)[i])
  <2>1. i + 1 < j + 1
    BY <1>3
  <2> QED BY <1>1, <2>1 DEF Descends
<1> QED BY <1>1, <1>2, <1>3 DEF Descends, Elements

\* nil has no ancestor but itself.
LEMMA NilAlone ==
  ASSUME NEW t, IsTree(t)
  PROVE  nil \in States(t) /\ Ancestors(t, nil) = {nil}
<1>1. nil \in 1 .. Len(t) /\ t[nil] = NoState
  BY DEF IsTree, nil
<1>2. path_rev_iter(t, nil) = <<nil>>
  BY <1>1, PathEquation
<1> QED BY <1>1, <1>2 DEF Ancestors, States

LEMMA ElementsTyped ==
  ASSUME NEW S, NEW s \in Seq(S)
  PROVE  Elements(s) \subseteq S
BY DEF Elements

LEMMA ElementsOfNone == Elements(<< >>) = {}
BY DEF Elements

\* What a transition from c to g neither exits nor enters.
KeptBetween(t, c, g) ==
  IF c = g THEN Ancestors(t, g) \ {g} ELSE Ancestors(t, c) \cap Ancestors(t, g)

\* propose_transition in these words, self-transitions included.
LEMMA ProposalParts ==
  ASSUME NEW t, IsTree(t), NEW c \in States(t), NEW g \in States(t)
  PROVE  LET tr == propose_transition(t, c, g)
             kept == KeptBetween(t, c, g)
         IN  /\ Elements(tr.exit) = Ancestors(t, c) \ kept
             /\ Elements(tr.enter) = Ancestors(t, g) \ kept
             /\ Climbs(t, tr.exit) /\ Descends(t, tr.enter)
             /\ kept \subseteq Ancestors(t, c) \cap Ancestors(t, g)
<1>1. CASE c = g
  <2>1. propose_transition(t, c, g).exit = <<g>> /\ propose_transition(t, c, g).enter = <<g>>
    BY <1>1 DEF propose_transition
  <2>2. Elements(<<g>>) = {g} /\ Climbs(t, <<g>>) /\ Descends(t, <<g>>)
    BY DEF Elements, Climbs, Descends
  <2>3. g \in Ancestors(t, g)
    BY AncestorsTyped
  <2> QED BY <1>1, <2>1, <2>2, <2>3 DEF KeptBetween
<1>2. CASE c # g
  <2>1. ExactTransition(t, c, g)
    BY <1>2, TransitionExact
  <2> QED BY <1>2, <2>1 DEF ExactTransition, KeptBetween
<1> QED BY <1>1, <1>2

=============================================================================
