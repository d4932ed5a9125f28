-------------------------- MODULE ReconcilerProofs --------------------------
(***************************************************************************)
(* maokai-reconciler: for any number of operations, rules and priorities,  *)
(* nothing is applied twice; while the ticket counter does not wrap,       *)
(* nothing gets lost and the pool is the queue that OpQueue specifies.     *)
(***************************************************************************)
EXTENDS Reconciler, TreeViewProofs, FiniteSetTheorems, SequenceTheorems

-----------------------------------------------------------------------------
(* The inductive invariant.                                                *)

IncomingOK ==
  /\ incoming \in [ticket : Tickets \cup {0}, op : Nat, left : Seq(RuleTypes), keep : BOOLEAN]
  /\ pc = "rule" => incoming.op = made

Unique(s) == \A i, j \in DOMAIN s : s[i] = s[j] => i = j

\* A pool holds some of n operations, one of a caller once only and none that
\* is out of the pools for good.
Sound(p, n, out) ==
  /\ \A t \in DOMAIN p : p[t] \in 0 .. n
  /\ \A t, u \in DOMAIN p : p[t] = p[u] => t = u \/ p[t] = RuleOp
  /\ \A t \in DOMAIN p : p[t] \in out => p[t] = RuleOp

\* A caller's operation has one place only: under one ticket, or with stage,
\* or among those applied or withdrawn.
Ledger ==
  /\ pc = "apply" => DOMAIN pending = {}
  /\ handed \subseteq 0 .. made /\ gone \subseteq 0 .. made
  /\ handed \cap gone \subseteq {RuleOp}
  /\ Sound(pending, made, handed \cup gone) /\ Sound(batch, made, handed \cup gone)
  /\ pc = "rule" =>
       /\ \A t \in DOMAIN pending : pending[t] # incoming.op
       /\ incoming.op \notin handed
       /\ incoming.op \in gone <=> ~ incoming.keep

\* While the counter does not wrap, a ticket is new when it is issued; only a
\* rule may have used it when its operation comes in.
TicketsFresh ==
  /\ NextIsFree
  /\ pc = "rule" /\ incoming.ticket \in DOMAIN pending
       => pending[incoming.ticket] = RuleOp

\* The rules that were moved out are the ones installed.
RulesKept ==
  IF pc = "rule" THEN taken = installed /\ rules = << >> ELSE rules = installed

-----------------------------------------------------------------------------
(* The pool.                                                               *)

LEMMA InsertFacts ==
  ASSUME NEW p, NEW t, NEW op
  PROVE  /\ DOMAIN Insert(p, t, op) = DOMAIN p \cup {t}
         /\ Insert(p, t, op)[t] = op
         /\ \A u \in DOMAIN p : u # t => Insert(p, t, op)[u] = p[u]
BY DEF Insert

LEMMA DeleteFacts ==
  ASSUME NEW p, NEW t
  PROVE  /\ DOMAIN Delete(p, t) = DOMAIN p \ {t}
         /\ \A u \in DOMAIN p \ {t} : Delete(p, t)[u] = p[u]
BY DEF Delete

LEMMA InsertPool ==
  ASSUME NEW p, IsPool(p), NEW t \in Tickets, NEW op \in Callers \cup {RuleOp}
  PROVE  IsPool(Insert(p, t, op))
BY DEF IsPool, Insert

LEMMA InsertWithin ==
  ASSUME NEW p, NEW S, DOMAIN p \subseteq S, NEW t \in S, NEW op
  PROVE  DOMAIN Insert(p, t, op) \subseteq S
BY DEF Insert

LEMMA DeleteWithin ==
  ASSUME NEW p, NEW t
  PROVE  DOMAIN Delete(p, t) \subseteq DOMAIN p
BY DEF Delete

LEMMA DeletePool ==
  ASSUME NEW p, IsPool(p), NEW t
  PROVE  IsPool(Delete(p, t))
BY DEF IsPool, Delete

LEMMA EmptyFacts == DOMAIN Empty = {} /\ Contents(Empty) = {}
BY DEF Empty, Contents

\* commit hands out what is in the pool: a pool that is not empty has a first
\* ticket.
LEMMA FirstIsThere ==
  ASSUME NEW p, DOMAIN p # {}, IsPool(p)
  PROVE  First(p) \in DOMAIN p
<1>0. \A t \in DOMAIN p : t \in Tickets /\ t.priority \in 0 .. MaxPriority /\ t.index \in Nat
  BY ReconcilerAssumption DEF IsPool, Tickets, Priorities
<1> DEFINE P == {t.priority : t \in DOMAIN p}
           m == Max(P)
           I == {t.index : t \in {u \in DOMAIN p : u.priority = m}}
<1>1. m \in P /\ \A k \in P : k <= m
  <2>1. P \in SUBSET (0 .. MaxPriority) /\ P # {}
    BY <1>0
  <2> HIDE DEF P
  <2> QED BY <2>1, ReconcilerAssumption, MaxIsGreatest
<1> HIDE DEF m
<1>2. I \in SUBSET Nat /\ I # {}
  BY <1>0, <1>1
<1>3. PICK i \in I : \A k \in I : i <= k
  BY <1>2, LeastNumber
<1>4. PICK t \in DOMAIN p : t.priority = m /\ t.index = i
  BY <1>3
<1>5. ASSUME NEW u \in DOMAIN p, u # t PROVE Before(t, u)
  <2>1. u.priority <= m /\ (u.priority = m => i <= u.index)
    BY <1>1, <1>3
  <2>2. u.priority = m => u.index # i
    BY <1>0, <1>4, <1>5 DEF Tickets
  <2> QED BY <1>0, <1>4, <2>1, <2>2 DEF Before
<1> QED BY <1>5 DEF First

-----------------------------------------------------------------------------
(* Types.                                                                  *)

Typed == PoolOK /\ IncomingOK

LEMMA RuleListsTyped ==
  ASSUME NEW s \in Seq(RuleTypes), Unique(s), NEW r \in RuleTypes
  PROVE  /\ Added(s, r) \in Seq(RuleTypes) /\ Unique(Added(s, r))
         /\ Without(s, r) \in Seq(RuleTypes) /\ Unique(Without(s, r))
<1>1. Added(s, r) \in Seq(RuleTypes) /\ Unique(Added(s, r))
  BY DEF Added, Position, Unique
<1>2. CASE Position(s, r) = {}
  BY <1>1, <1>2 DEF Without
<1>3. CASE Position(s, r) # {}
  <2> DEFINE i == CHOOSE j \in Position(s, r) : TRUE
             a == SubSeq(s, 1, i - 1)
             b == SubSeq(s, i + 1, Len(s))
             w == a \o b
  <2>1. i \in 1 .. Len(s)
    BY <1>3 DEF Position
  <2> HIDE DEF i
  <2>a. a \in Seq(RuleTypes) /\ Len(a) = i - 1 /\ \A k \in 1 .. i - 1 : a[k] = s[k]
    BY <2>1
  <2>b. /\ b \in Seq(RuleTypes) /\ Len(b) = Len(s) - i
        /\ \A k \in 1 .. Len(s) - i : b[k] = s[k + i]
    BY <2>1
  <2> HIDE DEF a, b
  <2>2. w \in Seq(RuleTypes)
    BY <2>a, <2>b
  <2>3. Len(w) = Len(s) - 1 /\ DOMAIN w = 1 .. Len(s) - 1
    <3>1. Len(w) = Len(a) + Len(b) /\ DOMAIN w = 1 .. Len(w)
      BY <2>a, <2>b, <2>2
    <3>2. (i - 1) + (Len(s) - i) = Len(s) - 1
      BY <2>1
    <3> HIDE DEF w
    <3> QED BY <2>a, <2>b, <3>1, <3>2
  <2>4. ASSUME NEW k \in 1 .. Len(s) - 1
        PROVE  w[k] = IF k < i THEN s[k] ELSE s[k + 1]
    <3>1. k \in 1 .. Len(a) + Len(b) /\ w[k] = IF k <= Len(a) THEN a[k] ELSE b[k - Len(a)]
      BY <2>1, <2>a, <2>b
    <3>2. k >= i => k - (i - 1) \in 1 .. Len(s) - i /\ (k - (i - 1)) + i = k + 1
      BY <2>1
    <3> QED BY <2>1, <2>a, <2>b, <3>1, <3>2
  <2> HIDE DEF w
  <2>5. Unique(w)
    BY <2>1, <2>3, <2>4 DEF Unique
  <2> QED BY <1>1, <1>3, <2>2, <2>5 DEF Without, w, a, b, i
<1> QED BY <1>2, <1>3

LEMMA InitTyped == Init => Typed
BY ReconcilerAssumption, EmptyFacts
DEF Init, Typed, PoolOK, IncomingOK, NoOp, RuleOp, IsPool, Empty

\* What the steps leave alone of the types.
LEMMA StepTyped == Typed /\ [Next]_vars => Typed'
<1> SUFFICES ASSUME Typed, [Next]_vars PROVE Typed'
  OBVIOUS
<1> USE ReconcilerAssumption
<1>0. /\ PoolOK /\ IncomingOK
      /\ \A s \in {rules, taken, installed} : s \in Seq(RuleTypes) /\ Unique(s)
  BY DEF Typed, PoolOK, Unique
<1>1. ASSUME NEW p \in Priorities, stage(p) PROVE Typed'
  <2> DEFINE t == [index |-> next_ticket, priority |-> p]
  <2>1. t \in Tickets
    BY <1>0, <1>1 DEF PoolOK, Tickets
  <2>2. next_ticket' \in 0 .. Indices - 1
    BY <1>0, <1>1 DEF PoolOK, stage, Successor
  <2>3. made + 1 \in Callers /\ made' \in 0 .. MaxOps /\ made + 1 \in Nat
    BY <1>0, <1>1 DEF PoolOK, stage, Callers
  <2>4. << >> \in Seq(RuleTypes) /\ Unique(<< >>)
    BY DEF Unique
  <2> HIDE DEF t
  <2>5. /\ incoming' = [ticket |-> t, op |-> made + 1, left |-> rules, keep |-> TRUE]
        /\ issued' = issued \cup {t} /\ pc = "rest" /\ pc' = "rule" /\ made' = made + 1
        /\ taken' = rules /\ rules' = << >> /\ installed' = installed
        /\ pending' = pending /\ batch' = batch
    BY <1>1 DEF stage, t
  <2>6. IncomingOK'
    BY <1>0, <2>1, <2>3, <2>5 DEF IncomingOK, Tickets, Priorities
  <2>7. PoolOK'
    BY <1>0, <2>1, <2>2, <2>3, <2>4, <2>5 DEF PoolOK, IsPool, Unique, Tickets, Callers, Priorities
  <2> QED BY <2>6, <2>7 DEF Typed
<1>2. CASE stage_overflows
  BY <1>0, <1>2 DEF Typed, PoolOK, IncomingOK, stage_overflows, pool, staging, IsPool, Tickets, Callers, Priorities
<1>3. CASE rule_panics
  <2>1. IncomingOK'
    BY <1>3 DEF rule_panics, IncomingOK, NoOp, RuleOp
  <2>2. PoolOK'
    BY <1>0, <1>3 DEF PoolOK, rule_panics, InRule, pool, IsPool, Tickets, Callers, Priorities
  <2> QED BY <2>1, <2>2 DEF Typed
<1>4. CASE staged
  <2>1. IncomingOK'
    BY <1>4 DEF staged, IncomingOK, NoOp, RuleOp
  <2>2. /\ pc = "rule" /\ incoming.ticket \in issued /\ incoming.op \in Callers
        /\ incoming.ticket \in Tickets
    BY <1>0, <1>4 DEF staged, PoolOK
  <2>3. IsPool(pending') /\ DOMAIN pending' \subseteq issued
    <3>1. IsPool(pending) /\ DOMAIN pending \subseteq issued
      BY <1>0 DEF PoolOK
    <3>2. IsPool(Insert(pending, incoming.ticket, incoming.op))
      BY <2>2, <3>1, InsertPool
    <3>3. DOMAIN Insert(pending, incoming.ticket, incoming.op) \subseteq issued
      BY <2>2, <3>1, InsertWithin
    <3> QED BY <1>4, <3>1, <3>2, <3>3 DEF staged
  <2>4. PoolOK'
    BY <1>0, <1>4, <2>3 DEF PoolOK, staged, history, IsPool, Tickets, Callers, Priorities
  <2> QED BY <2>1, <2>4 DEF Typed
<1>5. ASSUME NEW t \in issued, pending' = Delete(pending, t),
             UNCHANGED <<next_ticket, issued, staging, batch, rules, installed, made>>
      PROVE  Typed'
  <2>1. IsPool(pending') /\ DOMAIN pending' \subseteq issued
    <3>1. IsPool(pending) /\ DOMAIN pending \subseteq issued
      BY <1>0 DEF PoolOK
    <3>2. DOMAIN Delete(pending, t) \subseteq DOMAIN pending
      BY DeleteWithin
    <3> QED BY <1>5, <3>1, <3>2, DeletePool
  <2>2. PoolOK'
    BY <1>0, <1>5, <2>1 DEF PoolOK, staging, IsPool, Tickets, Callers, Priorities
  <2> QED BY <1>0, <1>5, <2>2 DEF Typed, IncomingOK, staging, Tickets, Priorities
<1>6. ASSUME NEW t \in issued, rule_replaces(t) PROVE Typed'
  <2>1. IsPool(pending') /\ DOMAIN pending' \subseteq issued
    <3>1. IsPool(pending) /\ DOMAIN pending \subseteq issued /\ t \in Tickets
      BY <1>0 DEF PoolOK
    <3>2. IsPool(Insert(pending, t, RuleOp))
      BY <3>1, InsertPool
    <3>3. DOMAIN Insert(pending, t, RuleOp) \subseteq issued
      BY <3>1, InsertWithin
    <3> QED BY <1>6, <3>2, <3>3 DEF rule_replaces
  <2>2. PoolOK'
    BY <1>0, <1>6, <2>1 DEF PoolOK, rule_replaces, staging, IsPool, Tickets, Callers, Priorities
  <2> QED BY <1>0, <1>6, <2>2 DEF Typed, IncomingOK, rule_replaces, staging, Tickets, Priorities
<1>7. ASSUME NEW brk \in BOOLEAN, NEW drop \in BOOLEAN, rule_answers(brk, drop) PROVE Typed'
  <2>1. Tail(incoming.left) \in Seq(RuleTypes) /\ << >> \in Seq(RuleTypes)
    BY <1>0, <1>7 DEF rule_answers, InRule, IncomingOK
  <2>2. incoming' \in [ticket : Tickets \cup {0}, op : Nat, left : Seq(RuleTypes), keep : BOOLEAN]
    BY <1>0, <1>7, <2>1 DEF rule_answers, IncomingOK
  <2>3. incoming'.op = incoming.op /\ incoming'.ticket = incoming.ticket
    BY <1>0, <1>7 DEF rule_answers, IncomingOK
  <2>4. IncomingOK'
    BY <1>0, <1>7, <2>2, <2>3 DEF rule_answers, IncomingOK, Tickets, Priorities
  <2>5. PoolOK'
    BY <1>0, <1>7, <2>3 DEF PoolOK, rule_answers, pool, IsPool, Tickets, Callers, Priorities
  <2> QED BY <2>4, <2>5 DEF Typed
<1>8. CASE clear
  <2>1. PoolOK'
    BY <1>0, <1>8, EmptyFacts DEF PoolOK, clear, staging, IsPool, Tickets, Callers, Priorities
  <2> QED BY <1>0, <1>8, <2>1 DEF Typed, IncomingOK, clear, staging, Tickets, Priorities
<1>9. CASE commit
  <2>1. PoolOK'
    BY <1>0, <1>9, EmptyFacts DEF PoolOK, commit, history, IsPool, Tickets, Callers, Priorities
  <2> QED BY <1>0, <1>9, <2>1 DEF Typed, IncomingOK, commit, Tickets, Priorities
<1>10. CASE apply
  <2>1. IsPool(batch') /\ DOMAIN batch' \subseteq DOMAIN batch
    <3>1. IsPool(batch) /\ batch' = Delete(batch, First(batch))
      BY <1>0, <1>10 DEF PoolOK, apply
    <3>2. DOMAIN Delete(batch, First(batch)) \subseteq DOMAIN batch
      BY DeleteWithin
    <3> QED BY <3>1, <3>2, DeletePool
  <2>2. PoolOK'
    BY <1>0, <1>10, <2>1 DEF PoolOK, apply, pool, staging, IsPool, Tickets, Callers, Priorities
  <2> QED BY <1>0, <1>10, <2>2 DEF Typed, IncomingOK, apply, staging, Tickets, Priorities
<1>11. CASE apply_panics
  <2>1. PoolOK'
    BY <1>0, <1>11, EmptyFacts DEF PoolOK, apply_panics, pool, IsPool, Tickets, Callers, Priorities
  <2> QED BY <1>0, <1>11, <2>1 DEF Typed, IncomingOK, apply_panics, Tickets, Priorities
<1>12. CASE committed
  <2>1. PoolOK'
    BY <1>0, <1>12 DEF PoolOK, committed, pool, history, IsPool, Tickets, Callers, Priorities
  <2> QED BY <1>0, <1>12, <2>1 DEF Typed, IncomingOK, committed, Tickets, Priorities
<1>13. ASSUME NEW now \in Seq(RuleTypes), NEW meant \in Seq(RuleTypes),
              Unique(now), Unique(meant), SetRules(now, meant)
       PROVE  Typed'
  <2>1. PoolOK'
    BY <1>0, <1>13 DEF PoolOK, SetRules, pool, staging, history, IsPool, Unique, Tickets, Callers, Priorities
  <2> QED BY <1>0, <1>13, <2>1 DEF Typed, IncomingOK, SetRules, staging, history, Tickets, Priorities
<1>14. ASSUME NEW r \in RuleTypes, add_rule(r) \/ remove_rule(r) PROVE Typed'
  BY <1>0, <1>13, <1>14, RuleListsTyped DEF add_rule, remove_rule
<1>15. CASE clear_rules
  <2>1. << >> \in Seq(RuleTypes) /\ Unique(<< >>)
    BY DEF Unique
  <2> QED BY <1>13, <1>15, <2>1 DEF clear_rules
<1>16. CASE UNCHANGED vars
  <2>1. PoolOK'
    BY <1>0, <1>16 DEF PoolOK, vars, pool, staging, history, IsPool, Tickets, Callers, Priorities
  <2> QED BY <1>0, <1>16, <2>1 DEF Typed, IncomingOK, vars, pool, staging, history, Tickets, Priorities
<1>17. ASSUME NEW t \in issued, rule_unstages(t) \/ unstage(t) PROVE Typed'
  BY <1>5, <1>17 DEF rule_unstages, unstage
<1> QED
  BY <1>1, <1>2, <1>3, <1>4, <1>6, <1>7, <1>8, <1>9, <1>10, <1>11, <1>12, <1>14,
     <1>15, <1>16, <1>17 DEF Next

-----------------------------------------------------------------------------
(* The ledger.                                                             *)

Taken(p, t) == IF t \in DOMAIN p THEN {p[t]} ELSE {}

LEMMA SoundGrows ==
  ASSUME NEW p, NEW n \in Nat, NEW out, Sound(p, n, out)
  PROVE  Sound(p, n + 1, out)
BY DEF Sound

LEMMA SoundDelete ==
  ASSUME NEW p, NEW n \in Nat, NEW out, Sound(p, n, out), NEW t
  PROVE  Sound(Delete(p, t), n, out \cup Taken(p, t))
<1>1. \A u \in DOMAIN Delete(p, t) : u \in DOMAIN p /\ u # t /\ Delete(p, t)[u] = p[u]
  BY DEF Delete
<1> QED BY <1>1 DEF Sound, Taken

LEMMA SoundReplace ==
  ASSUME NEW p, NEW n \in Nat, NEW out, Sound(p, n, out), NEW t
  PROVE  Sound(Insert(p, t, RuleOp), n, out \cup Taken(p, t))
<1>1. \A u \in DOMAIN Insert(p, t, RuleOp) :
        \/ Insert(p, t, RuleOp)[u] = RuleOp
        \/ u \in DOMAIN p /\ u # t /\ Insert(p, t, RuleOp)[u] = p[u]
  BY DEF Insert
<1>2. RuleOp \in 0 .. n
  BY DEF RuleOp
<1> QED BY <1>1, <1>2 DEF Sound, Taken

LEMMA SoundInsert ==
  ASSUME NEW p, NEW n \in Nat, NEW out, Sound(p, n, out), NEW t,
         NEW op \in 0 .. n, op \notin out, \A u \in DOMAIN p : p[u] # op
  PROVE  Sound(Insert(p, t, op), n, out)
<1>1. \A u \in DOMAIN Insert(p, t, op) :
        \/ u = t /\ Insert(p, t, op)[u] = op
        \/ u \in DOMAIN p /\ u # t /\ Insert(p, t, op)[u] = p[u]
  BY DEF Insert
<1> QED BY <1>1 DEF Sound

LEMMA SoundWithout ==
  ASSUME NEW p, NEW n, NEW out, Sound(p, n, out), NEW op, \A u \in DOMAIN p : p[u] # op
  PROVE  Sound(p, n, out \cup {op})
BY DEF Sound

LEMMA SoundEmpty ==
  ASSUME NEW p, NEW n, NEW out, DOMAIN p = {}
  PROVE  Sound(p, n, out)
BY DEF Sound

LEMMA InitLedger == Init => Ledger
BY EmptyFacts, SoundEmpty DEF Init, Ledger

LEMMA StepLedger == Typed /\ Ledger /\ [Next]_vars => Ledger'
<1> SUFFICES ASSUME Typed, Ledger, [Next]_vars PROVE Ledger'
  OBVIOUS
<1> DEFINE out == handed \cup gone
<1>0. /\ made \in Nat /\ made \in 0 .. MaxOps /\ RuleOp = 0
      /\ pc # "apply" => DOMAIN batch = {}
      /\ pc = "rule" => incoming.op = made /\ incoming.op \in Callers
      /\ incoming \in [ticket : Tickets \cup {0}, op : Nat, left : Seq(RuleTypes), keep : BOOLEAN]
      /\ IsPool(batch)
  BY ReconcilerAssumption DEF Typed, PoolOK, IncomingOK, RuleOp
<1>00. /\ handed \subseteq 0 .. made /\ gone \subseteq 0 .. made
       /\ handed \cap gone \subseteq {RuleOp}
       /\ Sound(pending, made, out) /\ Sound(batch, made, out)
       /\ pc = "apply" => DOMAIN pending = {}
  BY DEF Ledger
<1>1. ASSUME NEW p \in Priorities, stage(p) PROVE Ledger'
  <2>1. /\ pc = "rest" /\ pc' = "rule" /\ made' = made + 1
        /\ incoming'.op = made + 1 /\ incoming'.keep = TRUE
        /\ UNCHANGED <<pending, batch, handed, gone>>
    BY <1>1 DEF stage
  <2>2. Sound(pending, made + 1, out) /\ Sound(batch, made + 1, out)
    BY <1>0, <1>00, SoundGrows
  <2>3. \A t \in DOMAIN pending : pending[t] # made + 1
    BY <1>0, <1>00 DEF Sound
  <2>4. /\ handed \subseteq 0 .. made + 1 /\ gone \subseteq 0 .. made + 1
        /\ made + 1 \notin handed /\ made + 1 \notin gone
    BY <1>0, <1>00
  <2> QED BY <1>00, <2>1, <2>2, <2>3, <2>4 DEF Ledger
<1>2. CASE stage_overflows
  <2>1. /\ pc = "rest" /\ made' = made + 1 /\ gone' = gone \cup {made + 1}
        /\ UNCHANGED <<pc, pending, batch, handed>>
    BY <1>2 DEF stage_overflows, pool, staging
  <2>2. Sound(pending, made + 1, out) /\ Sound(batch, made + 1, out)
    BY <1>0, <1>00, SoundGrows
  <2>3. /\ \A t \in DOMAIN pending : pending[t] # made + 1
        /\ \A t \in DOMAIN batch : batch[t] # made + 1
    BY <1>0, <1>00 DEF Sound
  <2>4. /\ Sound(pending, made + 1, out \cup {made + 1})
        /\ Sound(batch, made + 1, out \cup {made + 1})
    BY <2>2, <2>3, SoundWithout
  <2>5. /\ handed \subseteq 0 .. made + 1 /\ gone' \subseteq 0 .. made + 1
        /\ made + 1 \notin handed
    BY <1>0, <1>00, <2>1
  <2>6. out \cup {made + 1} = handed \cup gone'
    BY <2>1
  <2> HIDE DEF out
  <2> QED BY <1>00, <2>1, <2>4, <2>5, <2>6 DEF Ledger
<1>3. CASE rule_panics
  <2>1. /\ pc = "rule" /\ pc' = "rest" /\ gone' = gone \cup {incoming.op}
        /\ UNCHANGED <<made, pending, batch, handed>>
    BY <1>3 DEF rule_panics, InRule, pool
  <2>2. /\ \A t \in DOMAIN pending : pending[t] # incoming.op
        /\ incoming.op \notin handed /\ incoming.op \in 0 .. made
    BY <1>0, <2>1 DEF Ledger
  <2>3. Sound(pending, made, out \cup {incoming.op}) /\ Sound(batch, made, out \cup {incoming.op})
    BY <1>0, <1>00, <2>1, <2>2, SoundWithout, SoundEmpty
  <2>4. out \cup {incoming.op} = handed \cup gone'
    BY <2>1
  <2> HIDE DEF out
  <2> QED BY <1>00, <2>1, <2>2, <2>3, <2>4 DEF Ledger
<1>4. CASE staged
  <2>1. /\ pc = "rule" /\ pc' = "rest"
        /\ UNCHANGED <<made, batch, handed, gone>>
        /\ pending' = IF incoming.keep THEN Insert(pending, incoming.ticket, incoming.op) ELSE pending
    BY <1>4 DEF staged, history
  <2>2. /\ \A t \in DOMAIN pending : pending[t] # incoming.op
        /\ incoming.keep => incoming.op \notin out
        /\ incoming.op \in 0 .. made
    BY <1>0, <2>1 DEF Ledger
  <2>3. Sound(pending', made, out)
    BY <1>0, <1>00, <2>1, <2>2, SoundInsert
  <2> QED BY <1>00, <2>1, <2>3 DEF Ledger
<1>5. ASSUME NEW t, Displace(t), pc # "apply", UNCHANGED <<staging, batch, made, handed>>,
             pending' = Delete(pending, t) \/ pending' = Insert(pending, t, RuleOp)
      PROVE  Ledger'
  <2>1. gone' = gone \cup Taken(pending, t)
    BY <1>5 DEF Displace, Taken
  <2>2. out \cup Taken(pending, t) = handed \cup gone'
    BY <2>1
  <2>3. Sound(pending', made, out \cup Taken(pending, t))
    BY <1>0, <1>00, <1>5, SoundDelete, SoundReplace
  <2>4. Sound(batch, made, out \cup Taken(pending, t))
    BY <1>0, <1>5, SoundEmpty
  <2>5. gone' \subseteq 0 .. made /\ handed \cap gone' \subseteq {RuleOp}
    BY <1>00, <2>1 DEF Taken, Sound
  <2>6. pc = "rule" =>
          /\ \A u \in DOMAIN pending' : pending'[u] # incoming.op
          /\ incoming.op \notin handed
          /\ incoming.op \in gone' <=> ~ incoming.keep
    <3> SUFFICES ASSUME pc = "rule"
                 PROVE  /\ \A u \in DOMAIN pending' : pending'[u] # incoming.op
                        /\ incoming.op \notin handed
                        /\ incoming.op \in gone' <=> ~ incoming.keep
      OBVIOUS
    <3>1. /\ \A u \in DOMAIN pending : pending[u] # incoming.op
          /\ incoming.op \notin handed /\ (incoming.op \in gone <=> ~ incoming.keep)
      BY DEF Ledger
    <3>2. incoming.op # RuleOp
      BY <1>0 DEF Callers
    <3>3. \A u \in DOMAIN pending' :
            pending'[u] = RuleOp \/ (u \in DOMAIN pending /\ pending'[u] = pending[u])
      BY <1>5 DEF Insert, Delete
    <3> QED BY <2>1, <3>1, <3>2, <3>3 DEF Taken
  <2> HIDE DEF out
  <2> QED BY <1>00, <1>5, <2>2, <2>3, <2>4, <2>5, <2>6 DEF Ledger, staging
<1>6. ASSUME NEW brk \in BOOLEAN, NEW drop \in BOOLEAN, rule_answers(brk, drop) PROVE Ledger'
  <2>1. /\ pc = "rule" /\ UNCHANGED <<pc, made, pending, batch, handed>>
        /\ incoming'.op = incoming.op /\ incoming'.keep = (incoming.keep /\ ~ drop)
        /\ gone' = IF drop THEN gone \cup {incoming.op} ELSE gone
    BY <1>0, <1>6 DEF rule_answers, InRule, pool
  <2>2. /\ \A t \in DOMAIN pending : pending[t] # incoming.op
        /\ incoming.op \notin handed /\ incoming.op \in 0 .. made
        /\ incoming.op \in gone <=> ~ incoming.keep
    BY <1>0, <2>1 DEF Ledger
  <2>3. Sound(pending, made, out \cup {incoming.op}) /\ Sound(batch, made, out \cup {incoming.op})
    BY <1>0, <1>00, <2>1, <2>2, SoundWithout, SoundEmpty
  <2>4. /\ drop => handed \cup gone' = out \cup {incoming.op}
        /\ ~ drop => handed \cup gone' = out
    BY <2>1
  <2>5. Sound(pending, made, handed \cup gone') /\ Sound(batch, made, handed \cup gone')
    BY <1>00, <2>3, <2>4
  <2> HIDE DEF out
  <2>6. gone' \subseteq 0 .. made /\ handed \cap gone' \subseteq {RuleOp}
    BY <1>00, <2>1, <2>2
  <2>7. incoming.op \in gone' <=> ~ (incoming.keep /\ ~ drop)
    BY <2>1, <2>2
  <2> QED BY <1>00, <2>1, <2>2, <2>5, <2>6, <2>7 DEF Ledger
<1>7. CASE clear
  <2>1. /\ pc = "rest" /\ pending' = Empty /\ gone' = gone \cup Contents(pending)
        /\ UNCHANGED <<pc, batch, made, handed>>
    BY <1>7 DEF clear, staging
  <2>2. gone' \subseteq 0 .. made /\ handed \cap gone' \subseteq {RuleOp}
    BY <1>00, <2>1 DEF Contents, Sound
  <2> QED BY <1>0, <1>00, <2>1, <2>2, SoundEmpty, EmptyFacts DEF Ledger
<1>8. CASE commit
  BY <1>0, <1>00, <1>8, SoundEmpty, EmptyFacts DEF Ledger, commit, history
<1>9. CASE apply
  <2> DEFINE t == First(batch)
  <2>1. /\ pc = "apply" /\ DOMAIN batch # {} /\ batch' = Delete(batch, t)
        /\ handed' = handed \cup {batch[t]}
        /\ UNCHANGED <<pc, pending, made, gone>>
    BY <1>9 DEF apply, pool, staging
  <2>2. t \in DOMAIN batch
    BY <1>0, <2>1, FirstIsThere
  <2> HIDE DEF t
  <2>3. Sound(batch', made, out \cup Taken(batch, t))
    BY <1>0, <1>00, <2>1, SoundDelete
  <2>4. out \cup Taken(batch, t) = handed' \cup gone
    BY <2>1, <2>2 DEF Taken
  <2>5. handed' \subseteq 0 .. made /\ handed' \cap gone \subseteq {RuleOp}
    BY <1>00, <2>1, <2>2 DEF Sound
  <2> HIDE DEF out
  <2> QED BY <1>00, <2>1, <2>3, <2>4, <2>5, SoundEmpty DEF Ledger
<1>10. CASE apply_panics
  <2>1. /\ pc = "apply" /\ pc' = "rest" /\ batch' = Empty /\ gone' = gone \cup Contents(batch)
        /\ UNCHANGED <<pending, made, handed>>
    BY <1>10 DEF apply_panics, pool
  <2>2. gone' \subseteq 0 .. made /\ handed \cap gone' \subseteq {RuleOp}
    BY <1>00, <2>1 DEF Contents, Sound
  <2> QED BY <1>00, <2>1, <2>2, SoundEmpty, EmptyFacts DEF Ledger
<1>11. CASE committed
  BY <1>00, <1>11 DEF Ledger, committed, pool, history
<1>12. ASSUME NEW now, NEW meant, SetRules(now, meant) PROVE Ledger'
  BY <1>00, <1>12 DEF Ledger, SetRules, pool, staging, history
<1>13. CASE UNCHANGED vars
  BY <1>13 DEF Ledger, vars, pool, staging, history
<1>14. ASSUME NEW t \in issued, rule_unstages(t) \/ rule_replaces(t) \/ unstage(t) PROVE Ledger'
  <2>1. /\ Displace(t) /\ pc # "apply" /\ UNCHANGED <<staging, batch, made, handed>>
        /\ pending' = Delete(pending, t) \/ pending' = Insert(pending, t, RuleOp)
    BY <1>14 DEF rule_unstages, rule_replaces, unstage, InRule
  <2> QED BY <1>5, <2>1
<1> QED
  BY <1>1, <1>2, <1>3, <1>4, <1>6, <1>7, <1>8, <1>9, <1>10, <1>11, <1>12, <1>13, <1>14
  DEF Next, add_rule, remove_rule, clear_rules

\* Whatever rules answer and do to the pool, and whoever panics, no operation
\* is applied twice or after it was withdrawn.
THEOREM NothingTwice == Spec => []AppliedOnce
<1>1. Typed /\ Ledger => AppliedOnce
  <2> SUFFICES ASSUME Typed, Ledger, NEW op \in 1 .. made, op \in handed
               PROVE  op \notin gone \cup Contents(pending) \cup Contents(batch)
    BY DEF AppliedOnce
  <2>1. op # RuleOp
    BY DEF RuleOp
  <2> QED BY <2>1 DEF Ledger, Sound, Contents
<1>2. Typed /\ Ledger /\ [Next]_vars => (Typed /\ Ledger)'
  BY StepTyped, StepLedger
<1> QED BY <1>1, <1>2, InitTyped, InitLedger, PTL DEF Spec

-----------------------------------------------------------------------------
(* Tickets.                                                                *)

LEMMA SmallRemainder ==
  ASSUME NEW a \in Nat, NEW b \in Nat \ {0}, a < b
  PROVE  a % b = a
OBVIOUS

\* While the counter does not wrap.
LEMMA StepFresh ==
  Overflow = "panic" /\ Typed /\ TicketsFresh /\ [Next]_vars => TicketsFresh'
<1> SUFFICES ASSUME Overflow = "panic", Typed, TicketsFresh, [Next]_vars PROVE TicketsFresh'
  OBVIOUS
<1>0. /\ next_ticket \in 0 .. Indices - 1 /\ Indices \in Nat \ {0}
      /\ issued \subseteq Tickets /\ DOMAIN pending \subseteq issued
      /\ incoming \in [ticket : Tickets \cup {0}, op : Nat, left : Seq(RuleTypes), keep : BOOLEAN]
  BY ReconcilerAssumption DEF Typed, PoolOK, IncomingOK
<1>00. \A t \in issued : t.index \in Nat /\ t.index < next_ticket
  BY <1>0 DEF TicketsFresh, NextIsFree, Tickets
<1>1. ASSUME NEW p \in Priorities, stage(p) PROVE TicketsFresh'
  <2> DEFINE t == [index |-> next_ticket, priority |-> p]
  <2>1. /\ issued' = issued \cup {t} /\ incoming'.ticket = t /\ pending' = pending
        /\ next_ticket # Indices - 1 /\ next_ticket' = Successor(next_ticket)
    BY <1>1 DEF stage
  <2>2. next_ticket' = next_ticket + 1
    <3>1. next_ticket + 1 \in Nat /\ next_ticket + 1 < Indices
      BY <1>0, <2>1
    <3> QED BY <1>0, <2>1, <3>1, SmallRemainder DEF Successor
  <2>3. t.index = next_ticket
    OBVIOUS
  <2> HIDE DEF t
  <2>4. t \notin issued
    BY <1>0, <1>00, <2>3
  <2>5. \A u \in issued' : u.index < next_ticket'
    BY <1>0, <1>00, <2>1, <2>2, <2>3
  <2>6. incoming'.ticket \notin DOMAIN pending'
    BY <1>0, <2>1, <2>4
  <2> QED BY <2>5, <2>6 DEF TicketsFresh, NextIsFree
<1>2. CASE stage_overflows
  BY <1>2 DEF stage_overflows, TicketsFresh, NextIsFree, pool, staging
<1>3. CASE rule_panics
  BY <1>3 DEF rule_panics, TicketsFresh, NextIsFree, pool
<1>4. CASE staged
  BY <1>4 DEF staged, TicketsFresh, NextIsFree
<1>5. ASSUME NEW t, UNCHANGED <<next_ticket, issued, staging>>,
             pending' = Delete(pending, t) \/ pending' = Insert(pending, t, RuleOp)
      PROVE  TicketsFresh'
  <2>1. \A u \in DOMAIN pending' :
          pending'[u] = RuleOp \/ (u \in DOMAIN pending /\ pending'[u] = pending[u])
    <3>1. CASE pending' = Delete(pending, t)
      BY <3>1 DEF Delete
    <3>2. CASE pending' = Insert(pending, t, RuleOp)
      BY <3>2 DEF Insert
    <3> QED BY <1>5, <3>1, <3>2
  <2> QED BY <1>5, <2>1 DEF TicketsFresh, NextIsFree, staging
<1>6. ASSUME NEW brk \in BOOLEAN, NEW drop \in BOOLEAN, rule_answers(brk, drop) PROVE TicketsFresh'
  <2>1. incoming'.ticket = incoming.ticket
    BY <1>0, <1>6 DEF rule_answers
  <2> QED BY <1>6, <2>1 DEF rule_answers, TicketsFresh, NextIsFree, pool
<1>7. CASE clear
  BY <1>7, EmptyFacts DEF clear, TicketsFresh, NextIsFree, staging
<1>8. CASE commit
  BY <1>8 DEF commit, TicketsFresh, NextIsFree
<1>9. CASE apply
  BY <1>9 DEF apply, TicketsFresh, NextIsFree, pool, staging
<1>10. CASE apply_panics \/ committed
  BY <1>10 DEF apply_panics, committed, TicketsFresh, NextIsFree, pool
<1>11. ASSUME NEW now, NEW meant, SetRules(now, meant) PROVE TicketsFresh'
  BY <1>11 DEF SetRules, TicketsFresh, NextIsFree, pool, staging
<1>12. CASE UNCHANGED vars
  BY <1>12 DEF vars, TicketsFresh, NextIsFree, pool, staging
<1>13. ASSUME NEW t \in issued, rule_unstages(t) \/ rule_replaces(t) \/ unstage(t) PROVE TicketsFresh'
  <2>1. /\ UNCHANGED <<next_ticket, issued, staging>>
        /\ pending' = Delete(pending, t) \/ pending' = Insert(pending, t, RuleOp)
    BY <1>13 DEF rule_unstages, rule_replaces, unstage
  <2> QED BY <1>5, <2>1
<1> QED
  BY <1>1, <1>2, <1>3, <1>4, <1>6, <1>7, <1>8, <1>9, <1>10, <1>11, <1>12, <1>13
  DEF Next, add_rule, remove_rule, clear_rules

\* Tickets in use were issued, no rule is installed twice, and a batch exists
\* during commit only, whatever user code does; and unless the counter wraps,
\* the ticket that stage_boxed draws next was never issued before.
THEOREM TypeCorrect == Spec => []TypeOK
<1> DEFINE Inv == Typed /\ (Overflow = "panic" => TicketsFresh)
<1>1. Init => Inv
  <2>1. Init => TicketsFresh
    BY DEF Init, TicketsFresh, NextIsFree
  <2> QED BY <2>1, InitTyped
<1>2. Inv /\ [Next]_vars => Inv'
  BY StepTyped, StepFresh
<1>3. Inv => TypeOK
  BY DEF Typed, TicketsFresh, TypeOK
<1> HIDE DEF Inv
<1> QED BY <1>1, <1>2, <1>3, PTL DEF Spec

\* An operation that was somewhere is somewhere after a step: applied,
\* withdrawn, in a pool or with stage.
LEMMA StepKeeps ==
  Typed /\ Ledger /\ TicketsFresh /\ NoOpLost /\ [Next]_vars => NoOpLost'
<1> SUFFICES ASSUME Typed, Ledger, TicketsFresh, NoOpLost, [Next]_vars,
                    NEW op \in 1 .. made'
             PROVE  \/ op \in handed' \cup gone' \cup Contents(pending') \cup Contents(batch')
                    \/ pc' = "rule" /\ incoming'.op = op
  BY DEF NoOpLost
<1> DEFINE Here == \/ op \in handed \cup gone \cup Contents(pending) \cup Contents(batch)
                   \/ pc = "rule" /\ incoming.op = op
           There == \/ op \in handed' \cup gone' \cup Contents(pending') \cup Contents(batch')
                    \/ pc' = "rule" /\ incoming'.op = op
<1>0. /\ made \in Nat /\ op # RuleOp /\ IsPool(batch)
      /\ op \in 1 .. made => Here
      /\ incoming \in [ticket : Tickets \cup {0}, op : Nat, left : Seq(RuleTypes), keep : BOOLEAN]
      /\ pc # "apply" => DOMAIN batch = {}
  BY DEF Typed, PoolOK, IncomingOK, RuleOp, NoOpLost
<1>1. ASSUME NEW p \in Priorities, stage(p) PROVE There
  BY <1>0, <1>1 DEF stage
<1>2. CASE stage_overflows
  BY <1>0, <1>2 DEF stage_overflows, pool, staging
<1>3. CASE rule_panics
  BY <1>0, <1>3 DEF rule_panics, pool
<1>4. CASE staged
  <2>1. /\ pc = "rule" /\ made' = made /\ handed' = handed /\ gone' = gone /\ batch' = batch
        /\ pending' = IF incoming.keep THEN Insert(pending, incoming.ticket, incoming.op) ELSE pending
    BY <1>4 DEF staged, history
  <2>2. ASSUME op \in Contents(pending) PROVE op \in Contents(pending')
    <3>1. PICK t \in DOMAIN pending : pending[t] = op
      BY <2>2 DEF Contents
    <3>2. t # incoming.ticket
      BY <1>0, <2>1, <3>1 DEF TicketsFresh, NextIsFree
    <3>3. t \in DOMAIN pending' /\ pending'[t] = op
      BY <2>1, <3>1, <3>2 DEF Insert
    <3> QED BY <3>3 DEF Contents
  <2>3. incoming.op \in Contents(pending') \/ incoming.op \in gone
    <3>1. CASE incoming.keep
      <4>1. incoming.ticket \in DOMAIN pending' /\ pending'[incoming.ticket] = incoming.op
        BY <2>1, <3>1 DEF Insert
      <4> QED BY <4>1 DEF Contents
    <3>2. CASE ~ incoming.keep
      BY <2>1, <3>2 DEF Ledger
    <3> QED BY <3>1, <3>2
  <2> QED BY <1>0, <2>1, <2>2, <2>3
<1>5. ASSUME NEW t, Displace(t), UNCHANGED <<staging, batch, made, handed>>,
             pending' = Delete(pending, t) \/ pending' = Insert(pending, t, RuleOp)
      PROVE  There
  <2>1. ASSUME op \in Contents(pending) PROVE op \in Contents(pending') \cup gone'
    <3>1. PICK u \in DOMAIN pending : pending[u] = op
      BY <2>1 DEF Contents
    <3>2. CASE u = t
      BY <1>5, <3>1, <3>2 DEF Displace
    <3>3. CASE u # t
      <4>1. u \in DOMAIN pending' /\ pending'[u] = op
        BY <1>5, <3>1, <3>3 DEF Insert, Delete
      <4> QED BY <4>1 DEF Contents
    <3> QED BY <3>2, <3>3
  <2>2. gone \subseteq gone'
    BY <1>5 DEF Displace
  <2> QED BY <1>0, <1>5, <2>1, <2>2 DEF staging
<1>6. ASSUME NEW brk \in BOOLEAN, NEW drop \in BOOLEAN, rule_answers(brk, drop) PROVE There
  <2>1. incoming'.op = incoming.op
    BY <1>0, <1>6 DEF rule_answers
  <2> QED BY <1>0, <1>6, <2>1 DEF rule_answers, pool
<1>7. CASE clear
  BY <1>0, <1>7 DEF clear, staging
<1>8. CASE commit
  <2>1. Contents(batch') = Contents(pending) /\ DOMAIN batch = {} /\ pc = "rest"
    BY <1>0, <1>8 DEF commit
  <2>2. Contents(batch) = {}
    BY <2>1 DEF Contents
  <2> QED BY <1>0, <1>8, <2>1, <2>2 DEF commit, history
<1>9. CASE apply
  <2> DEFINE t == First(batch)
  <2>1. /\ pc = "apply" /\ DOMAIN batch # {} /\ batch' = Delete(batch, t)
        /\ handed' = handed \cup {batch[t]}
        /\ UNCHANGED <<pc, incoming, pending, made, gone>>
    BY <1>9 DEF apply, pool, staging
  <2> HIDE DEF t
  <2>2. ASSUME op \in Contents(batch) PROVE op \in Contents(batch') \cup handed'
    <3>1. PICK u \in DOMAIN batch : batch[u] = op
      BY <2>2 DEF Contents
    <3>2. u # t => u \in DOMAIN batch' /\ batch'[u] = op
      BY <2>1, <3>1 DEF Delete
    <3> QED BY <2>1, <3>1, <3>2 DEF Contents
  <2> QED BY <1>0, <2>1, <2>2
<1>10. CASE apply_panics
  BY <1>0, <1>10 DEF apply_panics, pool
<1>11. CASE committed
  BY <1>0, <1>11 DEF committed, pool, history
<1>12. ASSUME NEW now, NEW meant, SetRules(now, meant) PROVE There
  BY <1>0, <1>12 DEF SetRules, pool, staging, history
<1>13. CASE UNCHANGED vars
  BY <1>0, <1>13 DEF vars, pool, staging, history
<1>14. ASSUME NEW t \in issued, rule_unstages(t) \/ rule_replaces(t) \/ unstage(t) PROVE There
  <2>1. /\ Displace(t) /\ UNCHANGED <<staging, batch, made, handed>>
        /\ pending' = Delete(pending, t) \/ pending' = Insert(pending, t, RuleOp)
    BY <1>14 DEF rule_unstages, rule_replaces, unstage
  <2> QED BY <1>5, <2>1
<1> QED
  BY <1>1, <1>2, <1>3, <1>4, <1>6, <1>7, <1>8, <1>9, <1>10, <1>11, <1>12, <1>13, <1>14
  DEF Next, add_rule, remove_rule, clear_rules

\* As long as the ticket counter does not wrap (it panics instead), every
\* operation staged is applied, pending, or withdrawn by somebody: no ticket
\* is given out twice, so that no insertion replaces a caller's operation.
THEOREM NothingLost == Spec => [](Overflow = "panic" => NoOpLost)
<1> DEFINE Inv == Typed /\ Ledger /\ (Overflow = "panic" => TicketsFresh /\ NoOpLost)
<1>1. Init => Inv
  <2>1. Init => TicketsFresh /\ NoOpLost
    BY DEF Init, TicketsFresh, NextIsFree, NoOpLost
  <2> QED BY <2>1, InitTyped, InitLedger
<1>2. Inv /\ [Next]_vars => Inv'
  BY StepTyped, StepLedger, StepFresh, StepKeeps
<1>3. Inv => (Overflow = "panic" => NoOpLost)
  OBVIOUS
<1> HIDE DEF Inv
<1> QED BY <1>1, <1>2, <1>3, PTL DEF Spec

\* The rules between two calls are those that add_rule, remove_rule and
\* clear_rules left, although staging moves them out, unless a rule panics.
THEOREM RulesAlwaysBack == Spec => []RulesAsInstalled
<1>1. Init => RulesKept
  BY DEF Init, RulesKept
<1>2. RulesKept /\ [Next]_vars => RulesKept'
  <2> SUFFICES ASSUME RulesKept, [Next]_vars PROVE RulesKept'
    OBVIOUS
  <2>1. ASSUME NEW p \in Priorities, stage(p) PROVE RulesKept'
    BY <2>1 DEF RulesKept, stage
  <2>2. CASE stage_overflows \/ staged \/ clear \/ commit \/ apply \/ apply_panics \/ committed
    BY <2>2 DEF RulesKept, stage_overflows, staged, clear, commit, apply, apply_panics, committed, staging
  <2>3. ASSUME NEW t, rule_unstages(t) \/ rule_replaces(t) \/ unstage(t) PROVE RulesKept'
    BY <2>3 DEF RulesKept, rule_unstages, rule_replaces, unstage, staging
  <2>4. ASSUME NEW brk \in BOOLEAN, NEW drop \in BOOLEAN, rule_answers(brk, drop) PROVE RulesKept'
    BY <2>4 DEF RulesKept, rule_answers
  <2>5. CASE rule_panics
    BY <2>5 DEF RulesKept, rule_panics, InRule
  <2>6. ASSUME NEW r \in RuleTypes, add_rule(r) \/ remove_rule(r) PROVE RulesKept'
    BY <2>6 DEF RulesKept, add_rule, remove_rule, SetRules, staging
  <2>7. CASE clear_rules
    BY <2>7 DEF RulesKept, clear_rules, SetRules, staging
  <2>8. CASE UNCHANGED vars
    BY <2>8 DEF RulesKept, vars, staging
  <2> QED BY <2>1, <2>2, <2>3, <2>4, <2>5, <2>6, <2>7, <2>8 DEF Next
<1>3. RulesKept => RulesAsInstalled
  BY DEF RulesKept, RulesAsInstalled
<1> QED BY <1>1, <1>2, <1>3, PTL DEF Spec

-----------------------------------------------------------------------------
(* The pool as a queue.                                                    *)

\* Ticket::cmp is a total order.
LEMMA BeforeOrder ==
  ASSUME NEW t \in Tickets, NEW u \in Tickets
  PROVE  /\ ~ Before(t, t)
         /\ t # u <=> Before(t, u) \/ Before(u, t)
         /\ ~ (Before(t, u) /\ Before(u, t))
         /\ \A w \in Tickets : Before(t, u) /\ Before(u, w) => Before(t, w)
<1>1. \A w \in Tickets : w.index \in Nat /\ w.priority \in Nat
  BY ReconcilerAssumption DEF Tickets, Priorities
<1>2. t.index = u.index /\ t.priority = u.priority => t = u
  BY DEF Tickets
<1> QED BY <1>1, <1>2 DEF Before

FinitePool(p) == IsPool(p) /\ IsFiniteSet(DOMAIN p)

LEMMA RankFacts ==
  ASSUME NEW p, FinitePool(p)
  PROVE  LET n == Cardinality(DOMAIN p)
         IN  /\ n \in Nat
             /\ \A t \in DOMAIN p : Rank(p, t) \in 1 .. n
             /\ \A t, u \in DOMAIN p : Before(t, u) => Rank(p, t) < Rank(p, u)
             /\ \A t, u \in DOMAIN p : Rank(p, t) < Rank(p, u) => Before(t, u)
             /\ \A t, u \in DOMAIN p : Rank(p, t) = Rank(p, u) => t = u
             /\ \A i \in 1 .. n : \E t \in DOMAIN p : Rank(p, t) = i
<1> DEFINE n == Cardinality(DOMAIN p)
           Ahead(t) == {u \in DOMAIN p : Before(u, t)}
<1>1. IsFiniteSet(DOMAIN p) /\ n \in Nat /\ DOMAIN p \subseteq Tickets
  BY FS_CardinalityType DEF FinitePool, IsPool
<1>2. \A t : IsFiniteSet(Ahead(t)) /\ Cardinality(Ahead(t)) \in Nat
  BY <1>1, FS_Subset, FS_CardinalityType
<1>3. \A t : Rank(p, t) = Cardinality(Ahead(t)) + 1
  BY DEF Rank
<1>4. ASSUME NEW t \in DOMAIN p PROVE Rank(p, t) \in 1 .. n
  <2>1. Ahead(t) \in SUBSET (DOMAIN p \ {t})
    BY <1>1, BeforeOrder
  <2>2. IsFiniteSet(DOMAIN p \ {t}) /\ Cardinality(DOMAIN p \ {t}) = n - 1
    BY <1>1, FS_RemoveElement
  <2>3. Cardinality(Ahead(t)) <= n - 1
    BY <2>1, <2>2, FS_Subset
  <2> QED BY <1>1, <1>2, <1>3, <2>3
<1>5. ASSUME NEW t \in DOMAIN p, NEW u \in DOMAIN p, Before(t, u)
      PROVE  Rank(p, t) < Rank(p, u)
  <2>1. Ahead(t) \cup {t} \in SUBSET Ahead(u) /\ t \notin Ahead(t)
    BY <1>1, <1>5, BeforeOrder
  <2>2. Cardinality(Ahead(t) \cup {t}) = Cardinality(Ahead(t)) + 1
    BY <1>2, <2>1, FS_AddElement
  <2>3. Cardinality(Ahead(t) \cup {t}) <= Cardinality(Ahead(u))
    BY <1>2, <2>1, FS_Subset
  <2> QED BY <1>2, <1>3, <2>2, <2>3
<1> HIDE DEF Ahead, n
<1>6. \A t \in DOMAIN p : Rank(p, t) \in Nat
  BY <1>1, <1>4
<1>7. \A t, u \in DOMAIN p : t # u => Before(t, u) \/ Before(u, t)
  BY <1>1, BeforeOrder
<1>8. ASSUME NEW t \in DOMAIN p, NEW u \in DOMAIN p, Rank(p, t) = Rank(p, u) PROVE t = u
  BY <1>5, <1>6, <1>7, <1>8
<1>9. ASSUME NEW t \in DOMAIN p, NEW u \in DOMAIN p, Rank(p, t) < Rank(p, u)
      PROVE  Before(t, u)
  BY <1>5, <1>6, <1>7, <1>9
<1>10. \A i \in 1 .. n : \E t \in DOMAIN p : Rank(p, t) = i
  <2> DEFINE f == [t \in DOMAIN p |-> Rank(p, t)]
  <2>1. f \in [DOMAIN p -> 1 .. n] /\ \A t, u \in DOMAIN p : f[t] = f[u] => t = u
    BY <1>4, <1>8
  <2>2. f \in Injection(DOMAIN p, 1 .. n)
    BY <2>1 DEF Injection, IsInjective
  <2>3. IsFiniteSet(1 .. n) /\ Cardinality(1 .. n) = n
    BY <1>1, FS_Interval
  <2>4. f \in Surjection(DOMAIN p, 1 .. n)
    BY <1>1, <2>2, <2>3, FS_Injection DEF n
  <2> QED BY <2>4 DEF Surjection
<1> QED BY <1>1, <1>4, <1>5, <1>8, <1>9, <1>10 DEF n

Entries == [op : Callers \cup {RuleOp}, priority : Priorities]

\* The entry of a ticket stands at its rank.
LEMMA InOrderFacts ==
  ASSUME NEW p, FinitePool(p)
  PROVE  /\ InOrder(p) \in Seq(Entries)
         /\ Len(InOrder(p)) = Cardinality(DOMAIN p)
         /\ DOMAIN InOrder(p) = 1 .. Cardinality(DOMAIN p)
         /\ \A t \in DOMAIN p : InOrder(p)[Rank(p, t)] = Entry(p, t)
<1> DEFINE n == Cardinality(DOMAIN p)
           At(i) == CHOOSE t \in DOMAIN p : Rank(p, t) = i
<1>1. n \in Nat
  BY RankFacts
<1>2. \A i \in 1 .. n : At(i) \in DOMAIN p /\ Rank(p, At(i)) = i
  BY RankFacts
<1>3. \A t \in DOMAIN p : Entry(p, t) \in Entries
  BY DEF FinitePool, IsPool, Entry, Entries, Tickets
<1>4. InOrder(p) = [i \in 1 .. n |-> Entry(p, At(i))]
  BY DEF InOrder
<1>5. ASSUME NEW t \in DOMAIN p PROVE InOrder(p)[Rank(p, t)] = Entry(p, t)
  <2>1. Rank(p, t) \in 1 .. n
    BY RankFacts
  <2>2. At(Rank(p, t)) = t
    BY <1>2, <2>1, RankFacts
  <2> QED BY <1>4, <2>1, <2>2
<1> HIDE DEF n, At
<1>6. InOrder(p) \in [1 .. n -> Entries]
  BY <1>2, <1>3, <1>4
<1>7. InOrder(p) \in Seq(Entries) /\ Len(InOrder(p)) = n /\ DOMAIN InOrder(p) = 1 .. n
  BY <1>1, <1>6
<1> QED BY <1>5, <1>7 DEF n

\* It is all there is to say of the sequence.
LEMMA InOrderUnique ==
  ASSUME NEW p, FinitePool(p), NEW s \in Seq(Entries), Len(s) = Cardinality(DOMAIN p),
         \A t \in DOMAIN p : s[Rank(p, t)] = Entry(p, t)
  PROVE  InOrder(p) = s
<1>1. ASSUME NEW i \in 1 .. Len(s) PROVE InOrder(p)[i] = s[i]
  <2>1. PICK t \in DOMAIN p : Rank(p, t) = i
    BY RankFacts
  <2> QED BY <2>1, InOrderFacts
<1> QED BY <1>1, InOrderFacts, SeqEqual

\* The order depends on the tickets and their operations only.
LEMMA InOrderSame ==
  ASSUME NEW p, FinitePool(p), NEW q, DOMAIN q = DOMAIN p, \A t \in DOMAIN p : q[t] = p[t]
  PROVE  InOrder(q) = InOrder(p)
<1>1. FinitePool(q)
  BY DEF FinitePool, IsPool
<1>2. \A t \in DOMAIN p : Rank(q, t) = Rank(p, t) /\ Entry(q, t) = Entry(p, t)
  BY DEF Rank, Entry
<1> QED BY <1>1, <1>2, InOrderFacts, InOrderUnique

LEMMA InOrderEmpty ==
  ASSUME NEW p, DOMAIN p = {}
  PROVE  InOrder(p) = << >> /\ FinitePool(p)
<1>1. FinitePool(p) /\ Cardinality(DOMAIN p) = 0
  BY FS_EmptySet DEF FinitePool, IsPool
<1> QED BY <1>1, InOrderFacts

\* Operations of a greater priority stand in front.
LEMMA InOrderOrdered ==
  ASSUME NEW p, FinitePool(p)
  PROVE  Queue!Ordered(InOrder(p))
<1> SUFFICES ASSUME NEW i \in DOMAIN InOrder(p), NEW j \in DOMAIN InOrder(p), i < j
             PROVE  InOrder(p)[i].priority >= InOrder(p)[j].priority
  BY DEF Queue!Ordered
<1>1. PICK t \in DOMAIN p : Rank(p, t) = i
  BY RankFacts, InOrderFacts
<1>2. PICK u \in DOMAIN p : Rank(p, u) = j
  BY RankFacts, InOrderFacts
<1>3. Before(t, u)
  BY <1>1, <1>2, RankFacts
<1>4. InOrder(p)[i].priority = t.priority /\ InOrder(p)[j].priority = u.priority
  <2>1. InOrder(p)[i] = Entry(p, t) /\ InOrder(p)[j] = Entry(p, u)
    BY <1>1, <1>2, InOrderFacts
  <2> QED BY <2>1 DEF Entry
<1>5. t.priority \in Nat /\ u.priority \in Nat
  BY ReconcilerAssumption DEF FinitePool, IsPool, Tickets, Priorities
<1> QED BY <1>3, <1>4, <1>5 DEF Before

LEMMA RemoveAtFacts ==
  ASSUME NEW S, NEW s \in Seq(S), NEW i \in 1 .. Len(s)
  PROVE  /\ Queue!RemoveAt(s, i) \in Seq(S)
         /\ Len(Queue!RemoveAt(s, i)) = Len(s) - 1
         /\ \A j \in 1 .. Len(s) - 1 :
              Queue!RemoveAt(s, i)[j] = IF j < i THEN s[j] ELSE s[j + 1]
<1> DEFINE a == SubSeq(s, 1, i - 1)
           b == SubSeq(s, i + 1, Len(s))
<1>0. Len(s) \in Nat /\ i \in Nat
  OBVIOUS
<1>1. a \in Seq(S) /\ Len(a) = i - 1 /\ \A j \in 1 .. i - 1 : a[j] = s[j]
  BY <1>0
<1>2. b \in Seq(S) /\ Len(b) = Len(s) - i /\ \A j \in 1 .. Len(s) - i : b[j] = s[i + j]
  BY <1>0
<1>3. Queue!RemoveAt(s, i) = a \o b
  BY DEF Queue!RemoveAt
<1> HIDE DEF a, b
<1>4. /\ a \o b \in Seq(S) /\ Len(a \o b) = Len(a) + Len(b)
      /\ \A j \in 1 .. Len(a) + Len(b) : (a \o b)[j] = IF j <= Len(a) THEN a[j] ELSE b[j - Len(a)]
  BY <1>1, <1>2, ConcatProperties
<1>5. Len(a) + Len(b) = Len(s) - 1
  BY <1>0, <1>1, <1>2
<1>6. ASSUME NEW j \in 1 .. Len(s) - 1 PROVE (a \o b)[j] = IF j < i THEN s[j] ELSE s[j + 1]
  <2>1. CASE j < i
    BY <1>0, <1>1, <1>4, <1>5, <2>1
  <2>2. CASE ~ (j < i)
    <3>1. j - Len(a) \in 1 .. Len(s) - i /\ i + (j - Len(a)) = j + 1 /\ ~ (j <= Len(a))
      BY <1>0, <1>1, <2>2
    <3> QED BY <1>2, <1>4, <1>5, <2>2, <3>1
  <2> QED BY <2>1, <2>2
<1> QED BY <1>3, <1>4, <1>5, <1>6

\* Taking a ticket out of the pool takes its entry out of the queue.
LEMMA InOrderDelete ==
  ASSUME NEW p, FinitePool(p), NEW t \in DOMAIN p
  PROVE  /\ FinitePool(Delete(p, t))
         /\ InOrder(Delete(p, t)) = Queue!RemoveAt(InOrder(p), Rank(p, t))
<1> DEFINE q == Delete(p, t)
           n == Cardinality(DOMAIN p)
           k == Rank(p, t)
           s == InOrder(p)
           r == Queue!RemoveAt(s, k)
<1>1. DOMAIN q = DOMAIN p \ {t} /\ \A u \in DOMAIN q : q[u] = p[u]
  BY DeleteFacts
<1>2. IsFiniteSet(DOMAIN p) /\ IsFiniteSet(DOMAIN q) /\ n \in Nat /\ Cardinality(DOMAIN q) = n - 1
  BY <1>1, FS_RemoveElement, FS_CardinalityType DEF FinitePool
<1>3. FinitePool(q)
  BY <1>1, <1>2 DEF FinitePool, IsPool
<1>4. s \in Seq(Entries) /\ Len(s) = n /\ k \in 1 .. n
  BY InOrderFacts, RankFacts
<1> HIDE DEF q, k, s, n
<1>5. /\ r \in Seq(Entries) /\ Len(r) = n - 1
      /\ \A j \in 1 .. n - 1 : r[j] = IF j < k THEN s[j] ELSE s[j + 1]
  BY <1>4, RemoveAtFacts
<1> HIDE DEF r
<1>6. ASSUME NEW u \in DOMAIN q
      PROVE  Rank(q, u) = IF Before(t, u) THEN Rank(p, u) - 1 ELSE Rank(p, u)
  <2> DEFINE A == {w \in DOMAIN p : Before(w, u)}
  <2>1. {w \in DOMAIN q : Before(w, u)} = A \ {t}
    BY <1>1
  <2>2. IsFiniteSet(A) /\ Cardinality(A) \in Nat
    BY <1>2, FS_Subset, FS_CardinalityType
  <2>3. t \in A <=> Before(t, u)
    OBVIOUS
  <2>4. Cardinality(A \ {t}) = IF t \in A THEN Cardinality(A) - 1 ELSE Cardinality(A)
    BY <2>2, FS_RemoveElement
  <2>5. Rank(p, u) = Cardinality(A) + 1 /\ Rank(q, u) = Cardinality(A \ {t}) + 1
    BY <2>1 DEF Rank
  <2> HIDE DEF A
  <2> QED BY <2>2, <2>3, <2>4, <2>5
<1>7. ASSUME NEW u \in DOMAIN q PROVE r[Rank(q, u)] = Entry(q, u)
  <2>1. u \in DOMAIN p /\ u # t /\ Entry(q, u) = Entry(p, u)
    BY <1>1 DEF Entry
  <2>2. s[Rank(p, u)] = Entry(p, u) /\ Rank(p, u) \in Nat
    BY <2>1, InOrderFacts, RankFacts DEF s, n
  <2>3. Rank(q, u) \in 1 .. n - 1
    BY <1>2, <1>3, RankFacts
  <2>4. CASE Before(t, u)
    <3>1. Rank(q, u) = Rank(p, u) - 1 /\ k < Rank(p, u)
      BY <1>6, <2>1, <2>4, RankFacts DEF k
    <3> QED BY <1>4, <1>5, <2>1, <2>2, <2>3, <3>1
  <2>5. CASE ~ Before(t, u)
    <3>1. Before(u, t)
      BY <2>1, <2>5, BeforeOrder DEF FinitePool, IsPool
    <3>2. Rank(q, u) = Rank(p, u) /\ Rank(p, u) < k
      BY <1>6, <2>1, <2>5, <3>1, RankFacts DEF k
    <3> QED BY <1>4, <1>5, <2>1, <2>2, <2>3, <3>2
  <2> QED BY <2>4, <2>5
<1>8. InOrder(q) = r
  BY <1>2, <1>3, <1>5, <1>7, InOrderUnique
<1> QED BY <1>3, <1>8 DEF q, r, s, k

\* Putting an operation under a new ticket puts its entry into the queue.
LEMMA InOrderInsert ==
  ASSUME NEW p, FinitePool(p), NEW t \in Tickets, t \notin DOMAIN p,
         NEW op \in Callers \cup {RuleOp}
  PROVE  LET q == Insert(p, t, op)
         IN  /\ FinitePool(q) /\ t \in DOMAIN q
             /\ Rank(q, t) \in DOMAIN InOrder(q)
             /\ InOrder(q)[Rank(q, t)] = [op |-> op, priority |-> t.priority]
             /\ Queue!RemoveAt(InOrder(q), Rank(q, t)) = InOrder(p)
<1> DEFINE q == Insert(p, t, op)
           w == Delete(q, t)
<1>1. DOMAIN q = DOMAIN p \cup {t} /\ q[t] = op /\ \A u \in DOMAIN p : q[u] = p[u]
  BY DEF Insert
<1>2. FinitePool(q)
  BY <1>1, FS_AddElement, InsertPool DEF FinitePool
<1> HIDE DEF q
<1>3. DOMAIN w = DOMAIN p /\ \A u \in DOMAIN p : w[u] = p[u]
  BY <1>1 DEF Delete
<1>4. InOrder(w) = InOrder(p)
  BY <1>3, InOrderSame
<1>5. InOrder(w) = Queue!RemoveAt(InOrder(q), Rank(q, t))
  BY <1>1, <1>2, InOrderDelete
<1>6. Rank(q, t) \in DOMAIN InOrder(q) /\ InOrder(q)[Rank(q, t)] = Entry(q, t)
  BY <1>1, <1>2, InOrderFacts, RankFacts
<1>7. Entry(q, t) = [op |-> op, priority |-> t.priority]
  BY <1>1 DEF Entry
<1> QED BY <1>1, <1>2, <1>4, <1>5, <1>6, <1>7 DEF q

WithOp(s, k, op) == [s EXCEPT ![k].op = op]

\* Putting one under a ticket in use changes its entry.
LEMMA InOrderReplace ==
  ASSUME NEW p, FinitePool(p), NEW t \in DOMAIN p, NEW op \in Callers \cup {RuleOp}
  PROVE  LET q == Insert(p, t, op)
             k == Rank(p, t)
         IN  /\ FinitePool(q) /\ DOMAIN q = DOMAIN p /\ Rank(q, t) = k
             /\ k \in DOMAIN InOrder(p) /\ DOMAIN InOrder(q) = DOMAIN InOrder(p)
             /\ InOrder(q) = WithOp(InOrder(p), k, op)
             /\ InOrder(q)[k] = [op |-> op, priority |-> t.priority]
             /\ Queue!RemoveAt(InOrder(q), k) = Queue!RemoveAt(InOrder(p), k)
<1> DEFINE q == Insert(p, t, op)
           k == Rank(p, t)
           s == InOrder(p)
<1>0. t \in Tickets
  BY DEF FinitePool, IsPool
<1>1. DOMAIN q = DOMAIN p /\ q[t] = op /\ \A u \in DOMAIN p : u # t => q[u] = p[u]
  BY DEF Insert
<1>2. FinitePool(q)
  BY <1>0, <1>1, InsertPool DEF FinitePool
<1>3. \A u : Rank(q, u) = Rank(p, u)
  BY <1>1 DEF Rank
<1> HIDE DEF q
<1>4. k \in DOMAIN s /\ s[k] = Entry(p, t) /\ DOMAIN InOrder(q) = DOMAIN s
  BY <1>1, <1>2, InOrderFacts, RankFacts
<1>5. InOrder(q)[k] = Entry(q, t)
  BY <1>1, <1>2, <1>3, InOrderFacts
<1>6. Entry(q, t) = [op |-> op, priority |-> t.priority] /\ Entry(q, t) = [Entry(p, t) EXCEPT !.op = op]
  BY <1>1 DEF Entry
<1>7. ASSUME NEW i \in DOMAIN s, i # k PROVE InOrder(q)[i] = s[i]
  <2>1. PICK u \in DOMAIN p : Rank(p, u) = i
    BY InOrderFacts, RankFacts
  <2>2. u # t
    BY <1>7, <2>1
  <2>3. Entry(q, u) = Entry(p, u)
    BY <1>1, <2>2 DEF Entry
  <2>4. InOrder(q)[i] = Entry(q, u) /\ s[i] = Entry(p, u)
    BY <1>1, <1>2, <1>3, <2>1, InOrderFacts
  <2> QED BY <2>3, <2>4
<1>8. InOrder(q) = WithOp(s, k, op)
  <2>1. s \in Seq(Entries) /\ InOrder(q) \in Seq(Entries)
    BY <1>2, InOrderFacts
  <2> DEFINE r == [s EXCEPT ![k] = Entry(q, t)]
  <2>2. InOrder(q) = r
    BY <1>4, <1>5, <1>7, <2>1
  <2>3. r = [s EXCEPT ![k] = [s[k] EXCEPT !.op = op]]
    BY <1>4, <1>6
  <2> HIDE DEF r, s, k
  <2> QED BY <2>2, <2>3 DEF WithOp
<1>9. Queue!RemoveAt(InOrder(q), k) = Queue!RemoveAt(s, k)
  <2>1. InOrder(Delete(q, t)) = Queue!RemoveAt(InOrder(q), k)
    BY <1>1, <1>2, <1>3, InOrderDelete
  <2>2. InOrder(Delete(p, t)) = Queue!RemoveAt(s, k) /\ FinitePool(Delete(p, t))
    BY InOrderDelete
  <2>3. /\ DOMAIN Delete(q, t) = DOMAIN Delete(p, t)
        /\ \A u \in DOMAIN Delete(p, t) : Delete(q, t)[u] = Delete(p, t)[u]
    BY <1>1 DEF Delete
  <2>4. InOrder(Delete(q, t)) = InOrder(Delete(p, t))
    BY <2>2, <2>3, InOrderSame
  <2> QED BY <2>1, <2>2, <2>4
<1> QED BY <1>1, <1>2, <1>3, <1>4, <1>5, <1>6, <1>8, <1>9 DEF q

\* commit hands out the front of the queue.
LEMMA FirstIsFront ==
  ASSUME NEW p, FinitePool(p), DOMAIN p # {}
  PROVE  /\ First(p) \in DOMAIN p
         /\ FinitePool(Delete(p, First(p)))
         /\ InOrder(p) # << >> /\ InOrder(Delete(p, First(p))) = Tail(InOrder(p))
<1> DEFINE n == Cardinality(DOMAIN p)
           f == First(p)
           s == InOrder(p)
<1>1. n \in Nat /\ n # 0
  BY RankFacts, FS_EmptySet DEF FinitePool
<1>2. PICK t \in DOMAIN p : Rank(p, t) = 1
  BY <1>1, RankFacts
<1>3. \A u \in DOMAIN p : u = t \/ Before(t, u)
  <2> SUFFICES ASSUME NEW u \in DOMAIN p, u # t PROVE Before(t, u)
    OBVIOUS
  <2>1. Rank(p, u) \in 1 .. n /\ Rank(p, u) # 1
    BY <1>2, RankFacts
  <2>2. 1 < Rank(p, u)
    BY <1>1, <2>1
  <2> QED BY <1>2, <2>2, RankFacts
<1>4. f \in DOMAIN p /\ \A u \in DOMAIN p : u = f \/ Before(f, u)
  BY <1>3 DEF First
<1>5. f = t
  BY <1>3, <1>4, BeforeOrder DEF FinitePool, IsPool
<1> HIDE DEF f
<1>6. FinitePool(Delete(p, f)) /\ InOrder(Delete(p, f)) = Queue!RemoveAt(s, 1)
  BY <1>2, <1>5, InOrderDelete
<1>7. s \in Seq(Entries) /\ Len(s) = n
  BY InOrderFacts
<1> HIDE DEF s, n
<1>8. 1 \in 1 .. Len(s) /\ s # << >>
  BY <1>1, <1>7
<1>9. /\ Queue!RemoveAt(s, 1) \in Seq(Entries) /\ Len(Queue!RemoveAt(s, 1)) = Len(s) - 1
      /\ \A j \in 1 .. Len(s) - 1 : Queue!RemoveAt(s, 1)[j] = s[j + 1]
  BY <1>7, <1>8, RemoveAtFacts
<1>10. /\ Tail(s) \in Seq(Entries) /\ Len(Tail(s)) = Len(s) - 1
       /\ \A j \in 1 .. Len(s) - 1 : Tail(s)[j] = s[j + 1]
  BY <1>7, <1>8
<1>11. Queue!RemoveAt(s, 1) = Tail(s)
  BY <1>9, <1>10, SeqEqual
<1> QED BY <1>4, <1>6, <1>8, <1>11 DEF f, s

-----------------------------------------------------------------------------
\* The pools are finite, and the ticket of the incoming operation is younger
\* than all others.
QueueInv ==
  /\ FinitePool(pending) /\ FinitePool(batch)
  /\ pc = "rule" =>
       /\ incoming.ticket \in Tickets
       /\ \A u \in issued : u = incoming.ticket \/ u.index < incoming.ticket.index

LEMMA InitQueue == Init => QueueInv
BY EmptyFacts, InOrderEmpty DEF Init, QueueInv

LEMMA DeleteFinite ==
  ASSUME NEW p, FinitePool(p), NEW t
  PROVE  FinitePool(Delete(p, t))
<1>1. DOMAIN Delete(p, t) = DOMAIN p \ {t}
  BY DEF Delete
<1>2. IsFiniteSet(DOMAIN p \ {t})
  BY FS_RemoveElement DEF FinitePool
<1> QED BY <1>1, <1>2, DeletePool DEF FinitePool

LEMMA InsertFinite ==
  ASSUME NEW p, FinitePool(p), NEW t \in Tickets, NEW op \in Callers \cup {RuleOp}
  PROVE  FinitePool(Insert(p, t, op))
<1>1. DOMAIN Insert(p, t, op) = DOMAIN p \cup {t}
  BY DEF Insert
<1>2. IsFiniteSet(DOMAIN p \cup {t})
  BY FS_AddElement DEF FinitePool
<1> QED BY <1>1, <1>2, InsertPool DEF FinitePool

LEMMA StepQueue == Typed /\ TicketsFresh /\ QueueInv /\ [Next]_vars => QueueInv'
<1> SUFFICES ASSUME Typed, TicketsFresh, QueueInv, [Next]_vars PROVE QueueInv'
  OBVIOUS
<1>0. /\ next_ticket \in 0 .. Indices - 1 /\ issued \subseteq Tickets
      /\ incoming \in [ticket : Tickets \cup {0}, op : Nat, left : Seq(RuleTypes), keep : BOOLEAN]
      /\ pc = "rule" => incoming.op \in Callers
      /\ FinitePool(pending) /\ FinitePool(batch) /\ FinitePool(Empty)
  BY EmptyFacts, InOrderEmpty DEF Typed, PoolOK, IncomingOK, QueueInv
<1>1. ASSUME NEW p \in Priorities, stage(p) PROVE QueueInv'
  <2> DEFINE t == [index |-> next_ticket, priority |-> p]
  <2>1. /\ issued' = issued \cup {t} /\ incoming'.ticket = t /\ UNCHANGED <<pending, batch>>
    BY <1>1 DEF stage
  <2>2. t \in Tickets /\ \A u \in issued : u.index < t.index
    BY <1>0 DEF Tickets, TicketsFresh, NextIsFree
  <2> HIDE DEF t
  <2> QED BY <1>0, <2>1, <2>2 DEF QueueInv
<1>2. CASE stage_overflows
  BY <1>0, <1>2 DEF stage_overflows, QueueInv, pool, staging
<1>3. CASE rule_panics
  BY <1>0, <1>3 DEF rule_panics, QueueInv, pool
<1>4. CASE staged
  <2>1. pending' = pending \/ pending' = Insert(pending, incoming.ticket, incoming.op)
    BY <1>4 DEF staged
  <2>2. FinitePool(pending') /\ batch' = batch /\ pc' = "rest"
    BY <1>0, <1>4, <2>1, InsertFinite DEF staged, QueueInv
  <2> QED BY <1>0, <2>2 DEF QueueInv
<1>5. ASSUME NEW t \in issued, rule_unstages(t) \/ rule_replaces(t) \/ unstage(t) PROVE QueueInv'
  <2>1. /\ UNCHANGED <<issued, staging, batch>>
        /\ pending' = Delete(pending, t) \/ pending' = Insert(pending, t, RuleOp)
    BY <1>5 DEF rule_unstages, rule_replaces, unstage
  <2>2. FinitePool(pending')
    BY <1>0, <2>1, DeleteFinite, InsertFinite
  <2> QED BY <1>0, <2>1, <2>2 DEF QueueInv, staging
<1>6. ASSUME NEW brk \in BOOLEAN, NEW drop \in BOOLEAN, rule_answers(brk, drop) PROVE QueueInv'
  <2>1. incoming'.ticket = incoming.ticket
    BY <1>0, <1>6 DEF rule_answers
  <2> QED BY <1>0, <1>6, <2>1 DEF rule_answers, QueueInv, pool
<1>7. CASE clear
  BY <1>0, <1>7 DEF clear, QueueInv, staging
<1>8. CASE commit
  BY <1>0, <1>8 DEF commit, QueueInv
<1>9. CASE apply
  <2>1. FinitePool(batch')
    BY <1>0, <1>9, DeleteFinite DEF apply
  <2> QED BY <1>0, <1>9, <2>1 DEF apply, QueueInv, pool, staging
<1>10. CASE apply_panics \/ committed
  BY <1>0, <1>10 DEF apply_panics, committed, QueueInv, pool
<1>11. ASSUME NEW now, NEW meant, SetRules(now, meant) PROVE QueueInv'
  BY <1>0, <1>11 DEF SetRules, QueueInv, pool, staging
<1>12. CASE UNCHANGED vars
  BY <1>0, <1>12 DEF vars, QueueInv, pool, staging
<1> QED
  BY <1>1, <1>2, <1>3, <1>4, <1>5, <1>6, <1>7, <1>8, <1>9, <1>10, <1>11, <1>12
  DEF Next, add_rule, remove_rule, clear_rules

\* The end of stage is Enqueue: what comes after the new ticket has a lower
\* priority, and what it displaces is an operation of a rule.
LEMMA StagedEnqueues ==
  ASSUME Typed, TicketsFresh, QueueInv, staged, incoming.keep
  PROVE  Queue!Enqueue /\ FinitePool(pending')
<1> DEFINE t == incoming.ticket
           op == incoming.op
           s == InOrder(pending)
           r == InOrder(pending')
           k == Rank(pending', t)
<1>1. /\ pc = "rule" /\ pending' = Insert(pending, t, op) /\ batch' = batch
      /\ t \in Tickets /\ op \in Callers
      /\ FinitePool(pending) /\ FinitePool(batch) /\ DOMAIN pending \subseteq issued
      /\ issued \subseteq Tickets
  BY DEF staged, Typed, PoolOK, QueueInv
<1>2. op # RuleOp
  BY <1>1 DEF Callers, RuleOp
<1>3. /\ FinitePool(pending') /\ k \in DOMAIN r
      /\ r[k] = [op |-> op, priority |-> t.priority]
      /\ Queue!RemoveAt(r, k) \in Queue!Places
  <2>1. CASE t \notin DOMAIN pending
    BY <1>1, <2>1, InOrderInsert DEF Queue!Places
  <2>2. CASE t \in DOMAIN pending
    <3>1. pending[t] = RuleOp
      BY <1>1, <2>2 DEF TicketsFresh, NextIsFree
    <3>2. /\ FinitePool(pending') /\ k = Rank(pending, t) /\ k \in DOMAIN s /\ k \in DOMAIN r
          /\ r[k] = [op |-> op, priority |-> t.priority]
          /\ Queue!RemoveAt(r, k) = Queue!RemoveAt(s, k)
      BY <1>1, <2>2, InOrderReplace
    <3>3. s[k] = Entry(pending, t)
      BY <1>1, <2>2, <3>2, InOrderFacts
    <3>4. s[k].op = RuleOp
      BY <3>1, <3>3 DEF Entry
    <3> QED BY <3>2, <3>4 DEF Queue!Places
  <2> QED BY <2>1, <2>2
<1>4. DOMAIN pending' = DOMAIN pending \cup {t}
  BY <1>1 DEF Insert
<1>5. ASSUME NEW j \in k + 1 .. Len(r) PROVE r[j].priority < r[k].priority
  <2>0. Len(r) \in Nat /\ DOMAIN r = 1 .. Len(r) /\ k \in 1 .. Len(r)
    BY <1>3, InOrderFacts, RankFacts
  <2>1. j \in 1 .. Len(r) /\ k < j
    BY <2>0
  <2>2. PICK u \in DOMAIN pending' : Rank(pending', u) = j
    BY <1>3, <2>1, InOrderFacts, RankFacts
  <2>3. Before(t, u) /\ u # t
    BY <1>3, <1>4, <2>1, <2>2, RankFacts
  <2>4. u \in issued /\ u.index < t.index
    BY <1>1, <1>4, <2>3 DEF QueueInv
  <2>5. u \in Tickets /\ u.index \in Nat /\ t.index \in Nat /\ u.priority \in Nat /\ t.priority \in Nat
    BY <1>1, <2>4, ReconcilerAssumption DEF Tickets, Priorities
  <2>6. u.priority < t.priority
    BY <2>3, <2>4, <2>5 DEF Before
  <2>7. r[j] = Entry(pending', u)
    BY <1>3, <2>2, InOrderFacts
  <2>8. r[j].priority = u.priority /\ r[k].priority = t.priority
    BY <1>3, <2>7 DEF Entry
  <2> QED BY <2>6, <2>8
<1>6. r[k].op # RuleOp
  BY <1>2, <1>3
<1> QED BY <1>1, <1>3, <1>5, <1>6 DEF Queue!Enqueue

\* Every step is one of the queue's, or none.
LEMMA StepImplements ==
  ASSUME Typed, TicketsFresh, QueueInv, QueueInv', [Next]_vars
  PROVE  [Queue!Next]_<<InOrder(pending), InOrder(batch)>>
<1>0. /\ FinitePool(pending) /\ FinitePool(batch) /\ FinitePool(pending') /\ FinitePool(batch')
      /\ pc # "apply" => DOMAIN batch = {}
      /\ issued \subseteq Tickets
      /\ DOMAIN pending \subseteq issued
  BY DEF QueueInv, Typed, PoolOK
<1>1. Queue!Ordered(InOrder(pending'))
  BY <1>0, InOrderOrdered
<1>2. ASSUME UNCHANGED <<pending, batch>>
      PROVE  UNCHANGED <<InOrder(pending), InOrder(batch)>>
  BY <1>2
<1>3. CASE staged
  <2>1. CASE incoming.keep
    <3>1. Queue!Enqueue
      BY <1>3, <2>1, StagedEnqueues
    <3> QED BY <1>1, <3>1 DEF Queue!Next
  <2>2. CASE ~ incoming.keep
    BY <1>2, <1>3, <2>2 DEF staged
  <2> QED BY <2>1, <2>2
<1>4. ASSUME NEW t \in issued, pending' = Delete(pending, t), batch' = batch
      PROVE  [Queue!Next]_<<InOrder(pending), InOrder(batch)>>
  <2>1. CASE t \in DOMAIN pending
    <3> DEFINE k == Rank(pending, t)
    <3>1. k \in DOMAIN InOrder(pending)
      BY <1>0, <2>1, InOrderFacts, RankFacts
    <3>2. InOrder(pending') = Queue!RemoveAt(InOrder(pending), k)
      BY <1>0, <1>4, <2>1, InOrderDelete
    <3> HIDE DEF k
    <3>3. Queue!Withdraw
      BY <1>4, <3>1, <3>2 DEF Queue!Withdraw
    <3> QED BY <1>1, <3>3 DEF Queue!Next
  <2>2. CASE t \notin DOMAIN pending
    <3>1. DOMAIN pending' = DOMAIN pending /\ \A u \in DOMAIN pending : pending'[u] = pending[u]
      BY <1>4, <2>2 DEF Delete
    <3>2. InOrder(pending') = InOrder(pending)
      BY <1>0, <3>1, InOrderSame
    <3> QED BY <1>4, <3>2
  <2> QED BY <2>1, <2>2
<1>5. ASSUME NEW t \in issued, rule_replaces(t)
      PROVE  [Queue!Next]_<<InOrder(pending), InOrder(batch)>>
  <2>0. pending' = Insert(pending, t, RuleOp) /\ batch' = batch /\ t \in Tickets
    BY <1>0, <1>5 DEF rule_replaces
  <2>1. CASE t \in DOMAIN pending
    <3> DEFINE k == Rank(pending, t)
    <3>1. /\ k \in DOMAIN InOrder(pending)
          /\ InOrder(pending') = WithOp(InOrder(pending), k, RuleOp)
      BY <1>0, <2>0, <2>1, InOrderReplace, ZenonT(30)
    <3> HIDE DEF k
    <3>2. Queue!Substitute
      BY <2>0, <3>1 DEF Queue!Substitute, WithOp
    <3> QED BY <1>1, <3>2 DEF Queue!Next
  <2>2. CASE t \notin DOMAIN pending
    <3> DEFINE k == Rank(pending', t)
    <3>1. /\ k \in DOMAIN InOrder(pending')
          /\ InOrder(pending')[k] = [op |-> RuleOp, priority |-> t.priority]
          /\ Queue!RemoveAt(InOrder(pending'), k) = InOrder(pending)
      BY <1>0, <2>0, <2>2, InOrderInsert
    <3> HIDE DEF k
    <3>2. InOrder(pending')[k].op = RuleOp
      BY <3>1
    <3>3. Queue!Slip
      BY <2>0, <3>1, <3>2 DEF Queue!Slip
    <3> QED BY <1>1, <3>3 DEF Queue!Next
  <2> QED BY <2>1, <2>2
<1>6. CASE clear
  <2>1. InOrder(pending') = << >> /\ batch' = batch
    BY <1>6, EmptyFacts, InOrderEmpty DEF clear
  <2>2. Queue!Clear
    BY <2>1 DEF Queue!Clear
  <2> QED BY <1>1, <2>2 DEF Queue!Next
<1>7. CASE commit
  <2>1. /\ InOrder(pending') = << >> /\ InOrder(batch) = << >> /\ InOrder(batch') = InOrder(pending)
    BY <1>0, <1>7, EmptyFacts, InOrderEmpty DEF commit
  <2>2. Queue!Take
    BY <2>1 DEF Queue!Take
  <2> QED BY <1>1, <2>2 DEF Queue!Next
<1>8. CASE apply
  <2>1. DOMAIN batch # {} /\ batch' = Delete(batch, First(batch)) /\ pending' = pending
    BY <1>8 DEF apply, pool
  <2>2. InOrder(batch) # << >> /\ InOrder(batch') = Tail(InOrder(batch))
    BY <1>0, <2>1, FirstIsFront
  <2>3. Queue!HandOut
    BY <2>1, <2>2 DEF Queue!HandOut
  <2> QED BY <1>1, <2>3 DEF Queue!Next
<1>9. CASE apply_panics
  <2>1. InOrder(batch') = << >> /\ pending' = pending
    BY <1>9, EmptyFacts, InOrderEmpty DEF apply_panics, pool
  <2>2. Queue!Abandon
    BY <2>1 DEF Queue!Abandon
  <2> QED BY <1>1, <2>2 DEF Queue!Next
<1>10. ASSUME NEW p \in Priorities, stage(p) PROVE UNCHANGED <<pending, batch>>
  BY <1>10 DEF stage
<1>11. ASSUME NEW brk \in BOOLEAN, NEW drop \in BOOLEAN, rule_answers(brk, drop)
       PROVE  UNCHANGED <<pending, batch>>
  BY <1>11 DEF rule_answers, pool
<1>12. ASSUME stage_overflows \/ rule_panics \/ committed \/ UNCHANGED vars
       PROVE  UNCHANGED <<pending, batch>>
  BY <1>12 DEF stage_overflows, rule_panics, committed, vars, pool
<1>13. ASSUME NEW now, NEW meant, SetRules(now, meant) PROVE UNCHANGED <<pending, batch>>
  BY <1>13 DEF SetRules, pool
<1>14. ASSUME NEW t \in issued, rule_unstages(t) \/ unstage(t)
       PROVE  pending' = Delete(pending, t) /\ batch' = batch
  BY <1>14 DEF rule_unstages, unstage
<1> QED
  BY <1>2, <1>3, <1>4, <1>5, <1>6, <1>7, <1>8, <1>9, <1>10, <1>11, <1>12, <1>13, <1>14
  DEF Next, add_rule, remove_rule, clear_rules

\* As long as the ticket counter does not wrap, the reconciler is a queue
\* ordered by priority and, among equals, by the time of staging, whatever
\* rules do to the pool and whoever panics, for any number of operations.
THEOREM ReconcilerImplements ==
  ASSUME Overflow = "panic"
  PROVE  Spec => ImplementsOpQueue
<1> DEFINE Inv == Typed /\ TicketsFresh /\ QueueInv
<1>1. Init => Inv
  <2>1. Init => TicketsFresh
    BY DEF Init, TicketsFresh, NextIsFree
  <2> QED BY <2>1, InitTyped, InitQueue
<1>2. Inv /\ [Next]_vars => Inv'
  BY StepTyped, StepFresh, StepQueue
<1>3. Init => Queue!Init
  BY EmptyFacts, InOrderEmpty DEF Init, Queue!Init
<1>4. Inv /\ Inv' /\ [Next]_vars => [Queue!Next]_<<InOrder(pending), InOrder(batch)>>
  BY StepImplements
<1> HIDE DEF Inv
<1> QED BY <1>1, <1>2, <1>3, <1>4, PTL DEF Spec, ImplementsOpQueue, Queue!Spec
=============================================================================
