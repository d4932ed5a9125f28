------------------------------ MODULE Reconciler ------------------------------
(***************************************************************************)
(* maokai-reconciler: the pool of staged operations, and the rules that    *)
(* look at every operation that comes in.                                  *)
(*                                                                         *)
(* Rules and the closure given to commit are user code: they run while the *)
(* reconciler is borrowed, so a call is not atomic but nothing else gets   *)
(* in between.  A rule may do to the pool what RuleAccess lets it do, in   *)
(* any order, and give any answer.  The n-th operation a caller stages is  *)
(* the number n; RuleOp stands for all those that rules make.  What a rule *)
(* changes inside an operation (get_mut) is data and left out.             *)
(***************************************************************************)
EXTENDS Naturals, Sequences, FiniteSets

CONSTANTS
  MaxPriority,       \* the greatest ticket priority (u32::MAX)
  RuleTypes,         \* TypeIds of rules
  Indices,           \* how many values next_ticket has (2^32)
  Overflow,          \* "panic" (debug build) or "wrap" (release build)
  Panics,            \* user code that may panic: "rule", "apply"
  MaxOps             \* bound: operations staged by callers

Priorities == 0 .. MaxPriority
RuleOp == 0
Callers == 1 .. MaxOps           \* operations of callers

ASSUME ReconcilerAssumption ==
  /\ MaxPriority \in Nat
  /\ Indices \in Nat \ {0}
  /\ Overflow \in {"panic", "wrap"}
  /\ Panics \subseteq {"rule", "apply"}
  /\ MaxOps \in Nat

VARIABLES
  next_ticket, rules, pending,
  pc,                \* "rest", in stage_boxed: "rule", in commit: "apply"
  incoming,          \* in stage_boxed: ticket, operation, rules still to ask
  taken,             \* in stage_boxed: the rules, moved out of the reconciler
  batch,             \* what commit is handing out
  issued,            \* tickets that callers and rules may know
  made,              \* operations staged so far
  handed, gone,      \* ghost: operations applied; withdrawn by a caller, a
                     \* rule or a panic
  installed          \* ghost: the rules, as add_rule, remove_rule and the
                     \* panics of rules left them

pool == <<next_ticket, pending, issued>>
staging == <<pc, incoming, taken>>
history == <<made, handed, gone>>
vars == <<pool, staging, batch, rules, installed, history>>

Tickets == [index : 0 .. Indices - 1, priority : Priorities]

\* (mutant) the lesser priority first.
LowestFirst(t, u) ==
  \/ t.priority < u.priority
  \/ t.priority = u.priority /\ t.index < u.index

\* Ticket::cmp
Before(t, u) ==
  \/ t.priority > u.priority
  \/ t.priority = u.priority /\ t.index < u.index

Insert(p, t, op) == [u \in DOMAIN p \cup {t} |-> IF u = t THEN op ELSE p[u]]
Delete(p, t) == [u \in DOMAIN p \ {t} |-> p[u]]
Empty == [u \in {} |-> RuleOp]
Contents(p) == {p[t] : t \in DOMAIN p}

NoOp == [ticket |-> 0, op |-> RuleOp, left |-> << >>, keep |-> FALSE]

-----------------------------------------------------------------------------
(* stage_boxed                                                             *)

\* (mutant) the counter stays where it is.
Stuck(n) == n

Successor(n) == (n + 1) % Indices

\* The rules are moved out, so that they can be given the reconciler.
stage(p) ==
  /\ pc = "rest" /\ made < MaxOps
  /\ next_ticket # Indices - 1 \/ Overflow = "wrap"
  /\ LET t == [index |-> next_ticket, priority |-> p]
     IN  /\ incoming' = [ticket |-> t, op |-> made + 1, left |-> rules, keep |-> TRUE]
         /\ issued' = issued \cup {t}
  /\ next_ticket' = Successor(next_ticket)
  /\ taken' = rules /\ rules' = << >>
  /\ pc' = "rule" /\ made' = made + 1
  /\ UNCHANGED <<pending, batch, installed, handed, gone>>

\* `self.next_ticket += 1' overflows in a debug build.
stage_overflows ==
  /\ pc = "rest" /\ made < MaxOps
  /\ next_ticket = Indices - 1 /\ Overflow = "panic"
  /\ made' = made + 1 /\ gone' = gone \cup {made + 1}
  /\ UNCHANGED <<pool, staging, batch, rules, installed, handed>>

InRule == pc = "rule" /\ incoming.left # << >>

Displace(t) == gone' = gone \cup (IF t \in DOMAIN pending THEN {pending[t]} ELSE {})

\* RuleAccess::unstage
rule_unstages(t) ==
  /\ InRule /\ pending' = Delete(pending, t) /\ Displace(t)
  /\ UNCHANGED <<next_ticket, issued, staging, batch, rules, installed, made, handed>>

\* RuleAccess::replace, which takes any ticket
rule_replaces(t) ==
  /\ InRule /\ pending' = Insert(pending, t, RuleOp) /\ Displace(t)
  /\ UNCHANGED <<next_ticket, issued, staging, batch, rules, installed, made, handed>>

\* (mutant) a dropped operation goes on to the next rule, which may keep it.
AnswersOverride(brk, drop) ==
  /\ InRule
  /\ incoming' = [incoming EXCEPT !.keep = ~ drop,
                                  !.left = IF brk THEN << >> ELSE Tail(@)]
  /\ gone' = IF drop THEN gone \cup {incoming.op} ELSE gone
  /\ UNCHANGED <<pool, pc, taken, batch, rules, installed, made, handed>>

\* The answer: Continue or Break, Keep or Drop.
rule_answers(brk, drop) ==
  /\ InRule
  /\ incoming' = [incoming EXCEPT !.keep = @ /\ ~ drop,
                                  !.left = IF brk \/ drop THEN << >> ELSE Tail(@)]
  /\ gone' = IF drop THEN gone \cup {incoming.op} ELSE gone
  /\ UNCHANGED <<pool, pc, taken, batch, rules, installed, made, handed>>

\* Unwinding drops the operation, and with it the rules that were moved out.
rule_panics ==
  /\ InRule /\ "rule" \in Panics
  /\ gone' = gone \cup {incoming.op}
  /\ pc' = "rest" /\ incoming' = NoOp /\ taken' = << >> /\ installed' = << >>
  /\ UNCHANGED <<pool, batch, rules, made, handed>>

\* (mutant) the rules are not put back.
StagedWithoutRules ==
  /\ pc = "rule" /\ incoming.left = << >>
  /\ pending' = IF incoming.keep
                 THEN Insert(pending, incoming.ticket, incoming.op) ELSE pending
  /\ pc' = "rest" /\ incoming' = NoOp /\ taken' = << >>
  /\ UNCHANGED <<next_ticket, issued, batch, rules, installed, history>>

\* All rules asked, or the pipeline was left.
staged ==
  /\ pc = "rule" /\ incoming.left = << >>
  /\ pending' = IF incoming.keep
                 THEN Insert(pending, incoming.ticket, incoming.op) ELSE pending
  /\ rules' = taken
  /\ pc' = "rest" /\ incoming' = NoOp /\ taken' = << >>
  /\ UNCHANGED <<next_ticket, issued, batch, installed, history>>

-----------------------------------------------------------------------------
(* The other calls.                                                        *)

unstage(t) ==
  /\ pc = "rest" /\ pending' = Delete(pending, t) /\ Displace(t)
  /\ UNCHANGED <<next_ticket, issued, staging, batch, rules, installed, made, handed>>

clear ==
  /\ pc = "rest" /\ pending' = Empty /\ gone' = gone \cup Contents(pending)
  /\ UNCHANGED <<next_ticket, issued, staging, batch, rules, installed, made, handed>>

commit ==
  /\ pc = "rest"
  /\ batch' = pending /\ pending' = Empty /\ pc' = "apply"
  /\ UNCHANGED <<next_ticket, issued, incoming, taken, rules, installed, history>>

\* BTreeMap's iterator.
First(p) == CHOOSE t \in DOMAIN p : \A u \in DOMAIN p : u = t \/ Before(t, u)

apply ==
  /\ pc = "apply" /\ DOMAIN batch # {}
  /\ LET t == First(batch)
     IN  batch' = Delete(batch, t) /\ handed' = handed \cup {batch[t]}
  /\ UNCHANGED <<pool, staging, rules, installed, made, gone>>

\* Unwinding drops the iterator with all that was not handed out yet.
apply_panics ==
  /\ pc = "apply" /\ "apply" \in Panics /\ DOMAIN batch # {}
  /\ gone' = gone \cup Contents(batch) /\ batch' = Empty /\ pc' = "rest"
  /\ UNCHANGED <<pool, incoming, taken, rules, installed, made, handed>>

committed ==
  /\ pc = "apply" /\ DOMAIN batch = {}
  /\ pc' = "rest"
  /\ UNCHANGED <<pool, incoming, taken, batch, rules, installed, history>>

Position(s, r) == {i \in DOMAIN s : s[i] = r}      \* at most one

\* (mutant) a rule of the same type is added once more.
Pushed(s, r) == Append(s, r)

\* Replaces the rule of the same type, in its place, if there is one.
Added(s, r) == IF Position(s, r) # {} THEN s ELSE Append(s, r)

Without(s, r) ==
  IF Position(s, r) = {} THEN s
  ELSE LET i == CHOOSE j \in Position(s, r) : TRUE
       IN  SubSeq(s, 1, i - 1) \o SubSeq(s, i + 1, Len(s))

SetRules(now, meant) ==
  /\ pc = "rest" /\ rules' = now /\ installed' = meant
  /\ UNCHANGED <<pool, staging, batch, history>>

add_rule(r) == SetRules(Added(rules, r), Added(installed, r))
remove_rule(r) == SetRules(Without(rules, r), Without(installed, r))
clear_rules == SetRules(<< >>, << >>)

-----------------------------------------------------------------------------
Init ==
  /\ next_ticket = 0 /\ rules = << >> /\ pending = Empty
  /\ pc = "rest" /\ incoming = NoOp /\ taken = << >>
  /\ batch = Empty /\ issued = {} /\ installed = << >>
  /\ made = 0 /\ handed = {} /\ gone = {}

Next ==
  \/ \E p \in Priorities : stage(p)
  \/ stage_overflows \/ rule_panics \/ staged
  \/ \E t \in issued : rule_unstages(t) \/ rule_replaces(t) \/ unstage(t)
  \/ \E brk, drop \in BOOLEAN : rule_answers(brk, drop)
  \/ clear \/ commit \/ apply \/ apply_panics \/ committed
  \/ \E r \in RuleTypes : add_rule(r) \/ remove_rule(r)
  \/ clear_rules

Spec == Init /\ [][Next]_vars

-----------------------------------------------------------------------------
IsPool(p) ==
  \A t \in DOMAIN p : t \in Tickets /\ p[t] \in Callers \cup {RuleOp}

PoolOK ==
  /\ next_ticket \in 0 .. Indices - 1
  /\ made \in 0 .. MaxOps
  /\ issued \subseteq Tickets
  /\ IsPool(pending) /\ IsPool(batch)
  /\ DOMAIN pending \cup DOMAIN batch \subseteq issued
  /\ pc \in {"rest", "rule", "apply"}
  /\ pc # "apply" => DOMAIN batch = {}
  /\ pc = "rule" => incoming.ticket \in issued /\ incoming.op \in Callers
  /\ \A s \in {rules, taken, installed} :
       s \in Seq(RuleTypes) /\ \A i, j \in DOMAIN s : s[i] = s[j] => i = j

\* The counter is ahead of every ticket that was ever issued.
NextIsFree == \A t \in issued : t.index < next_ticket

\* Tickets that are in use were issued, and no rule is there twice.  While the
\* counter does not wrap, the ticket that stage draws next is one that nobody
\* has, so that its operation cannot be taken for another.
TypeOK == PoolOK /\ (Overflow = "panic" => NextIsFree)

\* Every operation that was staged is applied, or still there, or somebody
\* has taken it out: no ticket is given twice, so that an insertion replaces
\* an operation only where a rule says so ("The machine repeatedly commits
\* that work until no more operations remain to be processed").
NoOpLost ==
  \A op \in 1 .. made :
    \/ op \in handed \cup gone \cup Contents(pending) \cup Contents(batch)
    \/ pc = "rule" /\ incoming.op = op

\* An operation is applied at most once, and never after it was withdrawn.
AppliedOnce ==
  \A op \in 1 .. made :
    op \in handed => op \notin gone \cup Contents(pending) \cup Contents(batch)

\* Between calls the rules are those that were installed ("Subsequent
\* RequestTransitionOps use the new policy", set_transition_arbiter): staging
\* moves them out and puts them back.  Only a panic of a rule loses them, all
\* at once; rules added after it stay.
RulesAsInstalled == pc # "rule" => rules = installed

-----------------------------------------------------------------------------
(* The pool as a queue: the ticket that n others come before is the entry  *)
(* number n + 1.                                                           *)

Rank(p, t) == Cardinality({u \in DOMAIN p : Before(u, t)}) + 1
Entry(p, t) == [op |-> p[t], priority |-> t.priority]
InOrder(p) ==
  [n \in 1 .. Cardinality(DOMAIN p) |->
     Entry(p, CHOOSE t \in DOMAIN p : Rank(p, t) = n)]

Queue == INSTANCE OpQueue WITH queue <- InOrder(pending), out <- InOrder(batch)

\* Whatever rules do, the pool behaves as a queue ordered by priority and,
\* among equals, by the time of staging (Ticket::cmp, next_ticket, commit).
ImplementsOpQueue == Queue!Spec

=============================================================================
