--------------------------- MODULE ConsumerRegistry ---------------------------
(***************************************************************************)
(* maokai-machine: the consumers of a machine and the routing of committed *)
(* operations to them.                                                     *)
(*                                                                         *)
(* Consumers live in slots that are reused; routes name slots.  The n-th   *)
(* consumer set is the number n.  set_consumer, remove_consumer and        *)
(* clear_consumers need `&mut Machine', so they run only outside advance.  *)
(* Consumers are open: one may consume an operation or hand on another,    *)
(* whose type is the same or one that Converts allows.                     *)
(***************************************************************************)
EXTENDS Naturals, Sequences, FiniteSets

CONSTANTS
  Types,             \* TypeIds of operations
  Lists,             \* type lists a consumer is set or removed with
  Defaults,          \* the lists of install_default_consumers
  Converts,          \* <<from, to>>: types an operation may be turned into
  MaxConsumers       \* bound: consumers set

None == 0                        \* an empty slot
NoType == "none"                 \* outside of routing

ASSUME RegistryAssumption ==
  /\ NoType \notin Types
  /\ Lists \subseteq Seq(Types) /\ << >> \notin Lists
  /\ Defaults \in Seq(Lists)
  /\ Converts \subseteq Types \X Types
  /\ MaxConsumers \in Nat

VARIABLES
  slots, free,       \* ConsumerStore
  routes,            \* type -> slots; no entry is the empty list
  pc,                \* "install", "idle" or "route"
  installed,         \* in install_default_consumers: how many are set
  made,              \* consumers set so far
  op, indices, next_consumer,
                     \* routing: type of the operation, its list, the cursor
  asked,             \* ghost: consumers asked since the operation has its type
  returned           \* what the last remove_consumer gave back

store == <<slots, free, routes>>
routing == <<op, indices, next_consumer, asked>>
vars == <<store, pc, installed, made, routing, returned>>

Elements(s) == {s[i] : i \in DOMAIN s}
SlotsOf(S) == UNION {Elements(routes[t]) : t \in S}
Occupied == {i \in DOMAIN slots : slots[i] # None}

-----------------------------------------------------------------------------
(* Setting and removing.                                                   *)

\* (mutant) the slot that is taken stays on the free list.
PeekFree(f) == f

\* `free.pop()'
PopFree(f) == SubSeq(f, 1, Len(f) - 1)

Mentions(list, t, idx) ==
  [i \in 1 .. Cardinality({j \in DOMAIN list : list[j] = t}) |-> idx]

\* (mutant) a new consumer is asked before the older ones.
RouteFirst(list, t, idx) == Mentions(list, t, idx) \o routes[t]

\* `routes.entry(tid).or_default().push(idx)' for each type of the list.
RouteLast(list, t, idx) == routes[t] \o Mentions(list, t, idx)

\* ConsumerStore::insert, and the routes.
set(list) ==
  LET reuse == free # << >>
      idx == IF reuse THEN free[Len(free)] ELSE Len(slots) + 1
  IN  /\ made < MaxConsumers /\ made' = made + 1
      /\ slots' = IF reuse THEN [slots EXCEPT ![idx] = made'] ELSE Append(slots, made')
      /\ free' = IF reuse THEN PopFree(free) ELSE free
      /\ routes' = [t \in Types |-> RouteLast(list, t, idx)]

set_consumer(list) ==
  /\ pc = "idle" /\ set(list)
  /\ UNCHANGED <<pc, installed, routing, returned>>

\* (mutant) no look at the remaining routes before a slot is freed.
FreesAffected(S) == SlotsOf(S)

\* Slots whose routes all go.
Unreferenced(S) == SlotsOf(S) \ SlotsOf(Types \ S)

\* The slots are freed in ascending order (BTreeSet).
remove_consumer(list) ==
  LET S == Elements(list)
      dead == Unreferenced(S) \cap Occupied
  IN  /\ pc = "idle"
      /\ routes' = [t \in Types |-> IF t \in S THEN << >> ELSE routes[t]]
      /\ slots' = [i \in DOMAIN slots |-> IF i \in dead THEN None ELSE slots[i]]
      /\ \E n \in 0 .. Len(slots) : \E f \in [1 .. n -> dead] :
           /\ \A i, j \in 1 .. n : i < j => f[i] < f[j]
           /\ Elements(f) = dead
           /\ free' = free \o f
      /\ returned' = {slots[i] : i \in dead}
      /\ UNCHANGED <<pc, installed, made, routing>>

\* (mutant) the routes of the old consumers stay.
ClearsStoreOnly ==
  /\ pc = "idle" /\ made + Len(Defaults) <= MaxConsumers
  /\ slots' = << >> /\ free' = << >>
  /\ pc' = "install" /\ installed' = 0
  /\ UNCHANGED <<routes, made, routing, returned>>

clear_consumers ==
  /\ pc = "idle" /\ made + Len(Defaults) <= MaxConsumers
  /\ slots' = << >> /\ free' = << >> /\ routes' = [t \in Types |-> << >>]
  /\ pc' = "install" /\ installed' = 0
  /\ UNCHANGED <<made, routing, returned>>

\* install_default_consumers, one set_consumer at a time.
install_default ==
  /\ pc = "install" /\ installed < Len(Defaults)
  /\ set(Defaults[installed + 1]) /\ installed' = installed + 1
  /\ UNCHANGED <<pc, routing, returned>>

defaults_installed ==
  /\ pc = "install" /\ installed = Len(Defaults)
  /\ pc' = "idle"
  /\ UNCHANGED <<store, installed, made, routing, returned>>

-----------------------------------------------------------------------------
(* The closure that advance_with gives to commit.                          *)

\* An operation of type t is looked up: a new one, or one that was converted.
lookup(t) ==
  /\ op' = t /\ indices' = routes[t] /\ next_consumer' = 1 /\ asked' = << >>

route(t) ==
  /\ pc = "idle" /\ lookup(t) /\ pc' = "route"
  /\ UNCHANGED <<store, installed, made, returned>>

MoreToAsk == pc = "route" /\ next_consumer <= Len(indices)
Candidate == slots[indices[next_consumer]]

Return ==
  /\ pc' = "idle"
  /\ op' = NoType /\ indices' = << >> /\ next_consumer' = 1 /\ asked' = << >>
  /\ UNCHANGED <<store, installed, made, returned>>

\* OpFlow::Consumed
consumed == MoreToAsk /\ Candidate # None /\ Return

Asked == IF Candidate = None THEN asked ELSE Append(asked, Candidate)

\* (mutant) the cursor starts again behind the last consumer.
AskedAgain ==
  /\ MoreToAsk
  /\ asked' = << >>
  /\ next_consumer' = (next_consumer % Len(indices)) + 1
  /\ UNCHANGED <<store, pc, installed, made, op, indices, returned>>

\* OpFlow::Continue with an operation of the same type, or a slot without a
\* consumer: the next one is asked.
passed_on ==
  /\ MoreToAsk
  /\ asked' = Asked
  /\ next_consumer' = next_consumer + 1
  /\ UNCHANGED <<store, pc, installed, made, op, indices, returned>>

\* (mutant) `continue' of the inner loop: the cursor is not reset.
ConvertedMidway(t) ==
  /\ MoreToAsk /\ Candidate # None /\ <<op, t>> \in Converts
  /\ op' = t /\ indices' = routes[t]
  /\ next_consumer' = next_consumer + 1 /\ asked' = << >>
  /\ UNCHANGED <<store, pc, installed, made, returned>>

\* OpFlow::Continue with one of another type, which is routed from the start.
converted(t) ==
  /\ MoreToAsk /\ Candidate # None /\ <<op, t>> \in Converts
  /\ lookup(t)
  /\ UNCHANGED <<store, pc, installed, made, returned>>

\* Nobody is left to ask: on_unhandled.
unhandled == pc = "route" /\ next_consumer > Len(indices) /\ Return

-----------------------------------------------------------------------------
\* Machine::new
Init ==
  /\ slots = << >> /\ free = << >> /\ routes = [t \in Types |-> << >>]
  /\ pc = "install" /\ installed = 0 /\ made = 0
  /\ op = NoType /\ indices = << >> /\ next_consumer = 1 /\ asked = << >>
  /\ returned = {}

RouteStep ==
  consumed \/ passed_on \/ (\E t \in Types : converted(t)) \/ unhandled

Next ==
  \/ \E list \in Lists : set_consumer(list) \/ remove_consumer(list)
  \/ clear_consumers \/ install_default \/ defaults_installed
  \/ \E t \in Types : route(t)
  \/ RouteStep

Spec == Init /\ [][Next]_vars

\* Consumers and on_unhandled return.
FairSpec == Spec /\ WF_vars(RouteStep)

-----------------------------------------------------------------------------
TypeOK ==
  /\ slots \in Seq(Nat)
  /\ free \in Seq(DOMAIN slots) /\ routes \in [Types -> Seq(DOMAIN slots)]
  /\ made \in Nat /\ installed \in 0 .. Len(Defaults)
  /\ pc \in {"install", "idle", "route"}
  /\ op \in Types \cup {NoType} /\ next_consumer \in Nat \ {0}
  /\ indices \in Seq(DOMAIN slots)

\* The free list names exactly the empty slots, each of them once: no
\* consumer is overwritten by the next insert and no slot is forgotten
\* (ConsumerStore::insert, remove).
FreeListExact ==
  /\ Elements(free) = DOMAIN slots \ Occupied
  /\ \A i, j \in DOMAIN free : free[i] = free[j] => i = j

\* The slots in use are exactly those a route names: no route leads to a slot
\* that was freed, maybe for another consumer by now, and no consumer that
\* cannot be reached is kept and drained ("GC: only drop storage entries no
\* longer referenced by any remaining route").
RoutesExact == SlotsOf(Types) = Occupied

Table == [t \in Types |-> [i \in DOMAIN routes[t] |-> slots[routes[t][i]]]]

Abstract == INSTANCE ConsumerTable WITH table <- Table

\* Slots and their reuse are invisible: every type has its consumers in the
\* order they were set, and remove_consumer gives back exactly those that
\* have no type left.
ImplementsTable == Abstract!Spec

\* on_unhandled gets an operation only after every consumer of its type was
\* asked, each once for every time it was named and in the order of setting,
\* also when a consumer has changed the type on the way.
UnhandledLast ==
  pc = "route" /\ next_consumer > Len(indices) => asked = Table[op]

\* Every operation is consumed or given to on_unhandled in the end, provided
\* that conversions of types do not go round in circles.
RoutingEnds == [](pc = "route" => <>(pc = "idle"))

=============================================================================
