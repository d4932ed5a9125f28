# maokai: a TLA+ model, its checks and its proofs

maokai is a hierarchical state machine framework for Rust, in five crates:

    maokai-tree        topology of the states, transition paths
    maokai-runner      exit/enter callbacks of a transition, event bubbling
    maokai-reconciler  pool of staged operations, rules applied when staging
    maokai-gears       operations: events, tasks (tokio local / multi-threaded)
    maokai-machine     one instance: advance loop, arbitration, consumers

A behavior (user code) is called by the runner inside the machine's advance loop.
It never acts on the machine directly: it *stages* operations into the reconciler.
`advance` commits the pool, each operation is routed to a consumer, consumers fill
an event queue, a one-place slot for the next transition, or start and stop tasks.
Tasks talk back through mailboxes that the loop drains.

## Inventory

**State tree** (`maokai-tree/src/lib.rs`). State: an arena that only grows, its root,
and a detached `nil`. Operations: `new`, `add_child`; queries `path_rev_iter`,
`parent_of`, `propose_transition`. Hard: the two-cursor loop that finds the least
common ancestor, with nil and ancestors as end points. Correct if: trees stay well
formed, the two lists are exactly the states between the branches in callback order.

**Payload lookup** (same file, optional feature). State: the payload of each node.
Operation: `lookup`, a depth-first search that ticks off a data set in a bit mask. Hard:
repetitions, ticks that must not leak into a sibling, 64 data. Correct if: it finds the
first state whose branch carries the data set.

**Runner** (`maokai-runner/src/lib.rs`). Stateless; the caller owns the current state.
Operations: `transition`, `dispatch`. Hard: nothing records which states are live, so
correctness is a property of whole sequences of calls. Correct if: exactly the current
branch is live at rest, callbacks nest, dispatch asks the branch bottom up and stops
at the first answer, and both return.

**Reconciler** (`maokai-reconciler/src/lib.rs`). State: ticket counter, rules, pool
ordered by ticket. Operations: `stage`, `unstage`, `clear`, `commit`, rules added,
replaced and removed. Hard: rules change the pool while an operation comes in and are
moved out of the reconciler meanwhile; user code may panic; the counter is a `u32`.
Correct if: it is a priority queue, nothing is applied twice, only a rule, a caller or a
panic drops an operation, and no rule gets lost.

**Consumer registry** (`maokai-machine/src/lib.rs`). State: slots with a free list, routes
from operation types to slots. Operations: `set_consumer`, `remove_consumer`,
`clear_consumers`, routing inside `commit`. Hard: slots are reused, types share
consumers, a consumer may change the type of an operation. Correct if: slots are
invisible and `on_unhandled` comes last.

**Machine** (`maokai-machine/src/lib.rs`). State: current state, event queue, slot.
Operations: `post`, `request_transition`, `start_task`, `stop_task`, `init`, `advance`,
`set_transition_arbiter`.
Hard: callbacks stage while the loop runs, other threads send while it drains,
`continue` starts a microstep over. Correct if: at most one request is pending, the
best one is applied, no event is lost or overtaken, `advance` returns only when
settled.

**Event gear, task gear** (`maokai-gears/src/ops`). State: queue; per runtime a mailbox
and the JoinHandles of running tasks. Operations: consume, drain, emit. Hard: send
tasks run in parallel with the loop; abort is asynchronous; a stop is routed to two
consumers. Correct if: a stop that was consumed is final, and every task that runs can
be stopped.

**Tasks in the scope of a state** (the integration tests of `maokai-machine`): a task
started in `on_enter`, stopped in `on_exit`. Hard: both are only staged, so a state may
be left before its task was started. Correct if: no task outlives its state.

**Shared cells** (`Rc<RefCell<_>>` in `maokai-machine/src/lib.rs`, and the mailbox in
`tokio_local.rs`). State: what is borrowed on the call stack. Hard: temporaries of `if let`
and `while let` live as long as the body; a local task may keep a guard across an await;
`start_task` of a send task clones the context. Correct if: behaviors can always stage, and
a borrow conflicts only where user code asked for it.

`PROJECT.json` lists the hazards at their lines, with the properties aimed at them.

## Modules

| module | models | extends |
|---|---|---|
| `TreeView` | tree operators: paths, `propose_transition`, its contract | |
| `StateTree` | building a tree | `TreeView` |
| `Lookup` | payloads and `lookup` | `StateTree` |
| `Runner` | `transition` and `dispatch`, one callback per step | `TreeView` |
| `Statechart` | abstract specification of a transition | `TreeView` |
| `Reconciler` | pool, rules, commit | |
| `OpQueue` | abstract specification of the pool | |
| `ConsumerRegistry` | consumers, routes, routing | |
| `ConsumerTable` | abstract specification of the registry | |
| `Machine` | advance loop, arbitration, events, tasks and their threads | |
| `TaskScope` | composition: tree, runner, machine and tasks | `Machine`, `TreeView` |
| `Borrows` | `RefCell` borrows on the call stack | |
| `MCRunner`, `MCRegistry`, `MCMachine`, `MCTaskScope` | instances for TLC | |
| `TreeViewProofs` | proofs about `TreeView`; facts about numbers and sequences that the others share | `TreeView` |
| `StateTreeProofs` | proofs about `StateTree` and `Lookup` | `Lookup`, `TreeViewProofs` |
| `RunnerProofs`, `ReconcilerProofs`, `RegistryProofs`, `MachineProofs`, `TaskScopeProofs`, `BorrowsProofs` | proofs about the module of that name | that module |

`Lookup`, `Reconciler` and `Borrows` have plain constants only and are run themselves. Operators marked
`(mutant)` are plausible bugs; they stand next to the definition they replace and nothing
uses them.

### TreeView, StateTree

An arena is the sequence of parents: node ids are positions, `NoState` (0) stands for
`None`. `new` makes the root (1) and `nil` (2). `path_rev_iter` is a recursive function
(indextree's `ancestors` starts with the node itself). The loop of `propose_transition`
that trims both paths while they agree is `SharedTail`, the length it trims.
`debug_assert_ne!` on the parent is a guard of `add_child`: in a release build it is a
contract on the caller.

### Lookup

`Lookup` adds a payload per node. A mask is the set of positions still open. `dfs` is a
recursive function over states and masks, so that what a branch ticks off does not reach
its siblings, as the by-value `unmatched` argument does. `FullMask` has the width as a
constant, with both outcomes of the shift by the whole width. The reference definition
counts payloads on the branch (`Carries`) and orders states by the walk (`Precedes`).

### Runner, Statechart

`transition(s)` computes the lists; `exit_next` and `enter_next` are one callback each;
`all_entered` is the return and the caller's assignment of the result. `dispatch` and
`bubble(r)` are the bubbling loop, with any reply `r` the behavior could give. `live`
(a ghost) is what has been entered and not exited; states without a behavior count,
since a behavior there would have been called. Callbacks do not call the runner, as
README.md demands. `asked` and `reply` are forgotten at the next call.

`Statechart` says what a transition is without paths or lists: leave doomed states
lowest first, then join states highest first until the goal's branch is complete.
Under the mapping `goal <- target`, `doomed <- ` what is left of the exit list, every
step of `Runner` is a step of it or stutters (`all_exited`, `dispatch`, `bubble`).

### Reconciler, OpQueue

A call of `stage` is several steps, because rules are user code: `stage` draws a ticket
and moves the rules out, `rule_unstages` and `rule_replaces` are what `RuleAccess` lets a
rule do (any number of times, to any ticket it may know, the incoming one included),
`rule_answers` is its verdict, `staged` inserts and puts the rules back. `commit` takes
the pool, `apply` hands out one operation. `rule_panics` and `apply_panics` unwind to a
caller who catches the panic. `handed`, `gone` and `installed` are ghosts: what was
applied, what somebody withdrew, which rules ought to be there.

`OpQueue` is a sequence ordered by priority, first in first out among equals. Operations
that a rule puts into the pool itself keep the ticket they replace, or take one that is
not in the pool, so their place among equals is open. The mapping `InOrder` is the
order the comparison yields: an operation's place is its `Rank`, one more than the number
of tickets of the pool that come before its own.

### ConsumerRegistry, ConsumerTable

The n-th consumer set is the number n. `set`, `remove_consumer` and `clear_consumers`
need `&mut Machine`, so they are whole steps; `clear_consumers` is followed by
`install_default`, one consumer at a time. Routing is one step per question to a
consumer: `consumed`, `passed_on`, `converted` (another type: look up again) or
`unhandled`. `ConsumerTable` has a list of consumers per type and no slots; the mapping
reads the routes through the slots.

### Machine

`pc` is the position in `advance_with`; one action per statement:

| pc | actions | lines of `maokai-machine/src/lib.rs` |
|---|---|---|
| `idle` | `advance`, `init` | 638-668 |
| `commit` | `commit`, `all_committed` | 672-674 |
| `route` | `route`: one operation to its consumer | 674-708 |
| `drain` | `drain`: one operation out of a mailbox; `all_drained` | 710-722 |
| `apply` | `apply`, `nothing_to_apply` | 724-728 |
| `transition` | callbacks run; `transitioned` | 729-732 |
| `events` | `dispatch`, `all_dispatched` | 734-741 |
| `on_event` | callbacks run; `handled`, `replied_transition` | 742-748 |
| `check` | `check` | 750-757 |

User code is open: while `pc` is `idle`, `transition` or `on_event` it may stage any
operation (`post`, `request_transition`, `start_task`, `stop_task`, `stage_other`),
through the rule, as `stage_boxed` does. What `Runner` does inside is abstracted to its
result. Tickets are their index: no code of the machine or of the gears stages with a
ticket priority. `hand` is the request or event the callbacks run for.

Three kinds of task: `local` holds an `Envelope` and stages directly, `emitter` is a
`LocalTask` that uses its `LocalTaskEmitter`, `send` is a `SendTask`. The first two
share the owner's thread and run only while it is outside `advance`; a send task may
take a step at any time, and after `abort()` goes on until tokio drops it
(`task_aborted`). `running` keeps the entry of a task that returned by itself, as the
code does. Anybody who has the handle of a task may stop it: the owner, behaviors, the task
itself, any other task. A stop comes too early if it is staged directly while the operation
that starts the task is in a mailbox, or sent to the local mailbox while that is in the send
one, since the local mailbox is drained first (`DrainedAfter`). Such a stop (`known` is
false) overtakes the start and has no effect; `StopIsFinal` and `StopTakesEffect` are about
the others, `RunningTasksAreHeld` and `HandlesKept` hold with both.

Ghosts: `posted` and `dispatched` per source of events, `rivals` (requests staged since
the last transition was applied), `stopped`.

### TaskScope

Every step is a step of `Machine`; the module closes the user code to the program of the
integration tests, on any tree and for any set of states that run a task. `begin` computes
the lists of `Runner::transition`, `exit_next` and `enter_next` are one callback each.
Apart from them, owner, behaviors and local tasks request transitions (`request`) and post
events (`post_event`), and tasks send both through their mailboxes; each is counted by a
bound of its own, so that callbacks never run out of operations they may stage.
`running_task` is the handle the behavior keeps in the context, per state.

### Borrows

A state is the call stack of the machine's thread: frames, the cells each has borrowed, and
its guard of the context. `LibraryCalls` lists who calls what with which cells held, the
local consumer's `drain` with its mailbox included; `UserCalls` what code with an `Envelope`
or a `LocalTaskEmitter` may call. `clone_context` is the borrow that `start_task` of a send
task makes, with the user's `Clone` running inside it. The order of the statements is
`Machine`'s business and left open here. A borrow that conflicts unwinds to the owner;
`failed` remembers what was called and who held the cell.

## Runs

| run | instance | distinct states | properties |
|---|---|---|---|
| `state_tree` | trees of up to 7 nodes, 2 payloads, data sets of up to 3, mask of 4 bits | 8.6 thousand | `TypeOK`, `TransitionsExact`, `LookupExact` |
| `lookup_full` | data sets as long as the mask | violation | `LookupExact` |
| `runner` | all trees of 3 to 5 nodes, any set of behaviors | 28 thousand | `TypeOK`, `LiveIsBranch`, `CallbacksNest`, `TransitionInv`, `DispatchAsksBranch`, `ImplementsStatechart`, `RunnerReturns` |
| `reconciler` | 2 rules, 2 priorities, 4 operations, 3 tickets before the counter panics, panics in rules and receivers | 67 thousand | `TypeOK`, `NoOpLost`, `AppliedOnce`, `RulesAsInstalled`, `ImplementsOpQueue` |
| `registry` | fair, 3 types, 6 lists (with sharing and repetition), 5 consumers | 164 thousand | `TypeOK`, `FreeListExact`, `RoutesExact`, `UnhandledLast`, `ImplementsTable`, `RoutingEnds` |
| `machine_events` | 3 arbiters, 2 tasks of all kinds that send events and requests, 4 staged, 3 sent | 2.1 million | `TypeOK`, `AtMostOneRequest`, `EventsInOrder`, `NoEventLost`, `AdvanceSettles` |
| `machine_tasks` | 3 tasks of all kinds, started and stopped by anybody, 4 staged, 2 sent | 1.8 million | `StopIsFinal`, `HandlesKept`, `RunningTasksAreHeld` |
| `machine_liveness` | fair, 2 priorities, 1 task that sends events, 4 staged, 2 sent | 103 thousand | `BestRequestApplied`, `AdvanceReturns`, `EventsDispatched`, `StopTakesEffect` |
| `machine_overwrite` | 3 priorities, a task sends a request | violation | `BestRequestApplied` |
| `task_scope` | fair, tree of 5 nodes, 2 nested states with tasks, 3 requests, 1 event posted, 1 sent | 1.2 million | `TasksMatchBranch`, `ExitedTasksEnd` |
| `borrows` | call stacks of up to 9 frames | 542 thousand | `BehaviorsCanStage`, `OnlyUserCallsFail` |
| `borrows_consumer` | the same | violation | `ConsumersCanStage` |

**Bounds.** Seven nodes make paths of different lengths on both sides of a common ancestor
at every depth, and branches long enough for a data set with repetitions to fit on one of
two siblings only; five are enough for a transition with two exits and two entries and
for a behavior missing in the middle of a branch. Four operations and three tickets let
the counter run out with the pool in use; two rules let the second one answer after the
first has changed the pool. Five consumers, two of them defaults, let a slot be freed and
reused while an older consumer still shares one of its types. `MaxStage` and `MaxSend`
count operations over a whole behavior: two events of one source in each place of the
pipeline need two sends after the start that makes the task. Three tasks let an emitter
task stop what a send task is starting, so that the stop is drained first. `machine_events` has no
stops: that a stopped task's events are not lost is shown by `machine_liveness` and the
theorem. With one priority in `machine_events` the arbiters are "the last wins" and
"the first stays"; `machine_liveness` has the priorities. Three requests lead into the
nested states, out again and back before anything was committed. Nine frames hold the
chain of calls that gets furthest without cloning the context (`owner`, `advance`,
`dispatch`, `behavior`, `stage`, `rule`) and a clone with its user code at the end of it;
deeper stacks only repeat clones inside clones. An idle machine can always be advanced and a runner at rest always
called, so deadlock is checked in every run but `state_tree`, which ends at its bound.

**Fairness.** `Runner`: callbacks return, so a call that has begun goes on.
`ConsumerRegistry`: consumers and `on_unhandled` return, so routing goes on (`RouteStep`);
that conversions of types have no circle is the instance's doing, with one `commit` does
not return. `Machine` and `TaskScope`: the thread inside `advance` goes on and its
callbacks return (`LoopStep`, `ScopeLoop`), the owner keeps calling `advance`, which is
the framework's contract (nothing else ever looks into a mailbox), and tokio drops
aborted tasks. No fairness for user code or tasks: none has to stage, send or return.
That staging and sending come to an end is the bounds' doing and is what `AdvanceReturns`
assumes: with behaviors that answer every transition with another, or a task that floods
the mailbox, `advance` does not return. `ExitedTasksEnd` asks for moments when all tasks of
exited states are over at once, which the bound on requests makes possible; it implies
that each of them ends.

**What the violations show.**

* `machine_overwrite`: a request in the slot was committed but not yet applied. The loop
  drains the mailboxes in between, and after a drain it commits again; the consumer
  overwrites the slot without asking the arbiter. So a request in the slot loses against a
  lower one that a task sent, although "higher values win arbitration"; in the shortest
  trace it is `init`'s own, of normal priority. `machine_liveness` shows the promise kept where mailboxes carry events
  only: what callbacks request meets in the pool.
* `lookup_full`: the assertion in `lookup` admits 64 data, `1u64 << 64` overflows. A debug
  build panics; a release build searches with an empty mask and answers with the root.
* `borrows_consumer`: README.md of the machine says that consumers can enqueue work. Inside
  `consume` the reconciler is borrowed by `commit`, so staging through a `MachineHandle`
  panics; only `drain` is handed the reconciler.

## Proofs

For trees of every size, and for every value of the constants:

* `TreeViewProofs`: the equation of `path_rev_iter` (a parent has a smaller id than its
  child, so the recursion is well founded), then that the rest of a path is the path of
  its first state, then `TransitionExact`: from a shared state on two paths go on alike,
  so the trimmed tail is exactly what they share.
* `StateTreeProofs`: `TypeOK`, `TransitionsExact`; `TypeOK` is inductive.
  A tree with payloads is built by the same steps (`DataSpec => Spec`).
* `StateTreeProofs`, about `Lookup`: `LookupExact`, if data sets are shorter than the mask
  is wide (`MaxData < Width`; at the full width it is false, `lookup_full`). The invariant
  is `DataInv`: every state but `nil` carries a payload. `dfs` has the value its recursion
  says because children have greater ids than their parent (`DfsEquation`). What a call
  for a state with some positions open has to answer is the first of its `Candidates`,
  the states below it on whose way down from it there is enough of every payload
  (`Covers`). A tick takes one off what is asked for, going down to a child takes one off
  what is carried, so both sides keep in step (`CoversBelow`); a state that is not enough
  by itself has exactly the candidates of its children, and of those below two
  siblings the ones below the earlier come first in the walk (`SiblingsPrecede`, with
  `TransitionExact`). From the greatest id up every call is right (`VisitExact`), the one
  for the root among them, where counting along `travel` is counting the states of the
  branch (`TravelCount`).
* `RunnerProofs`: `TypeOK`, `LiveIsBranch`, `CallbacksNest`, `TransitionInv`,
  `DispatchAsksBranch` and the refinement of `Statechart`. `LiveIsBranch` says nothing in the middle of a transition,
  so the inductive invariant is `TransitionInv`: what is live is what both branches share
  and the rest of the exit list, later the goal's branch without the rest of the enter
  list, and both lists are ordered along the branch. Nesting is then read off the abstract
  steps. For `dispatch` it is `BubbleInv`: asked so far are exactly the behaviors of the
  branch strictly below `probe`; a branch is a chain (`BranchLinear`), so what is not above
  a state lies below it. Assumption: the trees are well formed, which `StateTreeProofs` shows of all the
  API builds.
* `ReconcilerProofs`: `TypeOK`, `AppliedOnce`, `NoOpLost`, `RulesAsInstalled` and the
  refinement of `OpQueue`. `AppliedOnce`
  needs to know that an operation is in one place only: `Ledger` says that pool, batch,
  the incoming operation, what was handed out and what is gone never share an operation
  of a caller. `NoOpLost` needs that a ticket just drawn is free: `TicketsFresh` says that
  the tickets in use are below the counter, which a counter that wraps breaks; the
  theorem assumes one that panics, `AppliedOnce` holds for both. `TypeOK` says so too: unless
  the counter wraps, the next ticket was never issued. `RulesKept` follows the
  rules while they are moved out. The refinement (with a counter that panics) needs
  `QueueInv`: pool and batch are finite, and the ticket of the incoming operation is younger
  than all others that the counter issued. Ranks make the order of a pool without an
  induction over it: tickets have different ranks (`BeforeOrder`), as many as there are
  tickets, and a one-to-one map between finite sets of the same size is onto
  (`RankFacts`). A sequence that holds the pool in order is its `InOrder`
  (`InOrderUnique`), so one ticket more or less is one element put in or taken out
  (`InOrderInsert`, `InOrderDelete`, `InOrderReplace`), and every action is a step of
  `OpQueue` or none (`StepImplements`).
* `RegistryProofs`: `TypeOK`, `FreeListExact`, `RoutesExact`, `UnhandledLast` and the
  refinement of `ConsumerTable`. The inductive invariant is `StoreInv` (free list and
  routes exact, and no consumer in two slots) and `RoutingInv` (what was asked is the
  list up to the cursor). `remove_consumer` keeps it because the slots it frees are named
  by no remaining route; the refinement reads off that such a slot held exactly a
  consumer whose types all went.
* `MachineProofs`: all safety properties of `Machine`. Type correctness carries what
  `AtMostOneRequest` needs: tickets in use are below `next_ticket`, so an insertion never
  replaces an operation, and `batch` is empty outside of `route`. Every step is then
  classed by what it does to the operations (one staged, one routed, one sent, one drained,
  or none), so that each invariant is shown once per class. `Pool` is `batch` while `commit`
  routes and `pending` otherwise; `PoolApart` says that the two are never both in use.
  * Tasks (`StopIsFinal`, `HandlesKept`, `RunningTasksAreHeld`). None of them says where the
    operations are that will change it, so `TaskInv` follows them: a requested task has
    exactly one start on its way, in a mailbox or in the pool; a stop that was not
    issued too early is behind it in the same mailbox, or in the send mailbox while the start
    is in the local one, which is drained first, or has a greater ticket in the pool, or comes
    after the start was consumed. So the consumer has the handle when the stop arrives.
  * Events (`EventsInOrder`, `NoEventLost`). `FlowInv` orders the events of a source along
    the pipeline: queue before pool before mailbox, each in the order of posting, a
    mailbox read and written from the ends the code uses, and a source with one mailbox
    only. Then the head of the queue is the next of its source.
  * `AdvanceSettles` needs, besides `FlowInv`, that a request beaten by another leaves
    that other one behind (`RivalsSeen`): the loop cannot find pool and slot empty with a
    request neither applied nor beaten.
  * `BestRequestApplied` assumes the default arbiter and that mailboxes carry no
    requests; without the second one it is false (`machine_overwrite`). `BestInv`: the slot
    is full only between routing and applying, when no callback can stage, and holds the
    best request since the last transition; at other times the one in the pool is that.
* `TaskScopeProofs`: `TaskScope` implements `Machine` (`ScopeSpec => Spec`), so all of the
  above holds of it, and `TasksMatchBranch`, in every tree. The inductive invariant is
  about the handles in the context and not about running tasks, which lag behind: a
  handle that is kept has no stop on its way, and of any other task that was started a
  stop is on its way or was consumed (`HeldInv`); the states that keep a handle are,
  in the middle of a transition, what the lists still to be worked off say
  (`ListsInv`, with `TransitionExact`). What tasks run when all is quiet follows from
  both and `TaskInv`.
* `BorrowsProofs`: `BehaviorsCanStage`, `OnlyUserCallsFail`, for stacks of every depth.
  `BorrowInv`: for each site there are cells (`Untouched`) that no frame of a stack
  with that site on top holds, and every call but `stage` and `emit` of user code borrows from
  those of its caller only; who can be in the way of those two, and of a guard of the
  context, is what `Frames` says of the sites that hold a cell or a guard; a return uncovers a stack of which the same was true.

Induction over numbers goes by least counterexample (`LeastNumber`). Each inductive
invariant was model-checked on the instances above before it was proved.

Only model-checked are the liveness properties `RunnerReturns`, `RoutingEnds`,
`AdvanceReturns`, `EventsDispatched`, `StopTakesEffect` and `ExitedTasksEnd`: fairness is out
of the prover's reach. Every invariant, action property and refinement that a passing run
checks has a theorem.

## Not modelled

What becomes of the tasks of a consumer that is removed or cleared (they go on detached and
their mailbox is gone): `ConsumerRegistry` has no runtimes in its consumers and `Machine`
keeps its own. Panics inside `Machine`'s loop beyond the reconciler's own recovery. Data
that rules change inside an operation (`get_mut`) and data in the user's context. The
queries `contains`, `depth` and `has_rule`, which nothing else uses. `TaskOpsExt`, which
stages the operations of `Machine` from a bare reconciler. tokio beyond what its tasks
can do to the machine. A wrapping ticket counter is in `Reconciler` (`Overflow`) and in
the theorems, but in no run: it loses operations, after 2^32 of them.

## What is left

A model of consumers that own their runtimes, so that removing or clearing a task consumer
drops its handles and its mailbox (the first item above). It would join
`ConsumerRegistry` to the tasks of `Machine`; the property to state is that of
`RunningTasksAreHeld`, which the code does not keep there.
