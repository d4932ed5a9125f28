------------------------------- MODULE Machine -------------------------------
(***************************************************************************)
(* maokai-machine: one machine with its default rule and consumers, both   *)
(* task runtimes (tokio_local, tokio_mt) installed, and the tasks they     *)
(* run.                                                                    *)
(*                                                                         *)
(* Machine::advance_with runs on one thread and its statements are the     *)
(* steps here, one per value of pc.  User code runs on that thread too:    *)
(* between calls of advance (pc = "idle"), inside on_exit / on_enter       *)
(* ("transition") and inside on_event ("on_event").  It is open: whenever  *)
(* it runs it may stage any operation.  Send tasks run on other threads,   *)
(* so they take steps whatever pc is.                                      *)
(*                                                                         *)
(* Tickets are reduced to their index: no code of the machine or of the    *)
(* gears stages with a ticket priority.                                    *)
(***************************************************************************)
EXTENDS Naturals, Sequences, FiniteSetsExt

CONSTANTS
  Targets, Nil,      \* states a request may name; Nil is the tree's nil
  Priorities,        \* transition priorities (u32)
  NORMAL,            \* priority::NORMAL
  Arbiters,          \* arbiters the owner may install
  Kinds,             \* kinds of task that are started
  Direct, Mailed,    \* operation types staged directly, sent by tasks
  MaxStage,          \* bound: operations staged by user code
  MaxSend,           \* bound: operations put into a mailbox
  MaxTasks           \* bound: task handles

main == 0                        \* a source of events: the machine's thread
Handles == 1 .. MaxTasks         \* the others: tasks, by handle
Sources == {main} \cup Handles

OpTypes == {"Event", "Request", "Start", "Stop", "Other"}

\* "local": holds an Envelope and stages directly; "emitter": a LocalTask that
\* uses its LocalTaskEmitter; "send": a SendTask.
TaskKinds == {"local", "emitter", "send"}

Event(p, n) == [type |-> "Event", src |-> p, seq |-> n]
RequestTransitionOp(s, p) == [type |-> "Request", target |-> s, priority |-> p]
StartTaskOp(h) == [type |-> "Start", handle |-> h]
\* known (ghost): the start is ahead of it when it is staged or sent.
StopTaskOp(h, known) == [type |-> "Stop", handle |-> h, known |-> known]
OtherOp == [type |-> "Other"]

Events == [type : {"Event"}, src : Sources, seq : Nat]
Requests == [type : {"Request"}, target : Targets, priority : Priorities]
TaskOps == [type : {"Start"}, handle : Handles] \cup
           [type : {"Stop"}, handle : Handles, known : BOOLEAN]
Ops == Events \cup Requests \cup TaskOps \cup {OtherOp}

NoOp == [type |-> "None"]

ASSUME MachineAssumption ==
  /\ Nil \in Targets
  /\ Priorities \subseteq Nat /\ NORMAL \in Priorities
  /\ Arbiters \subseteq SUBSET (Requests \X Requests) /\ Arbiters # {}
  /\ Kinds \subseteq TaskKinds /\ Direct \subseteq OpTypes /\ Mailed \subseteq OpTypes
  /\ MaxStage \in Nat /\ MaxSend \in Nat /\ MaxTasks \in Nat

VARIABLES
  pc,                \* where advance_with is; "idle" outside of it
  progressed, drained_any,
  current,
  hand,              \* the request or event that callbacks are running for
  next_ticket, pending, batch,
                     \* the reconciler; `batch' is what commit is handing out
  arbiter,           \* <<incoming, existing>> pairs where prefer is true
  ready_events, slot,  \* `slot' is pending_transitions
  mailbox, running,  \* per runtime: operations sent, JoinHandles kept
  task,              \* per handle: kind and status
  next_handle,
  staged, sent,      \* what the bounds count
  posted, dispatched, \* ghost, per source: events posted and dispatched
  rivals,            \* ghost: requests staged since the last transition
  stopped            \* ghost: handles whose StopTaskOp was consumed in time

loop == <<pc, progressed, drained_any, current, hand>>
reconciler == <<next_ticket, pending>>
queues == <<ready_events, slot>>
tasks == <<running, task, next_handle>>
bounds == <<staged, sent>>
ghosts == <<posted, dispatched, rivals, stopped>>
vars == <<loop, reconciler, batch, arbiter, queues, mailbox, tasks, bounds, ghosts>>

-----------------------------------------------------------------------------
Runtimes == {"local", "send"}
Runtime(k) == IF k = "send" THEN "send" ELSE "local"

Insert(pool, t, op) ==
  [u \in DOMAIN pool \cup {t} |-> IF u = t THEN op ELSE pool[u]]
Remove(pool, t) == [u \in DOMAIN pool \ {t} |-> pool[u]]
Empty == [u \in {} |-> NoOp]

RequestsIn(pool) == {t \in DOMAIN pool : pool[t].type = "Request"}

\* (mutant) the loser of the arbitration is not unstaged.
KeepsLoser(pool, t, op) == Insert(pool, t, op)

\* (mutant) the incoming request always wins.
IgnoresArbiter(pool, t, op) ==
  IF op.type = "Request" /\ RequestsIn(pool) # {}
  THEN Insert(Remove(pool, Min(RequestsIn(pool))), t, op)
  ELSE Insert(pool, t, op)

\* RequestTransitionRule, the only rule there is, and what stage_boxed does
\* with its answer: the pool after op came in under ticket t.
RequestTransitionRule(pool, t, op) ==
  IF op.type # "Request" \/ RequestsIn(pool) = {} THEN Insert(pool, t, op)
  ELSE LET e == Min(RequestsIn(pool))
       IN  IF <<op, pool[e]>> \in arbiter
           THEN Insert(Remove(pool, e), t, op)
           ELSE pool

\* (mutant) next_ticket forgets to count.
StageReusesTicket(op) ==
  /\ pending' = RequestTransitionRule(pending, next_ticket, op)
  /\ UNCHANGED next_ticket
  /\ rivals' = IF op.type = "Request" THEN Append(rivals, op) ELSE rivals

stage_boxed(op) ==
  /\ pending' = RequestTransitionRule(pending, next_ticket, op)
  /\ next_ticket' = next_ticket + 1
  /\ rivals' = IF op.type = "Request" THEN Append(rivals, op) ELSE rivals

PriorityArbiter ==
  {pair \in Requests \X Requests : pair[1].priority >= pair[2].priority}

-----------------------------------------------------------------------------
(* User code on the machine's thread.                                      *)

InUserCode == pc \in {"idle", "transition", "on_event"}

Stages(kind) ==
  /\ InUserCode /\ kind \in Direct
  /\ staged < MaxStage /\ staged' = staged + 1
  /\ UNCHANGED <<loop, batch, arbiter, queues, mailbox, sent, dispatched, stopped>>

\* post, by the owner and behaviors (p = main) or by a local task, which runs
\* only while the owner is not inside advance.
post(p) ==
  /\ Stages("Event")
  /\ p # main => pc = "idle" /\ task[p].kind = "local" /\ task[p].status = "live"
  /\ posted' = [posted EXCEPT ![p] = @ + 1]
  /\ stage_boxed(Event(p, posted[p] + 1))
  /\ UNCHANGED tasks

request_transition(s, p) ==
  /\ Stages("Request")
  /\ stage_boxed(RequestTransitionOp(s, p))
  /\ UNCHANGED <<tasks, posted>>

\* TaskHandle::next is an atomic fetch_add: handles are never reused.
NewTask(h, k) ==
  /\ h = next_handle /\ h \in Handles
  /\ next_handle' = next_handle + 1
  /\ task' = [task EXCEPT ![h] = [kind |-> k, status |-> "requested"]]
  /\ UNCHANGED running

start_task(h, k) ==
  /\ Stages("Start")
  /\ NewTask(h, k)
  /\ stage_boxed(StartTaskOp(h))
  /\ UNCHANGED posted

InMailbox(op) == \E m \in Runtimes : \E i \in DOMAIN mailbox[m] : mailbox[m][i] = op

\* A program may pass a handle on by means of its own.  While the operation that
\* starts the task is still in a mailbox, this stop comes too early.
stop_task(h) ==
  /\ Stages("Stop")
  /\ task[h].status # "unused"
  /\ stage_boxed(StopTaskOp(h, ~ InMailbox(StartTaskOp(h))))
  /\ UNCHANGED <<tasks, posted>>

stage_other ==
  /\ Stages("Other")
  /\ stage_boxed(OtherOp)
  /\ UNCHANGED <<tasks, posted>>

set_transition_arbiter(a) ==
  /\ pc = "idle"
  /\ arbiter' = a
  /\ UNCHANGED <<loop, reconciler, batch, queues, mailbox, tasks, bounds, ghosts>>

-----------------------------------------------------------------------------
(* Tasks.                                                                  *)

\* A send task runs in parallel with everything, and after abort() until it
\* next yields; a local task only while the owner is not inside advance.
CanSend(h) ==
  \/ task[h].kind = "send" /\ task[h].status \in {"live", "aborting"}
  \/ task[h].kind = "emitter" /\ task[h].status = "live" /\ pc = "idle"

Sends(h, op) ==
  /\ CanSend(h) /\ op.type \in Mailed
  /\ sent < MaxSend /\ sent' = sent + 1
  /\ mailbox' = [mailbox EXCEPT ![Runtime(task[h].kind)] = Append(@, op)]
  /\ UNCHANGED <<loop, reconciler, batch, arbiter, queues, staged,
                 dispatched, rivals, stopped>>

send_post(h) ==
  /\ Sends(h, Event(h, posted[h] + 1))
  /\ posted' = [posted EXCEPT ![h] = @ + 1]
  /\ UNCHANGED tasks

send_request_transition(h, s, p) ==
  Sends(h, RequestTransitionOp(s, p)) /\ UNCHANGED <<tasks, posted>>

\* SendEnvelope::start_task
send_start_task(h, g) ==
  /\ "send" \in Kinds
  /\ Sends(h, StartTaskOp(g))
  /\ NewTask(g, "send")
  /\ UNCHANGED posted

\* The local mailbox is drained first: a stop in it overtakes a start that is
\* still in the other one.
DrainedAfter(m, op) ==
  m = "local" /\ \E i \in DOMAIN mailbox["send"] : mailbox["send"][i] = op

\* A task may stop itself, the tasks it started, and any other whose handle it
\* was given.
send_stop_task(h, g) ==
  /\ task[g].status # "unused"
  /\ Sends(h, StopTaskOp(g, ~ DrainedAfter(Runtime(task[h].kind), StartTaskOp(g))))
  /\ UNCHANGED <<tasks, posted>>

SetStatus(h, s) ==
  /\ task' = [task EXCEPT ![h].status = s]
  /\ UNCHANGED <<loop, reconciler, batch, arbiter, queues, mailbox,
                 running, next_handle, bounds, ghosts>>

\* The future returns.  Nothing tells the consumer: `running' keeps its entry.
task_returns(h) ==
  /\ task[h].status = "live"
  /\ task[h].kind # "send" => pc = "idle"
  /\ SetStatus(h, "over")

\* The runtime (external) drops an aborted send task at its next yield.
task_aborted(h) ==
  task[h].status = "aborting" /\ SetStatus(h, "over")

-----------------------------------------------------------------------------
(* advance_with, statement by statement.                                   *)

advance ==
  /\ pc = "idle"
  /\ pc' = "commit" /\ progressed' = FALSE
  /\ UNCHANGED <<drained_any, current, hand, reconciler, batch, arbiter, queues,
                 mailbox, tasks, bounds, ghosts>>

\* init_with: refused unless the machine is at nil.
init(s) ==
  /\ pc = "idle" /\ current = Nil
  /\ staged < MaxStage /\ staged' = staged + 1
  /\ stage_boxed(RequestTransitionOp(s, NORMAL))
  /\ pc' = "commit" /\ progressed' = FALSE
  /\ UNCHANGED <<drained_any, current, hand, batch, arbiter, queues, mailbox,
                 tasks, sent, posted, dispatched, stopped>>

\* has_pending, and Reconciler::commit taking the pool.
commit ==
  /\ pc = "commit" /\ DOMAIN pending # {}
  /\ batch' = pending /\ pending' = Empty
  /\ pc' = "route" /\ progressed' = TRUE
  /\ UNCHANGED <<drained_any, current, hand, next_ticket, arbiter, queues,
                 mailbox, tasks, bounds, ghosts>>

all_committed ==
  /\ pc = "commit" /\ DOMAIN pending = {}
  /\ pc' = "drain" /\ drained_any' = FALSE
  /\ UNCHANGED <<progressed, current, hand, reconciler, batch, arbiter, queues,
                 mailbox, tasks, bounds, ghosts>>

EventOpConsumer(op) ==
  /\ op.type = "Event"
  /\ ready_events' = Append(ready_events, op)
  /\ UNCHANGED <<slot, running, task, stopped>>

RequestTransitionConsumer(op) ==
  /\ op.type = "Request"
  /\ slot' = op
  /\ UNCHANGED <<ready_events, running, task, stopped>>

\* (mutant) the JoinHandle is not kept: the task is detached.
SpawnDetached(op) ==
  /\ op.type = "Start"
  /\ task' = [task EXCEPT ![op.handle].status = "live"]
  /\ UNCHANGED <<queues, running, stopped>>

\* Either task consumer: spawn, and remember the JoinHandle.
SpawnTask(op) ==
  /\ op.type = "Start"
  /\ LET h == op.handle
         r == Runtime(task[h].kind)
     IN  /\ running' = [running EXCEPT ![r] = @ \cup {h}]
         /\ task' = [task EXCEPT ![h].status = "live"]
  /\ UNCHANGED <<queues, stopped>>

\* (mutant) the entry is looked up, not removed.
AbortKeepsEntry(op) ==
  /\ op.type = "Stop"
  /\ task' = [task EXCEPT ![op.handle].status = IF @ = "live" THEN "aborting" ELSE @]
  /\ stopped' = stopped \cup {op.handle}
  /\ UNCHANGED <<queues, running>>

\* (mutant) a local consumer without its Continue arm: the multi-threaded one
\* is never asked.
AbortTaskLocalOnly(op) ==
  /\ op.type = "Stop"
  /\ LET h == op.handle
     IN  /\ running' = [running EXCEPT !["local"] = @ \ {h}]
         /\ task' = [task EXCEPT ![h].status =
                       IF h \in running["local"] /\ @ = "live" THEN "over" ELSE @]
         /\ stopped' = stopped \cup {h}
  /\ UNCHANGED queues

\* Both task consumers are routed StopTaskOp.  The local one passes it on if
\* it does not run the task; an unknown handle is ignored.  A local task is
\* never polled again; a send task may still be running.
AbortTask(op) ==
  /\ op.type = "Stop"
  /\ LET h == op.handle
         holder == {r \in Runtimes : h \in running[r]}
     IN  /\ running' = [r \in Runtimes |-> running[r] \ {h}]
         /\ task' = [task EXCEPT ![h].status =
                       IF holder = {} \/ @ # "live" THEN @
                       ELSE IF "local" \in holder THEN "over" ELSE "aborting"]
         /\ stopped' = IF op.known THEN stopped \cup {h} ELSE stopped
  /\ UNCHANGED queues

\* No consumer for the type: on_unhandled, which is `|_, _| {}' in advance.
Unhandled(op) ==
  op.type = "Other" /\ UNCHANGED <<queues, running, task, stopped>>

\* (mutant) the pool is handed out last in, first out.
RouteNewestFirst == Max(DOMAIN batch)

\* The order in which commit iterates over the BTreeMap.
RouteNext == Min(DOMAIN batch)

route ==
  /\ pc = "route"
  /\ LET t == RouteNext
         op == batch[t]
     IN  /\ batch' = Remove(batch, t)
         /\ pc' = IF DOMAIN batch = {t} THEN "commit" ELSE "route"
         /\ \/ EventOpConsumer(op)
            \/ RequestTransitionConsumer(op)
            \/ SpawnTask(op)
            \/ AbortTask(op)
            \/ Unhandled(op)
  /\ UNCHANGED <<progressed, drained_any, current, hand, reconciler, arbiter,
                 mailbox, next_handle, bounds, posted, dispatched, rivals>>

\* (mutant) the whole mailbox is taken for the sake of its first operation.
DrainTakesAll ==
  /\ pc = "drain"
  /\ LET m == IF mailbox["local"] # << >> THEN "local" ELSE "send"
     IN  /\ mailbox[m] # << >>
         /\ stage_boxed(Head(mailbox[m]))
         /\ mailbox' = [mailbox EXCEPT ![m] = << >>]
  /\ drained_any' = TRUE
  /\ UNCHANGED <<pc, progressed, current, hand, batch, arbiter, queues, tasks,
                 bounds, posted, dispatched, stopped>>

\* drain of both task consumers, one operation at a time: other threads may
\* send in between.  The local mailbox is only filled outside of advance.
drain ==
  /\ pc = "drain"
  /\ LET m == IF mailbox["local"] # << >> THEN "local" ELSE "send"
     IN  /\ mailbox[m] # << >>
         /\ stage_boxed(Head(mailbox[m]))
         /\ mailbox' = [mailbox EXCEPT ![m] = Tail(@)]
  /\ drained_any' = TRUE
  /\ UNCHANGED <<pc, progressed, current, hand, batch, arbiter, queues, tasks,
                 bounds, posted, dispatched, stopped>>

\* `continue' starts the loop over, with progressed = false.
all_drained ==
  /\ pc = "drain" /\ \A m \in Runtimes : mailbox[m] = << >>
  /\ IF drained_any THEN pc' = "commit" /\ progressed' = FALSE
                    ELSE pc' = "apply" /\ UNCHANGED progressed
  /\ UNCHANGED <<drained_any, current, hand, reconciler, batch, arbiter, queues,
                 mailbox, tasks, bounds, ghosts>>

\* (mutant) the slot is read, not taken.
ApplyKeepsSlot ==
  /\ pc = "apply" /\ slot # NoOp
  /\ hand' = slot
  /\ rivals' = << >>
  /\ pc' = "transition" /\ progressed' = TRUE
  /\ UNCHANGED <<drained_any, current, reconciler, batch, arbiter, queues,
                 mailbox, tasks, bounds, posted, dispatched, stopped>>

apply ==
  /\ pc = "apply" /\ slot # NoOp
  /\ hand' = slot /\ slot' = NoOp
  /\ rivals' = << >>
  /\ pc' = "transition" /\ progressed' = TRUE
  /\ UNCHANGED <<drained_any, current, reconciler, batch, arbiter, ready_events,
                 mailbox, tasks, bounds, posted, dispatched, stopped>>

nothing_to_apply ==
  /\ pc = "apply" /\ slot = NoOp
  /\ pc' = "events"
  /\ UNCHANGED <<progressed, drained_any, current, hand, reconciler, batch, arbiter,
                 queues, mailbox, tasks, bounds, ghosts>>

\* Runner::transition returns, its callbacks done.
transitioned ==
  /\ pc = "transition"
  /\ current' = hand.target
  /\ pc' = "events" /\ hand' = NoOp
  /\ UNCHANGED <<progressed, drained_any, reconciler, batch, arbiter, queues,
                 mailbox, tasks, bounds, ghosts>>

dispatch ==
  /\ pc = "events" /\ ready_events # << >>
  /\ hand' = Head(ready_events) /\ ready_events' = Tail(ready_events)
  /\ dispatched' = [dispatched EXCEPT ![hand'.src] = @ + 1]
  /\ pc' = "on_event" /\ progressed' = TRUE
  /\ UNCHANGED <<drained_any, current, reconciler, batch, arbiter, slot, mailbox,
                 tasks, bounds, posted, rivals, stopped>>

\* Runner::dispatch returns Handled or Ignored ...
handled ==
  /\ pc = "on_event"
  /\ pc' = "events" /\ hand' = NoOp
  /\ UNCHANGED <<progressed, drained_any, current, reconciler, batch, arbiter,
                 queues, mailbox, tasks, bounds, ghosts>>

\* ... or Transition(target), which is staged like any other request.
replied_transition(s) ==
  /\ pc = "on_event" /\ "Request" \in Direct
  /\ staged < MaxStage /\ staged' = staged + 1
  /\ stage_boxed(RequestTransitionOp(s, NORMAL))
  /\ pc' = "events" /\ hand' = NoOp
  /\ UNCHANGED <<progressed, drained_any, current, batch, arbiter, queues, mailbox,
                 tasks, sent, posted, dispatched, stopped>>

all_dispatched ==
  /\ pc = "events" /\ ready_events = << >>
  /\ pc' = "check"
  /\ UNCHANGED <<progressed, drained_any, current, hand, reconciler, batch, arbiter,
                 queues, mailbox, tasks, bounds, ghosts>>

\* (mutant) what callbacks staged since is not looked at.
StableButPending == ready_events = << >> /\ slot = NoOp

Stable ==
  ~ progressed /\ DOMAIN pending = {} /\ ready_events = << >> /\ slot = NoOp

check ==
  /\ pc = "check"
  /\ IF Stable THEN pc' = "idle" /\ UNCHANGED progressed
               ELSE pc' = "commit" /\ progressed' = FALSE
  /\ UNCHANGED <<drained_any, current, hand, reconciler, batch, arbiter, queues,
                 mailbox, tasks, bounds, ghosts>>

-----------------------------------------------------------------------------
Statuses == {"unused", "requested", "live", "aborting", "over"}
Tasks == [kind : TaskKinds, status : Statuses]
NoTask == [kind |-> "local", status |-> "unused"]

\* Machine::new
Init ==
  /\ pc = "idle" /\ progressed = FALSE /\ drained_any = FALSE
  /\ current = Nil /\ hand = NoOp
  /\ next_ticket = 0 /\ pending = Empty /\ batch = Empty
  /\ arbiter = PriorityArbiter
  /\ ready_events = << >> /\ slot = NoOp
  /\ mailbox = [m \in Runtimes |-> << >>]
  /\ running = [m \in Runtimes |-> {}]
  /\ task = [h \in Handles |-> NoTask] /\ next_handle = 1
  /\ staged = 0 /\ sent = 0
  /\ posted = [p \in Sources |-> 0] /\ dispatched = [p \in Sources |-> 0]
  /\ rivals = << >> /\ stopped = {}

UserStep ==
  \/ \E p \in Sources : post(p)
  \/ \E s \in Targets, p \in Priorities : request_transition(s, p)
  \/ \E h \in Handles, k \in Kinds : start_task(h, k)
  \/ \E h \in Handles : stop_task(h)
  \/ stage_other
  \/ \E a \in Arbiters : set_transition_arbiter(a)

TaskStep ==
  \E h \in Handles :
    \/ send_post(h)
    \/ \E s \in Targets, p \in Priorities : send_request_transition(h, s, p)
    \/ \E g \in Handles : send_start_task(h, g) \/ send_stop_task(h, g)
    \/ task_returns(h)
    \/ task_aborted(h)

\* What the machine's thread does inside advance, whatever user code does.
LoopStep ==
  \/ commit \/ all_committed \/ route
  \/ drain \/ all_drained
  \/ apply \/ nothing_to_apply \/ transitioned
  \/ dispatch \/ handled \/ all_dispatched
  \/ check

Next ==
  \/ UserStep \/ TaskStep
  \/ advance \/ \E s \in Targets : init(s) \/ replied_transition(s)
  \/ LoopStep

Spec == Init /\ [][Next]_vars

\* The thread inside advance runs and its callbacks return; the owner keeps
\* calling advance; the runtime gets round to dropping aborted tasks.
Fairness ==
  /\ WF_vars(LoopStep)
  /\ WF_vars(advance)
  /\ \A h \in Handles : WF_vars(task_aborted(h))

FairSpec == Spec /\ Fairness

-----------------------------------------------------------------------------
\* Operations under tickets below n.
IsPool(pool, n) ==
  \A t \in DOMAIN pool : t \in Nat /\ t < n /\ pool[t] \in Ops

PCs == {"idle", "commit", "route", "drain", "apply", "transition", "events",
        "on_event", "check"}

LoopOK ==
  /\ pc \in PCs /\ progressed \in BOOLEAN /\ drained_any \in BOOLEAN
  /\ current \in Targets
  /\ pc = "transition" => hand \in Requests
  /\ pc = "on_event" => hand \in Events
  /\ pc \notin {"transition", "on_event"} => hand = NoOp

ReconcilerOK ==
  /\ next_ticket \in Nat /\ IsPool(pending, next_ticket) /\ IsPool(batch, next_ticket)
  /\ pc = "route" <=> DOMAIN batch # {}
  /\ arbiter \subseteq Requests \X Requests
  /\ rivals \in Seq(Requests)

QueuesOK ==
  /\ ready_events \in Seq(Events)
  /\ slot \in Requests \cup {NoOp}
  /\ mailbox \in [Runtimes -> Seq(Ops)]
  /\ posted \in [Sources -> Nat] /\ dispatched \in [Sources -> Nat]

TasksOK ==
  /\ running \in [Runtimes -> SUBSET Handles]
  /\ task \in [Handles -> Tasks]
  /\ next_handle \in Nat
  /\ stopped \subseteq Handles

TypeOK ==
  /\ LoopOK /\ ReconcilerOK /\ QueuesOK /\ TasksOK
  /\ staged \in 0 .. MaxStage /\ sent \in 0 .. MaxSend

\* "Invariant: this rule keeps at most one RequestTransitionOp in pending",
\* whatever the arbiters answer and whenever they are replaced
\* (RequestTransitionRule::apply).
AtMostOneRequest ==
  /\ \A t, u \in RequestsIn(pending) : t = u
  /\ \A t, u \in RequestsIn(batch) : t = u

\* Every event a source posts is dispatched once and in the order of posting,
\* on whichever way it travels (direct or mailbox, pool, batch, ready queue).
EventsInOrder ==
  pc = "on_event" => hand.seq = dispatched[hand.src]

\* Event n of source p is still on its way to the runner.
InFlight(p, n) ==
  LET IsIt(op) == op = Event(p, n)
  IN  \/ \E m \in Runtimes : \E i \in DOMAIN mailbox[m] : IsIt(mailbox[m][i])
      \/ \E t \in DOMAIN pending : IsIt(pending[t])
      \/ \E t \in DOMAIN batch : IsIt(batch[t])
      \/ \E i \in DOMAIN ready_events : IsIt(ready_events[i])

\* No event is lost between post and on_event: not by a stop of its task, a
\* transition, an arbitration, or a drain that starts the loop over.
NoEventLost ==
  \A p \in Sources : \A n \in 1 .. posted[p] :
    n > dispatched[p] => InFlight(p, n)

\* advance returns only once the machine is stable: everything staged on its
\* own thread has had its effect, and nothing is left in a queue ("dispatch
\* resulting events until the machine becomes stable").
AdvanceSettles ==
  [][pc = "check" /\ pc' = "idle" =>
       /\ dispatched[main] = posted[main]
       /\ DOMAIN pending = {} /\ DOMAIN batch = {}
       /\ ready_events = << >> /\ slot = NoOp /\ rivals = << >>]_vars

\* Once a StopTaskOp has been consumed its task never runs again: the stop
\* neither overtakes the start of its task nor misses the consumer that has it,
\* unless it was staged while the start was in a mailbox, or sent while the
\* start was in a mailbox that is drained after its own.
StopIsFinal ==
  \A h \in stopped : task[h].status \in {"aborting", "over"}

\* Every task that runs can still be stopped, exactly the consumer of its kind
\* holds its JoinHandle: also if a stop was consumed before the start of its
\* task.
RunningTasksAreHeld ==
  \A h \in Handles :
    task[h].status = "live" =>
      {r \in Runtimes : h \in running[r]} = {Runtime(task[h].kind)}

\* JoinHandles are kept for exactly the tasks that were spawned and not stopped
\* since: a stop leaves nothing behind, but nothing else ever removes an entry,
\* so the maps grow with every task that returns by itself.
HandlesKept ==
  UNION {running[r] : r \in Runtimes} =
    {h \in Handles : task[h].status \in {"live", "aborting", "over"}} \ stopped

\* "Higher values win arbitration": the transition that is applied is the one
\* of greatest priority among all that were requested since the last one, and
\* of equals the last (PriorityArbiter).
BestRequestApplied ==
  [][pc = "apply" /\ pc' = "transition" =>
       \E i \in 1 .. Len(rivals) :
         /\ rivals[i] = slot
         /\ \A j \in 1 .. Len(rivals) :
              /\ rivals[j].priority <= slot.priority
              /\ j > i => rivals[j].priority < slot.priority]_vars

\* advance returns if callbacks do and if sends and stages stop coming.
AdvanceReturns == [](pc # "idle" => <>(pc = "idle"))

\* Every event posted is dispatched in the end.
EventsDispatched ==
  \A p \in Sources : \A n \in 1 .. MaxStage + MaxSend :
    [](posted[p] >= n => <>(dispatched[p] >= n))

\* A running task whose stop has been staged is over in the end.
StopTakesEffect ==
  \A h \in Handles :
    [](StopTaskOp(h, TRUE) \in {pending[t] : t \in DOMAIN pending}
         => <>(task[h].status = "over"))

=============================================================================
