---------------------------- MODULE MachineProofs ----------------------------
(***************************************************************************)
(* maokai-machine: what holds of Machine for every set of targets,         *)
(* priorities and arbiters, and whatever the bounds: its types, the one    *)
(* request in the pool, the way of tasks, events and requests through      *)
(* mailboxes, pool and queues.                                             *)
(***************************************************************************)
EXTENDS Machine, TreeViewProofs

-----------------------------------------------------------------------------
(* The pool of the reconciler.                                             *)

LEMMA RemoveProps ==
  ASSUME NEW pool, NEW t
  PROVE  /\ DOMAIN Remove(pool, t) = DOMAIN pool \ {t}
         /\ \A u \in DOMAIN pool \ {t} : Remove(pool, t)[u] = pool[u]
BY DEF Remove

\* The requests of a pool that an operation came into, or went out of.
LEMMA RequestsAfterInsert ==
  ASSUME NEW pool, NEW t, t \notin DOMAIN pool, NEW op
  PROVE  RequestsIn(Insert(pool, t, op)) =
           IF op.type = "Request" THEN RequestsIn(pool) \cup {t} ELSE RequestsIn(pool)
<1> DEFINE q == Insert(pool, t, op)
<1>1. /\ DOMAIN q = DOMAIN pool \cup {t} /\ q[t] = op
      /\ \A u \in DOMAIN pool : q[u] = pool[u]
  BY DEF Insert
<1> HIDE DEF q
<1>2. \A u : u \in RequestsIn(q) <=>
             u \in RequestsIn(pool) \/ (u = t /\ op.type = "Request")
  BY <1>1, Zenon DEF RequestsIn
<1> QED BY <1>2 DEF q

LEMMA RequestsAfterRemove ==
  ASSUME NEW pool, NEW t
  PROVE  RequestsIn(Remove(pool, t)) = RequestsIn(pool) \ {t}
<1> DEFINE q == Remove(pool, t)
<1>1. /\ DOMAIN q = DOMAIN pool \ {t}
      /\ \A u \in DOMAIN pool \ {t} : q[u] = pool[u]
  BY RemoveProps
<1> HIDE DEF q
<1>2. \A u : u \in RequestsIn(q) <=> u \in RequestsIn(pool) /\ u # t
  BY <1>1, Zenon DEF RequestsIn
<1> QED BY <1>2 DEF q

LEMMA EmptyProps == DOMAIN Empty = {}
BY DEF Empty

OneRequest(pool) == \A t, u \in RequestsIn(pool) : t = u

LEMMA InsertKeepsPool ==
  ASSUME NEW n \in Nat, NEW pool, IsPool(pool, n), NEW op \in Ops
  PROVE  IsPool(Insert(pool, n, op), n + 1) /\ IsPool(pool, n + 1)
<1>1. IsPool(pool, n + 1)
  BY DEF IsPool
<1> DEFINE q == Insert(pool, n, op)
<1>2. /\ DOMAIN q = DOMAIN pool \cup {n} /\ q[n] = op
      /\ \A u \in DOMAIN pool : u # n => q[u] = pool[u]
  BY DEF Insert
<1> HIDE DEF q
<1>3. ASSUME NEW u \in DOMAIN q
      PROVE  u \in Nat /\ u < n + 1 /\ q[u] \in Ops
  <2>1. CASE u = n
    BY <2>1, <1>2
  <2>2. CASE u # n
    <3>1. u \in DOMAIN pool /\ q[u] = pool[u]
      BY <2>2, <1>2
    <3> QED BY <3>1, <1>1 DEF IsPool
  <2> QED BY <2>1, <2>2
<1> QED BY <1>1, <1>3 DEF IsPool, q

LEMMA RemoveKeepsPool ==
  ASSUME NEW n, NEW pool, IsPool(pool, n), NEW e
  PROVE  IsPool(Remove(pool, e), n)
<1> DEFINE q == Remove(pool, e)
<1>1. /\ DOMAIN q = DOMAIN pool \ {e}
      /\ \A u \in DOMAIN pool \ {e} : q[u] = pool[u]
  BY RemoveProps, Zenon
<1> HIDE DEF q
<1> QED BY <1>1, Zenon DEF IsPool, q

LEMMA RuleKeepsPool ==
  ASSUME NEW n \in Nat, NEW pool, IsPool(pool, n), NEW op \in Ops
  PROVE  IsPool(RequestTransitionRule(pool, n, op), n + 1)
<1>1. IsPool(pool, n + 1) /\ IsPool(Insert(pool, n, op), n + 1)
  BY InsertKeepsPool
<1>2. \A e : IsPool(Insert(Remove(pool, e), n, op), n + 1)
  BY InsertKeepsPool, RemoveKeepsPool
<1> QED BY <1>1, <1>2 DEF RequestTransitionRule

\* The rule's own claim: if the pool holds at most one request, it still does
\* after any operation came in.
LEMMA RuleKeepsOneRequest ==
  ASSUME NEW n \in Nat, NEW pool, IsPool(pool, n), OneRequest(pool), NEW op \in Ops
  PROVE  OneRequest(RequestTransitionRule(pool, n, op))
<1>1. n \notin DOMAIN pool
  BY DEF IsPool
<1>2. CASE op.type # "Request"
  <2>1. RequestsIn(Insert(pool, n, op)) = RequestsIn(pool)
    BY <1>1, <1>2, RequestsAfterInsert
  <2> QED BY <2>1, <1>2 DEF OneRequest, RequestTransitionRule
<1>3. CASE op.type = "Request" /\ RequestsIn(pool) = {}
  <2>1. RequestsIn(Insert(pool, n, op)) = {n}
    BY <1>1, <1>3, RequestsAfterInsert
  <2> QED BY <2>1, <1>3 DEF OneRequest, RequestTransitionRule
<1>4. CASE op.type = "Request" /\ RequestsIn(pool) # {}
  <2> DEFINE e == Min(RequestsIn(pool))
  <2>1. e \in RequestsIn(pool)
    <3>1. RequestsIn(pool) \in SUBSET Nat
      BY DEF RequestsIn, IsPool
    <3> QED BY <3>1, <1>4, MinIsLeast
  <2>2. RequestsIn(pool) = {e}
    BY <2>1 DEF OneRequest
  <2>3. RequestTransitionRule(pool, n, op) = IF <<op, pool[e]>> \in arbiter
                                             THEN Insert(Remove(pool, e), n, op)
                                             ELSE pool
    BY <1>4 DEF RequestTransitionRule
  <2> HIDE DEF e
  <2>4. RequestsIn(Remove(pool, e)) = {}
    BY <2>2, RequestsAfterRemove
  <2>5. n \notin DOMAIN Remove(pool, e)
    BY <1>1, RemoveProps
  <2>6. RequestsIn(Insert(Remove(pool, e), n, op)) = {n}
    BY <2>4, <2>5, <1>4, RequestsAfterInsert
  <2> QED BY <2>3, <2>6 DEF OneRequest
<1> QED BY <1>2, <1>3, <1>4

-----------------------------------------------------------------------------
(* Type correctness.                                                       *)

LEMMA OpFacts ==
  /\ \A op \in Ops : /\ op.type = "Event" => op \in Events
                     /\ op.type = "Request" => op \in Requests
                     /\ op.type \in {"Start", "Stop"} => op.handle \in Handles
  /\ \A p \in Sources, n \in Nat : Event(p, n) \in Ops
  /\ \A s \in Targets, p \in Priorities : RequestTransitionOp(s, p) \in Ops
  /\ \A h \in Handles : StartTaskOp(h) \in Ops /\ \A known \in BOOLEAN : StopTaskOp(h, known) \in Ops
  /\ OtherOp \in Ops
  /\ \A e \in Events : e.src \in Sources
  /\ \A r \in Requests : r.target \in Targets
BY DEF Ops, Events, Requests, TaskOps, OtherOp, Event, RequestTransitionOp,
       StartTaskOp, StopTaskOp

LEMMA StageFacts ==
  ASSUME next_ticket \in Nat, IsPool(pending, next_ticket), IsPool(batch, next_ticket),
         rivals \in Seq(Requests), NEW op \in Ops, stage_boxed(op)
  PROVE  /\ next_ticket' \in Nat /\ rivals' \in Seq(Requests)
         /\ IsPool(pending', next_ticket') /\ IsPool(batch, next_ticket')
         /\ OneRequest(pending) => OneRequest(pending')
<1>1. /\ next_ticket' = next_ticket + 1
      /\ pending' = RequestTransitionRule(pending, next_ticket, op)
  BY DEF stage_boxed
<1>2. IsPool(pending', next_ticket')
  BY <1>1, RuleKeepsPool
<1>3. IsPool(batch, next_ticket')
  BY <1>1 DEF IsPool
<1>4. rivals' \in Seq(Requests)
  BY OpFacts DEF stage_boxed
<1>5. OneRequest(pending) => OneRequest(pending')
  BY <1>1, RuleKeepsOneRequest
<1> QED BY <1>1, <1>2, <1>3, <1>4, <1>5

LEMMA InitTyped == Init => TypeOK
<1> SUFFICES ASSUME Init PROVE TypeOK
  OBVIOUS
<1> USE MachineAssumption DEF Init
<1>1. LoopOK
  BY DEF LoopOK, PCs
<1>2. ReconcilerOK
  BY EmptyProps DEF ReconcilerOK, IsPool, PriorityArbiter
<1>3. QueuesOK
  BY DEF QueuesOK
<1>4. TasksOK
  BY DEF TasksOK, NoTask, Tasks, TaskKinds, Statuses, Sources
<1> QED BY <1>1, <1>2, <1>3, <1>4 DEF TypeOK

LEMMA NewTaskTyped ==
  ASSUME TypeOK, NEW h, NEW k \in TaskKinds, NewTask(h, k), UNCHANGED stopped
  PROVE  TasksOK'
<1>1. [kind |-> k, status |-> "requested"] \in Tasks
  BY DEF Tasks, Statuses
<1>2. task' \in [Handles -> Tasks]
  BY <1>1 DEF TypeOK, TasksOK, NewTask
<1> QED BY <1>2 DEF TypeOK, TasksOK, NewTask

\* Everything user code stages directly leaves these alone.
LEMMA StagesTyped ==
  ASSUME TypeOK, NEW kind, Stages(kind), NEW op \in Ops, stage_boxed(op),
         posted' \in [Sources -> Nat], TasksOK'
  PROVE  TypeOK'
<1>1. LoopOK'
  BY DEF TypeOK, LoopOK, Stages, loop
<1>2. ReconcilerOK'
  BY StageFacts DEF TypeOK, ReconcilerOK, Stages, loop
<1>3. QueuesOK'
  BY DEF TypeOK, QueuesOK, Stages, queues
<1>4. staged' \in 0 .. MaxStage /\ sent' \in 0 .. MaxSend
  BY MachineAssumption DEF TypeOK, Stages
<1> QED BY <1>1, <1>2, <1>3, <1>4 DEF TypeOK

LEMMA UserStepTyped == TypeOK /\ UserStep => TypeOK'
<1> SUFFICES ASSUME TypeOK, UserStep PROVE TypeOK'
  OBVIOUS
<1> USE MachineAssumption
<1>0. UNCHANGED <<tasks, stopped>> => TasksOK'
  BY DEF TypeOK, TasksOK, tasks
<1>s. \A k : Stages(k) => stopped' = stopped
  BY DEF Stages
<1>1. ASSUME NEW p \in Sources, post(p) PROVE TypeOK'
  <2>1. posted[p] \in Nat /\ posted' \in [Sources -> Nat]
    BY <1>1 DEF TypeOK, QueuesOK, post
  <2>2. Event(p, posted[p] + 1) \in Ops
    BY <2>1, OpFacts
  <2> QED BY <1>1, <2>1, <2>2, <1>0, <1>s, StagesTyped DEF post
<1>2. ASSUME NEW s \in Targets, NEW p \in Priorities, request_transition(s, p)
      PROVE  TypeOK'
  <2>1. posted' \in [Sources -> Nat]
    BY <1>2 DEF TypeOK, QueuesOK, request_transition
  <2> QED BY <1>2, <2>1, <1>0, <1>s, OpFacts, StagesTyped DEF request_transition
<1>3. ASSUME NEW h \in Handles, NEW k \in Kinds, start_task(h, k) PROVE TypeOK'
  <2>1. posted' \in [Sources -> Nat]
    BY <1>3 DEF TypeOK, QueuesOK, start_task
  <2>2. TasksOK'
    BY <1>3, <1>s, NewTaskTyped DEF start_task
  <2> QED BY <1>3, <2>1, <2>2, OpFacts, StagesTyped DEF start_task
<1>4. ASSUME NEW h \in Handles, stop_task(h) PROVE TypeOK'
  <2>1. posted' \in [Sources -> Nat]
    BY <1>4 DEF TypeOK, QueuesOK, stop_task
  <2> QED BY <1>4, <2>1, <1>0, <1>s, OpFacts, StagesTyped DEF stop_task
<1>5. ASSUME stage_other PROVE TypeOK'
  <2>1. posted' \in [Sources -> Nat]
    BY <1>5 DEF TypeOK, QueuesOK, stage_other
  <2> QED BY <1>5, <2>1, <1>0, <1>s, OpFacts, StagesTyped DEF stage_other
<1>6. ASSUME NEW a \in Arbiters, set_transition_arbiter(a) PROVE TypeOK'
  BY <1>6 DEF TypeOK, LoopOK, ReconcilerOK, QueuesOK, TasksOK,
              set_transition_arbiter, loop, reconciler, queues, tasks, bounds, ghosts
<1> QED BY <1>1, <1>2, <1>3, <1>4, <1>5, <1>6 DEF UserStep

LEMMA SendsTyped ==
  ASSUME TypeOK, NEW h \in Handles, NEW op \in Ops, Sends(h, op),
         posted' \in [Sources -> Nat], TasksOK'
  PROVE  TypeOK'
<1>1. LoopOK'
  BY DEF TypeOK, LoopOK, Sends, loop
<1>2. ReconcilerOK'
  BY DEF TypeOK, ReconcilerOK, Sends, loop, reconciler
<1>3. QueuesOK'
  <2>1. mailbox' \in [Runtimes -> Seq(Ops)]
    BY DEF TypeOK, QueuesOK, Sends, Runtime, Runtimes
  <2> QED BY <2>1 DEF TypeOK, QueuesOK, Sends, queues
<1>4. staged' \in 0 .. MaxStage /\ sent' \in 0 .. MaxSend
  BY MachineAssumption DEF TypeOK, Sends
<1> QED BY <1>1, <1>2, <1>3, <1>4 DEF TypeOK

LEMMA TaskStepTyped == TypeOK /\ TaskStep => TypeOK'
<1> SUFFICES ASSUME TypeOK, NEW h \in Handles,
                    \/ send_post(h)
                    \/ \E s \in Targets, p \in Priorities :
                         send_request_transition(h, s, p)
                    \/ \E g \in Handles : send_start_task(h, g) \/ send_stop_task(h, g)
                    \/ task_returns(h) \/ task_aborted(h)
             PROVE  TypeOK'
  BY DEF TaskStep
<1> USE MachineAssumption
<1>0. UNCHANGED <<tasks, stopped>> => TasksOK'
  BY DEF TypeOK, TasksOK, tasks
<1>s. \A op : Sends(h, op) => stopped' = stopped
  BY DEF Sends
<1>1. CASE send_post(h)
  <2>1. posted[h] \in Nat /\ posted' \in [Sources -> Nat] /\ h \in Sources
    BY <1>1 DEF TypeOK, QueuesOK, send_post, Sources
  <2>2. Event(h, posted[h] + 1) \in Ops
    BY <2>1, OpFacts
  <2> QED BY <1>1, <2>1, <2>2, <1>0, <1>s, SendsTyped DEF send_post
<1>2. ASSUME NEW s \in Targets, NEW p \in Priorities, send_request_transition(h, s, p)
      PROVE  TypeOK'
  <2>1. posted' \in [Sources -> Nat]
    BY <1>2 DEF TypeOK, QueuesOK, send_request_transition
  <2> QED BY <1>2, <2>1, <1>0, <1>s, OpFacts, SendsTyped DEF send_request_transition
<1>3. ASSUME NEW g \in Handles, send_start_task(h, g) PROVE TypeOK'
  <2>1. posted' \in [Sources -> Nat]
    BY <1>3 DEF TypeOK, QueuesOK, send_start_task
  <2>2. TasksOK'
    BY <1>3, <1>s, NewTaskTyped DEF send_start_task, TaskKinds
  <2> QED BY <1>3, <2>1, <2>2, OpFacts, SendsTyped DEF send_start_task
<1>4. ASSUME NEW g \in Handles, send_stop_task(h, g) PROVE TypeOK'
  <2>1. posted' \in [Sources -> Nat]
    BY <1>4 DEF TypeOK, QueuesOK, send_stop_task
  <2>2. \A b \in BOOLEAN : StopTaskOp(g, b) \in Ops
    BY OpFacts
  <2>3. DrainedAfter(Runtime(task[h].kind), StartTaskOp(g)) \in BOOLEAN
    BY DEF DrainedAfter
  <2> QED BY <1>4, <2>1, <2>2, <2>3, <1>0, <1>s, SendsTyped DEF send_stop_task
<1>5. ASSUME SetStatus(h, "over") PROVE TypeOK'
  <2>1. TasksOK'
    BY <1>5 DEF TypeOK, TasksOK, SetStatus, ghosts, Tasks, Statuses
  <2> QED BY <1>5, <2>1 DEF TypeOK, LoopOK, ReconcilerOK, QueuesOK, SetStatus,
                            loop, reconciler, queues, bounds, ghosts
<1> QED BY <1>1, <1>2, <1>3, <1>4, <1>5 DEF task_returns, task_aborted

\* The steps of advance_with that only move pc, progressed and drained_any.
LEMMA MovesTyped ==
  ASSUME TypeOK, pc' \in PCs, pc \notin {"route", "transition", "on_event"},
         pc' \notin {"route", "transition", "on_event"},
         progressed' \in BOOLEAN, drained_any' \in BOOLEAN,
         UNCHANGED <<current, hand, reconciler, batch, arbiter, queues, mailbox,
                     tasks, bounds, ghosts>>
  PROVE  TypeOK'
<1>1. LoopOK'
  BY DEF TypeOK, LoopOK
<1>2. ReconcilerOK'
  BY DEF TypeOK, ReconcilerOK, reconciler, ghosts
<1>3. QueuesOK' /\ TasksOK'
  BY DEF TypeOK, QueuesOK, TasksOK, queues, tasks, ghosts
<1> QED BY <1>1, <1>2, <1>3 DEF TypeOK, bounds

LEMMA ConsumeTyped ==
  ASSUME TypeOK, NEW op \in Ops, UNCHANGED <<mailbox, posted, dispatched, next_handle>>,
         \/ EventOpConsumer(op) \/ RequestTransitionConsumer(op)
         \/ SpawnTask(op) \/ AbortTask(op) \/ Unhandled(op)
  PROVE  QueuesOK' /\ TasksOK'
<1>1. CASE EventOpConsumer(op)
  BY <1>1, OpFacts DEF EventOpConsumer, TypeOK, QueuesOK, TasksOK
<1>2. CASE RequestTransitionConsumer(op)
  BY <1>2, OpFacts DEF RequestTransitionConsumer, TypeOK, QueuesOK, TasksOK
<1>3. CASE SpawnTask(op)
  <2>1. op.handle \in Handles
    BY <1>3, OpFacts DEF SpawnTask
  <2>2. Runtime(task[op.handle].kind) \in Runtimes
    BY DEF Runtime, Runtimes
  <2>3. running' \in [Runtimes -> SUBSET Handles]
    BY <1>3, <2>1, <2>2 DEF SpawnTask, TypeOK, TasksOK
  <2>4. task' \in [Handles -> Tasks]
    BY <1>3, <2>1 DEF SpawnTask, TypeOK, TasksOK, Tasks, Statuses
  <2> QED BY <1>3, <2>3, <2>4 DEF SpawnTask, TypeOK, QueuesOK, TasksOK, queues
<1>4. CASE AbortTask(op)
  <2>1. op.handle \in Handles
    BY <1>4, OpFacts DEF AbortTask
  <2>2. running' \in [Runtimes -> SUBSET Handles]
    BY <1>4 DEF AbortTask, TypeOK, TasksOK
  <2>3. task' \in [Handles -> Tasks]
    BY <1>4, <2>1 DEF AbortTask, TypeOK, TasksOK, Tasks, Statuses
  <2>4. stopped' \subseteq Handles
    BY <1>4, <2>1 DEF AbortTask, TypeOK, TasksOK
  <2> QED BY <1>4, <2>2, <2>3, <2>4 DEF AbortTask, TypeOK, QueuesOK, TasksOK, queues
<1>5. CASE Unhandled(op)
  BY <1>5 DEF Unhandled, TypeOK, QueuesOK, TasksOK, queues
<1> QED BY <1>1, <1>2, <1>3, <1>4, <1>5

LEMMA RouteNextFacts ==
  ASSUME TypeOK, pc = "route"
  PROVE  RouteNext \in DOMAIN batch /\ batch[RouteNext] \in Ops
<1>1. DOMAIN batch \in SUBSET Nat /\ DOMAIN batch # {}
  BY DEF TypeOK, ReconcilerOK, IsPool
<1>2. RouteNext \in DOMAIN batch
  BY <1>1, MinIsLeast DEF RouteNext
<1> QED BY <1>2 DEF TypeOK, ReconcilerOK, IsPool

LEMMA RouteTyped == TypeOK /\ route => TypeOK'
<1> SUFFICES ASSUME TypeOK, route PROVE TypeOK'
  OBVIOUS
<1> DEFINE t == RouteNext
<1>1. t \in DOMAIN batch /\ batch[t] \in Ops
  BY RouteNextFacts DEF route
<1>2. /\ pc = "route" /\ batch' = Remove(batch, t)
      /\ pc' = IF DOMAIN batch = {t} THEN "commit" ELSE "route"
      /\ \/ EventOpConsumer(batch[t]) \/ RequestTransitionConsumer(batch[t])
         \/ SpawnTask(batch[t]) \/ AbortTask(batch[t]) \/ Unhandled(batch[t])
      /\ UNCHANGED <<progressed, drained_any, current, hand, reconciler, arbiter,
                     mailbox, next_handle, bounds, posted, dispatched, rivals>>
  BY DEF route
<1> HIDE DEF t
<1>3. LoopOK'
  BY <1>2 DEF TypeOK, LoopOK, PCs
<1>4. ReconcilerOK'
  <2>1. IsPool(batch', next_ticket')
    BY <1>2, RemoveKeepsPool DEF TypeOK, ReconcilerOK, reconciler
  <2>2. DOMAIN batch' = DOMAIN batch \ {t}
    BY <1>2, RemoveProps
  <2>3. pc' = "route" <=> DOMAIN batch' # {}
    BY <1>1, <1>2, <2>2
  <2> QED BY <1>2, <2>1, <2>3 DEF TypeOK, ReconcilerOK, reconciler
<1>5. QueuesOK' /\ TasksOK'
  BY <1>1, <1>2, ConsumeTyped
<1> QED BY <1>2, <1>3, <1>4, <1>5 DEF TypeOK, bounds

LEMMA LoopStepTyped == TypeOK /\ LoopStep => TypeOK'
<1> SUFFICES ASSUME TypeOK, LoopStep PROVE TypeOK'
  OBVIOUS
<1>0. progressed \in BOOLEAN /\ drained_any \in BOOLEAN
  BY DEF TypeOK, LoopOK
<1>1. CASE commit
  <2>1. LoopOK'
    BY <1>1 DEF commit, TypeOK, LoopOK, PCs
  <2>2. ReconcilerOK'
    BY <1>1, EmptyProps DEF commit, TypeOK, ReconcilerOK, IsPool, ghosts
  <2>3. QueuesOK' /\ TasksOK'
    BY <1>1 DEF commit, TypeOK, QueuesOK, TasksOK, queues, tasks, ghosts
  <2> QED BY <1>1, <2>1, <2>2, <2>3 DEF commit, TypeOK, bounds
<1>2. CASE all_committed
  BY <1>0, <1>2, MovesTyped DEF all_committed, PCs
<1>3. CASE route
  BY <1>3, RouteTyped
<1>4. CASE drain
  <2> DEFINE m == IF mailbox["local"] # << >> THEN "local" ELSE "send"
  <2>1. /\ m \in Runtimes /\ mailbox[m] \in Seq(Ops) /\ mailbox[m] # << >>
        /\ stage_boxed(Head(mailbox[m]))
        /\ mailbox' = [mailbox EXCEPT ![m] = Tail(@)]
    BY <1>4 DEF drain, TypeOK, QueuesOK, Runtimes
  <2> HIDE DEF m
  <2>2. Head(mailbox[m]) \in Ops /\ Tail(mailbox[m]) \in Seq(Ops)
    BY <2>1
  <2>3. mailbox' \in [Runtimes -> Seq(Ops)]
    BY <2>1, <2>2 DEF TypeOK, QueuesOK
  <2>4. LoopOK'
    BY <1>4 DEF drain, TypeOK, LoopOK
  <2>5. ReconcilerOK'
    BY <1>4, <2>1, <2>2, StageFacts DEF drain, TypeOK, ReconcilerOK
  <2>6. QueuesOK' /\ TasksOK'
    BY <1>4, <2>3 DEF drain, TypeOK, QueuesOK, TasksOK, queues, tasks
  <2> QED BY <1>4, <2>4, <2>5, <2>6 DEF drain, TypeOK, bounds
<1>5. CASE all_drained
  BY <1>0, <1>5, MovesTyped DEF all_drained, PCs
<1>6. CASE apply
  <2>1. LoopOK'
    BY <1>6 DEF apply, TypeOK, LoopOK, QueuesOK, PCs
  <2>2. ReconcilerOK'
    BY <1>6 DEF apply, TypeOK, ReconcilerOK, reconciler
  <2>3. QueuesOK' /\ TasksOK'
    BY <1>6 DEF apply, TypeOK, QueuesOK, TasksOK, tasks
  <2> QED BY <1>6, <2>1, <2>2, <2>3 DEF apply, TypeOK, bounds
<1>7. CASE nothing_to_apply
  BY <1>0, <1>7, MovesTyped DEF nothing_to_apply, PCs
<1>8. CASE transitioned
  <2>1. LoopOK'
    BY <1>8, OpFacts DEF transitioned, TypeOK, LoopOK, PCs
  <2>2. ReconcilerOK'
    BY <1>8 DEF transitioned, TypeOK, ReconcilerOK, reconciler, ghosts
  <2>3. QueuesOK' /\ TasksOK'
    BY <1>8 DEF transitioned, TypeOK, QueuesOK, TasksOK, queues, tasks, ghosts
  <2> QED BY <1>8, <2>1, <2>2, <2>3 DEF transitioned, TypeOK, bounds
<1>9. CASE dispatch
  <2>1. hand' \in Events /\ ready_events' \in Seq(Events)
    BY <1>9 DEF dispatch, TypeOK, QueuesOK
  <2>2. hand'.src \in Sources
    BY <2>1, OpFacts
  <2>3. dispatched' \in [Sources -> Nat]
    BY <1>9, <2>2 DEF dispatch, TypeOK, QueuesOK
  <2>4. LoopOK'
    BY <1>9, <2>1 DEF dispatch, TypeOK, LoopOK, PCs
  <2>5. ReconcilerOK'
    BY <1>9 DEF dispatch, TypeOK, ReconcilerOK, reconciler
  <2>6. QueuesOK' /\ TasksOK'
    BY <1>9, <2>1, <2>3 DEF dispatch, TypeOK, QueuesOK, TasksOK, tasks
  <2> QED BY <1>9, <2>4, <2>5, <2>6 DEF dispatch, TypeOK, bounds
<1>10. CASE handled
  <2>1. LoopOK'
    BY <1>10 DEF handled, TypeOK, LoopOK, PCs
  <2>2. ReconcilerOK'
    BY <1>10 DEF handled, TypeOK, ReconcilerOK, reconciler, ghosts
  <2>3. QueuesOK' /\ TasksOK'
    BY <1>10 DEF handled, TypeOK, QueuesOK, TasksOK, queues, tasks, ghosts
  <2> QED BY <1>10, <2>1, <2>2, <2>3 DEF handled, TypeOK, bounds
<1>11. CASE all_dispatched
  BY <1>0, <1>11, MovesTyped DEF all_dispatched, PCs
<1>12. CASE check
  BY <1>0, <1>12, MovesTyped DEF check, PCs
<1> QED BY <1>1, <1>2, <1>3, <1>4, <1>5, <1>6, <1>7, <1>8, <1>9, <1>10, <1>11, <1>12
        DEF LoopStep

LEMMA StepTyped == TypeOK /\ [Next]_vars => TypeOK'
<1> SUFFICES ASSUME TypeOK, [Next]_vars PROVE TypeOK'
  OBVIOUS
<1>0. progressed \in BOOLEAN /\ drained_any \in BOOLEAN
  BY DEF TypeOK, LoopOK
<1>1. CASE UserStep
  BY <1>1, UserStepTyped
<1>2. CASE TaskStep
  BY <1>2, TaskStepTyped
<1>3. CASE advance
  BY <1>0, <1>3, MovesTyped DEF advance, PCs
<1>4. ASSUME NEW s \in Targets, init(s) PROVE TypeOK'
  <2>1. RequestTransitionOp(s, NORMAL) \in Ops
    BY MachineAssumption, OpFacts
  <2>2. LoopOK'
    BY <1>4 DEF init, TypeOK, LoopOK, PCs
  <2>3. ReconcilerOK'
    BY <1>4, <2>1, StageFacts DEF init, TypeOK, ReconcilerOK
  <2>4. QueuesOK' /\ TasksOK'
    BY <1>4 DEF init, TypeOK, QueuesOK, TasksOK, queues, tasks
  <2>5. staged' \in 0 .. MaxStage /\ sent' \in 0 .. MaxSend
    BY <1>4, MachineAssumption DEF init, TypeOK
  <2> QED BY <2>2, <2>3, <2>4, <2>5 DEF TypeOK
<1>5. ASSUME NEW s \in Targets, replied_transition(s) PROVE TypeOK'
  <2>1. RequestTransitionOp(s, NORMAL) \in Ops
    BY MachineAssumption, OpFacts
  <2>2. LoopOK'
    BY <1>5 DEF replied_transition, TypeOK, LoopOK, PCs
  <2>3. ReconcilerOK'
    BY <1>5, <2>1, StageFacts DEF replied_transition, TypeOK, ReconcilerOK
  <2>4. QueuesOK' /\ TasksOK'
    BY <1>5 DEF replied_transition, TypeOK, QueuesOK, TasksOK, queues, tasks
  <2>5. staged' \in 0 .. MaxStage /\ sent' \in 0 .. MaxSend
    BY <1>5, MachineAssumption DEF replied_transition, TypeOK
  <2> QED BY <2>2, <2>3, <2>4, <2>5 DEF TypeOK
<1>6. CASE LoopStep
  BY <1>6, LoopStepTyped
<1>7. CASE UNCHANGED vars
  BY <1>7 DEF TypeOK, LoopOK, ReconcilerOK, QueuesOK, TasksOK, vars, loop,
              reconciler, queues, tasks, bounds, ghosts
<1> QED BY <1>1, <1>2, <1>3, <1>4, <1>5, <1>6, <1>7 DEF Next

\* The machine's state is always well typed; in particular the callbacks run
\* for a request or an event, and commit hands out a pool exactly while it
\* routes one.
THEOREM TypeCorrect == Spec => []TypeOK
BY InitTyped, StepTyped, PTL DEF Spec

-----------------------------------------------------------------------------
(* At most one request, for every arbiter.                                 *)

LEMMA StageKeepsOneRequest ==
  ASSUME TypeOK, AtMostOneRequest, NEW op \in Ops, stage_boxed(op), UNCHANGED batch
  PROVE  AtMostOneRequest'
<1>1. OneRequest(pending')
  BY StageFacts DEF TypeOK, ReconcilerOK, AtMostOneRequest, OneRequest
<1> QED BY <1>1 DEF AtMostOneRequest, OneRequest, RequestsIn

LEMMA StepKeepsOneRequest ==
  TypeOK /\ AtMostOneRequest /\ [Next]_vars => AtMostOneRequest'
<1> SUFFICES ASSUME TypeOK, AtMostOneRequest, [Next]_vars PROVE AtMostOneRequest'
  OBVIOUS
<1> USE MachineAssumption
<1>0. UNCHANGED <<pending, batch>> => AtMostOneRequest'
  BY DEF AtMostOneRequest, RequestsIn
<1>1. CASE UserStep
  <2>s. \A k : Stages(k) => UNCHANGED batch
    BY DEF Stages
  <2>1. ASSUME NEW p \in Sources, post(p) PROVE AtMostOneRequest'
    <3>1. Event(p, posted[p] + 1) \in Ops
      BY OpFacts DEF TypeOK, QueuesOK
    <3> QED BY <2>s, <2>1, <3>1, StageKeepsOneRequest DEF post
  <2>2. ASSUME NEW s \in Targets, NEW p \in Priorities, request_transition(s, p)
        PROVE  AtMostOneRequest'
    BY <2>s, <2>2, OpFacts, StageKeepsOneRequest DEF request_transition
  <2>3. ASSUME NEW h \in Handles, NEW k \in Kinds, start_task(h, k)
        PROVE  AtMostOneRequest'
    BY <2>s, <2>3, OpFacts, StageKeepsOneRequest DEF start_task
  <2>4. ASSUME NEW h \in Handles, stop_task(h) PROVE AtMostOneRequest'
    BY <2>s, <2>4, OpFacts, StageKeepsOneRequest DEF stop_task
  <2>5. ASSUME stage_other PROVE AtMostOneRequest'
    BY <2>s, <2>5, OpFacts, StageKeepsOneRequest DEF stage_other
  <2>6. ASSUME NEW a \in Arbiters, set_transition_arbiter(a) PROVE AtMostOneRequest'
    BY <1>0, <2>6 DEF set_transition_arbiter, reconciler
  <2> QED BY <1>1, <2>1, <2>2, <2>3, <2>4, <2>5, <2>6 DEF UserStep
<1>2. CASE TaskStep
  <2>1. UNCHANGED <<pending, batch>>
    BY <1>2 DEF TaskStep, send_post, send_request_transition, send_start_task,
                send_stop_task, task_returns, task_aborted, Sends, SetStatus, reconciler
  <2> QED BY <1>0, <2>1
<1>3. CASE advance
  BY <1>0, <1>3 DEF advance, reconciler
<1>4. ASSUME NEW s \in Targets, init(s) \/ replied_transition(s)
      PROVE  AtMostOneRequest'
  BY <1>4, OpFacts, StageKeepsOneRequest DEF init, replied_transition
<1>5. CASE LoopStep
  <2>1. CASE commit
    <3>1. RequestsIn(pending') = {}
      BY <2>1, EmptyProps DEF commit, RequestsIn
    <3>2. RequestsIn(batch') = RequestsIn(pending)
      BY <2>1 DEF commit, RequestsIn
    <3> QED BY <3>1, <3>2 DEF AtMostOneRequest, RequestsIn
  <2>2. CASE route
    <3>1. RequestsIn(batch') \subseteq RequestsIn(batch)
      BY <2>2, RequestsAfterRemove DEF route
    <3>2. pending' = pending
      BY <2>2 DEF route, reconciler
    <3> QED BY <3>1, <3>2 DEF AtMostOneRequest, RequestsIn
  <2>3. CASE drain
    <3>1. PICK m \in Runtimes : mailbox[m] # << >> /\ stage_boxed(Head(mailbox[m]))
      BY <2>3 DEF drain, Runtimes
    <3>2. Head(mailbox[m]) \in Ops
      BY <3>1 DEF TypeOK, QueuesOK
    <3> QED BY <2>3, <3>1, <3>2, StageKeepsOneRequest DEF drain
  <2>4. CASE all_committed \/ all_drained \/ apply \/ nothing_to_apply \/ transitioned
             \/ dispatch \/ handled \/ all_dispatched \/ check
    BY <1>0, <2>4 DEF all_committed, all_drained, apply, nothing_to_apply, transitioned,
                      dispatch, handled, all_dispatched, check, reconciler
  <2> QED BY <1>5, <2>1, <2>2, <2>3, <2>4 DEF LoopStep
<1>6. CASE UNCHANGED vars
  BY <1>0, <1>6 DEF vars, reconciler
<1> QED BY <1>1, <1>2, <1>3, <1>4, <1>5, <1>6 DEF Next

\* "Invariant: this rule keeps at most one RequestTransitionOp in pending":
\* for every arbiter, whenever it is replaced, and for every batch commit
\* hands out.
THEOREM OneRequestAlways == Spec => []AtMostOneRequest
<1>1. Init => AtMostOneRequest
  BY EmptyProps DEF Init, AtMostOneRequest, RequestsIn
<1> QED BY <1>1, StepKeepsOneRequest, TypeCorrect, PTL DEF Spec

-----------------------------------------------------------------------------
(* The way of an operation: mailbox, pool, batch.  What the steps of the   *)
(* machine do to it, in terms the later invariants share.                  *)

\* What the reconciler holds: its pending operations or, while commit hands
\* them out, those still to be routed.
Pool == IF pc = "route" THEN batch ELSE pending

\* Nothing is staged while commit hands out a batch.
PoolApart == pc = "route" => DOMAIN pending = {}

\* op came in under the next ticket, unless it is a request that lost; nothing
\* but a request that lost went out.
Staged(op) ==
  /\ \A t \in DOMAIN Pool' : \/ t \in DOMAIN Pool /\ Pool'[t] = Pool[t]
                             \/ t = next_ticket /\ Pool'[t] = op
  /\ \A t \in DOMAIN Pool :
       Pool[t].type # "Request" => t \in DOMAIN Pool' /\ Pool'[t] = Pool[t]
  /\ op.type # "Request" => next_ticket \in DOMAIN Pool' /\ Pool'[next_ticket] = op

\* The first operation was handed out.
Routed(t) ==
  /\ t \in DOMAIN Pool /\ \A u \in DOMAIN Pool : t <= u
  /\ \A u : u \in DOMAIN Pool' <=> u \in DOMAIN Pool /\ u # t
  /\ \A u \in DOMAIN Pool' : Pool'[u] = Pool[u]

\* op was appended to the mailbox of runtime m; or its first operation taken.
Sent(m, op) ==
  /\ m \in Runtimes /\ \A r \in Runtimes : r # m => mailbox'[r] = mailbox[r]
  /\ DOMAIN mailbox[m] = 1 .. Len(mailbox[m])
  /\ DOMAIN mailbox'[m] = 1 .. Len(mailbox[m]) + 1
  /\ \A i \in DOMAIN mailbox[m] : mailbox'[m][i] = mailbox[m][i]
  /\ mailbox'[m][Len(mailbox[m]) + 1] = op

Drained(m) ==
  /\ m \in Runtimes /\ \A r \in Runtimes : r # m => mailbox'[r] = mailbox[r]
  /\ 1 \in DOMAIN mailbox[m]
  /\ \A i \in DOMAIN mailbox[m] : i \in Nat /\ i >= 1 /\ (i = 1 \/ i - 1 \in DOMAIN mailbox'[m])
  /\ \A i \in DOMAIN mailbox'[m] :
       i \in Nat /\ i >= 1 /\ i + 1 \in DOMAIN mailbox[m] /\ mailbox'[m][i] = mailbox[m][i + 1]

\* Steps that leave everything on its way where it is.
QuietStep ==
  \/ \E a \in Arbiters : set_transition_arbiter(a)
  \/ advance \/ commit \/ all_committed \/ all_drained
  \/ apply \/ nothing_to_apply \/ transitioned
  \/ handled \/ all_dispatched \/ check
  \/ UNCHANGED vars

\* Steps that stage a request on the machine's thread.
RequestStep(op) ==
  \E s \in Targets, p \in Priorities :
    /\ op = RequestTransitionOp(s, p)
    /\ \/ request_transition(s, p)
       \/ p = NORMAL /\ (init(s) \/ replied_transition(s))

StatusStep(h) == task_returns(h) \/ task_aborted(h)

LEMMA NextSplits ==
  ASSUME [Next]_vars
  PROVE  \/ QuietStep \/ dispatch \/ route \/ drain \/ stage_other
         \/ \E p \in Sources : post(p)
         \/ \E op \in Requests : RequestStep(op)
         \/ \E h \in Handles, k \in Kinds : start_task(h, k)
         \/ \E h \in Handles : stop_task(h) \/ send_post(h) \/ StatusStep(h)
         \/ \E h \in Handles, s \in Targets, p \in Priorities :
              send_request_transition(h, s, p)
         \/ \E h, g \in Handles : send_start_task(h, g) \/ send_stop_task(h, g)
<1>1. \A s \in Targets, p \in Priorities :
        RequestTransitionOp(s, p) \in Requests
  BY DEF RequestTransitionOp, Requests
<1>2. ASSUME NEW s \in Targets, NEW p \in Priorities, request_transition(s, p)
      PROVE  \E op \in Requests : RequestStep(op)
  BY <1>1, <1>2 DEF RequestStep
<1>3. ASSUME NEW s \in Targets, init(s) \/ replied_transition(s)
      PROVE  \E op \in Requests : RequestStep(op)
  <2>1. NORMAL \in Priorities
    BY MachineAssumption
  <2> QED BY <1>1, <1>3, <2>1 DEF RequestStep
<1> QED BY <1>2, <1>3, Zenon DEF Next, UserStep, TaskStep, LoopStep, QuietStep, StatusStep

LEMMA PoolFacts ==
  ASSUME TypeOK
  PROVE  /\ next_ticket \in Nat
         /\ \A t \in DOMAIN Pool : t \in Nat /\ t < next_ticket /\ Pool[t] \in Ops
         /\ \A m \in Runtimes : /\ mailbox[m] \in Seq(Ops)
                                /\ Len(mailbox[m]) \in Nat
                                /\ DOMAIN mailbox[m] = 1 .. Len(mailbox[m])
                                /\ \A i \in DOMAIN mailbox[m] : mailbox[m][i] \in Ops
<1>1. \A m \in Runtimes : mailbox[m] \in Seq(Ops)
  BY DEF TypeOK, QueuesOK
<1> QED BY <1>1 DEF Pool, TypeOK, ReconcilerOK, IsPool

\* The rule keeps everything but the loser of two requests.
LEMMA RuleKeepsRest ==
  ASSUME NEW n \in Nat, NEW pool, IsPool(pool, n), NEW op
  PROVE  LET q == RequestTransitionRule(pool, n, op) IN
         /\ \A t \in DOMAIN q : \/ t \in DOMAIN pool /\ q[t] = pool[t]
                                \/ t = n /\ q[t] = op
         /\ \A t \in DOMAIN pool :
              pool[t].type # "Request" => t \in DOMAIN q /\ q[t] = pool[t]
         /\ op.type # "Request" => n \in DOMAIN q /\ q[n] = op
<1> DEFINE q == RequestTransitionRule(pool, n, op)
           e == Min(RequestsIn(pool))
<1>1. n \notin DOMAIN pool
  BY DEF IsPool
<1>2. CASE q = Insert(pool, n, op)
  <2> HIDE DEF q
  <2>1. /\ DOMAIN q = DOMAIN pool \cup {n} /\ q[n] = op
        /\ \A u \in DOMAIN pool : u # n => q[u] = pool[u]
    BY <1>2 DEF Insert
  <2> QED BY <2>1, <1>1 DEF q
<1>3. CASE /\ op.type = "Request" /\ RequestsIn(pool) # {}
           /\ q = Insert(Remove(pool, e), n, op)
  <2> DEFINE w == Remove(pool, e)
  <2>1. /\ DOMAIN w = DOMAIN pool \ {e}
        /\ \A u \in DOMAIN pool \ {e} : w[u] = pool[u]
    BY RemoveProps
  <2>2. /\ DOMAIN q = DOMAIN w \cup {n} /\ q[n] = op
        /\ \A u \in DOMAIN w : u # n => q[u] = w[u]
    <3> HIDE DEF q, w
    <3>1. q = Insert(w, n, op)
      BY <1>3 DEF w
    <3> QED BY <3>1 DEF Insert
  <2>3. e \in RequestsIn(pool)
    <3>1. RequestsIn(pool) \in SUBSET Nat
      BY DEF RequestsIn, IsPool
    <3> QED BY <3>1, <1>3, MinIsLeast
  <2>4. pool[e].type = "Request"
    BY <2>3 DEF RequestsIn
  <2> HIDE DEF q, w, e
  <2> QED BY <2>1, <2>2, <2>4, <1>1, <1>3 DEF q
<1>4. CASE op.type = "Request" /\ q = pool
  <2> HIDE DEF q
  <2> QED BY <1>4 DEF q
<1> QED BY <1>2, <1>3, <1>4 DEF RequestTransitionRule

LEMMA StageStep ==
  ASSUME TypeOK, NEW op, stage_boxed(op), pc # "route", pc' # "route"
  PROVE  Staged(op) /\ PoolApart'
<1>1. /\ next_ticket \in Nat /\ IsPool(pending, next_ticket)
      /\ pending' = RequestTransitionRule(pending, next_ticket, op)
  BY DEF TypeOK, ReconcilerOK, stage_boxed
<1>2. Pool = pending /\ Pool' = pending'
  BY DEF Pool
<1> QED BY <1>1, <1>2, RuleKeepsRest DEF Staged, PoolApart

LEMMA SendStep ==
  ASSUME TypeOK, PoolApart, NEW h \in Handles, NEW op, Sends(h, op)
  PROVE  Sent(Runtime(task[h].kind), op) /\ Pool' = Pool /\ PoolApart'
<1> DEFINE m == Runtime(task[h].kind)
<1>1. m \in Runtimes
  BY DEF Runtime, Runtimes
<1>2. mailbox' = [mailbox EXCEPT ![m] = Append(@, op)]
  BY DEF Sends
<1> HIDE DEF m
<1>3. mailbox[m] \in Seq(Ops) /\ mailbox \in [Runtimes -> Seq(Ops)]
  BY <1>1 DEF TypeOK, QueuesOK
<1>4. mailbox'[m] = Append(mailbox[m], op) /\ \A r \in Runtimes : r # m => mailbox'[r] = mailbox[r]
  BY <1>1, <1>2, <1>3
<1>5. Sent(m, op)
  <2> DEFINE s == mailbox[m]
             q == mailbox'[m]
  <2>1. s \in Seq(Ops) /\ q = Append(s, op)
    BY <1>3, <1>4
  <2> HIDE DEF s, q
  <2>2. /\ DOMAIN s = 1 .. Len(s) /\ DOMAIN q = 1 .. Len(s) + 1
        /\ \A i \in DOMAIN s : q[i] = s[i]
        /\ q[Len(s) + 1] = op
    BY <2>1
  <2> QED BY <1>1, <1>4, <2>2 DEF Sent, s, q
<1>6. Pool' = Pool /\ PoolApart'
  BY DEF Sends, Pool, PoolApart, loop, reconciler
<1> QED BY <1>5, <1>6 DEF m

LEMMA DrainStep ==
  ASSUME TypeOK, PoolApart, drain
  PROVE  /\ PoolApart'
         /\ \E m \in Runtimes :
              /\ Drained(m) /\ Staged(mailbox[m][1])
              /\ m = "local" \/ DOMAIN mailbox["local"] = {}
         /\ UNCHANGED <<tasks, queues, posted, dispatched, stopped>>
<1> DEFINE m == IF mailbox["local"] # << >> THEN "local" ELSE "send"
<1>1. /\ m \in Runtimes /\ mailbox[m] # << >>
      /\ stage_boxed(Head(mailbox[m]))
      /\ mailbox' = [mailbox EXCEPT ![m] = Tail(@)]
  BY DEF drain, Runtimes
<1>f. m = "local" \/ DOMAIN mailbox["local"] = {}
  OBVIOUS
<1> HIDE DEF m
<1>2. mailbox[m] \in Seq(Ops) /\ mailbox \in [Runtimes -> Seq(Ops)]
  BY <1>1 DEF TypeOK, QueuesOK
<1>3. mailbox'[m] = Tail(mailbox[m]) /\ \A r \in Runtimes : r # m => mailbox'[r] = mailbox[r]
  BY <1>1, <1>2
<1>4. Drained(m) /\ Head(mailbox[m]) = mailbox[m][1]
  <2> DEFINE s == mailbox[m]
             q == mailbox'[m]
  <2>1. s \in Seq(Ops) /\ q = Tail(s) /\ s # << >>
    BY <1>1, <1>2, <1>3
  <2> HIDE DEF s, q
  <2>2. /\ DOMAIN s = 1 .. Len(s) /\ Len(s) \in Nat /\ Len(s) >= 1
        /\ q \in Seq(Ops) /\ Len(q) = Len(s) - 1 /\ DOMAIN q = 1 .. Len(s) - 1
        /\ \A i \in 1 .. Len(s) - 1 : q[i] = s[i + 1]
        /\ Head(s) = s[1]
    BY <2>1
  <2> QED BY <1>1, <1>3, <2>2 DEF Drained, s, q
<1>5. Staged(mailbox[m][1]) /\ PoolApart'
  BY <1>1, <1>4, StageStep DEF drain
<1> QED BY <1>1, <1>4, <1>5, <1>f DEF drain

LEMMA RouteStep ==
  ASSUME TypeOK, PoolApart, route
  PROVE  /\ PoolApart'
         /\ \E t \in DOMAIN Pool :
              /\ Routed(t)
              /\ \/ EventOpConsumer(Pool[t]) \/ RequestTransitionConsumer(Pool[t])
                 \/ SpawnTask(Pool[t]) \/ AbortTask(Pool[t]) \/ Unhandled(Pool[t])
         /\ UNCHANGED <<mailbox, next_handle, posted, dispatched, rivals, hand>>
<1> DEFINE t == RouteNext
<1>1. t \in DOMAIN batch
  BY RouteNextFacts DEF route
<1>2. \A u \in DOMAIN batch : t <= u
  <2>1. DOMAIN batch \in SUBSET Nat /\ DOMAIN batch # {}
    BY <1>1 DEF TypeOK, ReconcilerOK, IsPool
  <2> QED BY <2>1, MinIsLeast DEF RouteNext
<1>3. /\ pc = "route" /\ batch' = Remove(batch, t) /\ pending' = pending
      /\ pc' = IF DOMAIN batch = {t} THEN "commit" ELSE "route"
      /\ \/ EventOpConsumer(batch[t]) \/ RequestTransitionConsumer(batch[t])
         \/ SpawnTask(batch[t]) \/ AbortTask(batch[t]) \/ Unhandled(batch[t])
      /\ UNCHANGED <<mailbox, next_handle, posted, dispatched, rivals, hand>>
  BY DEF route, reconciler
<1> HIDE DEF t
<1>4. Pool = batch
  BY <1>3 DEF Pool
<1>5. /\ DOMAIN batch' = DOMAIN batch \ {t}
      /\ \A u \in DOMAIN batch \ {t} : batch'[u] = batch[u]
  BY <1>3, RemoveProps
<1>6. Routed(t)
  <2>1. CASE DOMAIN batch = {t}
    <3>1. Pool' = pending /\ DOMAIN pending = {}
      BY <1>3, <2>1 DEF Pool, PoolApart
    <3> QED BY <3>1, <2>1, <1>1, <1>2, <1>4 DEF Routed
  <2>2. CASE DOMAIN batch # {t}
    <3>1. Pool' = batch'
      BY <1>3, <2>2 DEF Pool
    <3> QED BY <3>1, <1>1, <1>2, <1>4, <1>5 DEF Routed
  <2> QED BY <2>1, <2>2
<1>7. PoolApart'
  BY <1>3 DEF PoolApart
<1> QED BY <1>1, <1>3, <1>4, <1>6, <1>7

LEMMA QuietFacts ==
  ASSUME TypeOK, PoolApart, QuietStep \/ dispatch
  PROVE  /\ Pool' = Pool /\ PoolApart'
         /\ UNCHANGED <<mailbox, tasks, posted, stopped>>
         /\ QuietStep => UNCHANGED <<ready_events, dispatched>>
<1> USE DEF Pool, PoolApart
<1>1. CASE \E a \in Arbiters : set_transition_arbiter(a)
  BY <1>1 DEF set_transition_arbiter, loop, reconciler, queues, ghosts
<1>2. CASE advance \/ all_committed \/ all_drained \/ nothing_to_apply \/ all_dispatched
           \/ check
  BY <1>2 DEF advance, all_committed, all_drained, nothing_to_apply, all_dispatched,
              check, reconciler, queues, ghosts
<1>3. CASE commit
  BY <1>3, EmptyProps DEF commit, queues, ghosts
<1>4. CASE apply \/ transitioned \/ handled
  BY <1>4 DEF apply, transitioned, handled, reconciler, queues, ghosts
<1>5. CASE UNCHANGED vars
  BY <1>5 DEF vars, loop, reconciler, queues, ghosts
<1>6. CASE dispatch /\ ~ QuietStep
  BY <1>6 DEF dispatch, reconciler
<1> QED BY <1>1, <1>2, <1>3, <1>4, <1>5, <1>6 DEF QuietStep

\* What user code and event handlers stage on the machine's thread.
LEMMA DirectStep ==
  ASSUME TypeOK, PoolApart, NEW kind, NEW op, Stages(kind), stage_boxed(op)
  PROVE  /\ Staged(op) /\ PoolApart'
         /\ UNCHANGED <<mailbox, queues, dispatched, stopped, hand, pc>>
<1>1. /\ pc # "route" /\ UNCHANGED <<mailbox, queues, dispatched, stopped, hand, pc>>
  BY DEF Stages, InUserCode, loop
<1> QED BY <1>1, StageStep

LEMMA RequestFacts ==
  ASSUME TypeOK, PoolApart, NEW op, RequestStep(op)
  PROVE  /\ Staged(op) /\ PoolApart' /\ op.type = "Request"
         /\ UNCHANGED <<mailbox, queues, dispatched, stopped, tasks, posted>>
<1>1. PICK s \in Targets, p \in Priorities :
        /\ op = RequestTransitionOp(s, p)
        /\ \/ request_transition(s, p)
           \/ p = NORMAL /\ (init(s) \/ replied_transition(s))
  BY DEF RequestStep
<1>2. op.type = "Request"
  BY <1>1 DEF RequestTransitionOp
<1>3. CASE request_transition(s, p)
  BY <1>1, <1>2, <1>3, DirectStep DEF request_transition
<1>4. CASE p = NORMAL /\ (init(s) \/ replied_transition(s))
  <2>1. /\ stage_boxed(op) /\ pc # "route" /\ pc' # "route"
        /\ UNCHANGED <<mailbox, queues, dispatched, stopped, tasks, posted>>
    BY <1>1, <1>4 DEF init, replied_transition
  <2> QED BY <1>2, <2>1, StageStep
<1> QED BY <1>1, <1>3, <1>4

-----------------------------------------------------------------------------
(* Tasks: starts and stops meet in order, and every JoinHandle is kept.    *)

\* TaskHandle::next: the handles in use are those below next_handle.
HandlesFresh ==
  /\ next_handle >= 1
  /\ \A h \in Handles : task[h].status = "unused" <=> h >= next_handle

\* A start is on its way once: in the pool ...
StartsInPool ==
  \A t \in DOMAIN Pool : \A h \in Handles :
    Pool[t] = StartTaskOp(h) =>
      /\ task[h].status = "requested"
      /\ ~ InMailbox(StartTaskOp(h))
      /\ \A u \in DOMAIN Pool : Pool[u] = StartTaskOp(h) => u = t

\* ... or in a mailbox ...
StartsInMailbox ==
  \A m \in Runtimes : \A i \in DOMAIN mailbox[m] : \A h \in Handles :
    mailbox[m][i] = StartTaskOp(h) =>
      /\ task[h].status = "requested"
      /\ \A r \in Runtimes : \A j \in DOMAIN mailbox[r] :
           mailbox[r][j] = StartTaskOp(h) => r = m /\ j = i

\* ... until its task is spawned.
StartsNotLost ==
  \A h \in Handles :
    task[h].status = "requested" =>
      \/ \E t \in DOMAIN Pool : Pool[t] = StartTaskOp(h)
      \/ InMailbox(StartTaskOp(h))

KnownStop(h) == StopTaskOp(h, TRUE)
EarlyStop(h) == StopTaskOp(h, FALSE)

\* A stop is behind the start of its task, but one that was staged with the
\* start still in a mailbox is ahead of it.
StopsInPool ==
  \A t \in DOMAIN Pool : \A h \in Handles :
    /\ Pool[t] = KnownStop(h) =>
         /\ task[h].status # "unused"
         /\ ~ InMailbox(StartTaskOp(h))
         /\ \A u \in DOMAIN Pool : Pool[u] = StartTaskOp(h) => u < t
    /\ Pool[t] = EarlyStop(h) =>
         /\ task[h].status = "requested"
         /\ \A u \in DOMAIN Pool : Pool[u] = StartTaskOp(h) => t < u

\* Position j of mailbox r is drained before position i of mailbox m.
Ahead(r, j, m, i) == (r = m /\ j < i) \/ (r = "local" /\ m = "send")

\* The same in the mailboxes.  The only stops sent too early are those in the
\* local one for a start in the other.
StopsInMailbox ==
  \A m \in Runtimes : \A i \in DOMAIN mailbox[m] : \A h \in Handles :
    /\ mailbox[m][i] = EarlyStop(h) =>
         m = "local" /\ task[h].status = "requested" /\ DrainedAfter("local", StartTaskOp(h))
    /\ mailbox[m][i] = KnownStop(h) =>
         /\ task[h].status # "unused"
         /\ \A r \in Runtimes : \A j \in DOMAIN mailbox[r] :
              mailbox[r][j] = StartTaskOp(h) => Ahead(r, j, m, i)

\* The consumer of the task's kind has its JoinHandle.
HeldByKind == \A r \in Runtimes : \A h \in running[r] : r = Runtime(task[h].kind)

OpsInv == StartsInPool /\ StartsInMailbox /\ StartsNotLost /\ StopsInPool /\ StopsInMailbox
HandlesInv == HandlesFresh /\ HeldByKind /\ HandlesKept /\ StopIsFinal
TaskInv == OpsInv /\ HandlesInv

LEMMA TaskOpFacts ==
  /\ \A h, g : StartTaskOp(h) = StartTaskOp(g) => h = g
  /\ \A h, g : KnownStop(h) = KnownStop(g) => h = g
  /\ \A h, g : EarlyStop(h) = EarlyStop(g) => h = g
  /\ \A h, g : StartTaskOp(h) # KnownStop(g)
  /\ \A h, g : StartTaskOp(h) # EarlyStop(g)
  /\ \A h, g : KnownStop(h) # EarlyStop(g)
  /\ \A h : StartTaskOp(h).type = "Start" /\ StartTaskOp(h).handle = h
  /\ \A h : KnownStop(h).type = "Stop" /\ KnownStop(h).handle = h /\ KnownStop(h).known
  /\ \A h : EarlyStop(h).type = "Stop" /\ EarlyStop(h).handle = h /\ ~ EarlyStop(h).known
  /\ \A p, n : Event(p, n).type = "Event"
  /\ \A s, p : RequestTransitionOp(s, p).type = "Request"
  /\ OtherOp.type = "Other"
BY DEF StartTaskOp, StopTaskOp, KnownStop, EarlyStop, Event, RequestTransitionOp, OtherOp

LEMMA TaskOpShape ==
  ASSUME NEW op \in Ops
  PROVE  /\ op.type = "Start" => op.handle \in Handles /\ op = StartTaskOp(op.handle)
         /\ op.type = "Stop" => /\ op.handle \in Handles
                                /\ op = KnownStop(op.handle) \/ op = EarlyStop(op.handle)
BY DEF Ops, Events, Requests, TaskOps, OtherOp, StartTaskOp, StopTaskOp, KnownStop, EarlyStop

IsTaskOp(op) ==
  \E h \in Handles : op \in {StartTaskOp(h), KnownStop(h), EarlyStop(h)}

LEMMA TaskOpTypes ==
  /\ \A op : IsTaskOp(op) => op.type \in {"Start", "Stop"}
  /\ \A h \in Handles : /\ IsTaskOp(StartTaskOp(h))
                        /\ IsTaskOp(KnownStop(h)) /\ IsTaskOp(EarlyStop(h))
<1>1. ASSUME NEW op, IsTaskOp(op) PROVE op.type \in {"Start", "Stop"}
  <2>1. PICK h \in Handles : op = StartTaskOp(h) \/ op = KnownStop(h)
                             \/ op = EarlyStop(h)
    BY <1>1 DEF IsTaskOp
  <2> QED BY <2>1, TaskOpFacts
<1>2. ASSUME NEW h \in Handles
      PROVE  /\ IsTaskOp(StartTaskOp(h))
             /\ IsTaskOp(KnownStop(h)) /\ IsTaskOp(EarlyStop(h))
  BY DEF IsTaskOp
<1> QED BY <1>1, <1>2

\* What a step may do to a task while its start is on the way: end it.
SameTask(h) ==
  /\ task'[h].kind = task[h].kind
  /\ task'[h].status = "requested" <=> task[h].status = "requested"
  /\ task'[h].status = "unused" <=> task[h].status = "unused"

\* Starts stay where they are, stops too or they go.
LEMMA NeutralOps ==
  ASSUME TypeOK, OpsInv, \A h \in Handles : SameTask(h),
         \A op, t : IsTaskOp(op) /\ t \in DOMAIN Pool' /\ Pool'[t] = op
                      => t \in DOMAIN Pool /\ Pool[t] = op,
         \A h \in Handles : \A t \in DOMAIN Pool :
           Pool[t] = StartTaskOp(h) => t \in DOMAIN Pool' /\ Pool'[t] = StartTaskOp(h),
         \A op, i : IsTaskOp(op) =>
           \A m \in Runtimes : i \in DOMAIN mailbox'[m] /\ mailbox'[m][i] = op
                                 <=> i \in DOMAIN mailbox[m] /\ mailbox[m][i] = op
  PROVE  OpsInv'
<1>1. \A h \in Handles : InMailbox(StartTaskOp(h))' <=> InMailbox(StartTaskOp(h))
  BY TaskOpTypes DEF InMailbox
<1>2. StartsInPool'
  <2> SUFFICES ASSUME NEW t \in DOMAIN Pool', NEW h \in Handles, Pool'[t] = StartTaskOp(h)
               PROVE  /\ task'[h].status = "requested"
                      /\ ~ InMailbox(StartTaskOp(h))
                      /\ \A u \in DOMAIN Pool' : Pool'[u] = StartTaskOp(h) => u = t
    BY <1>1 DEF StartsInPool
  <2>1. t \in DOMAIN Pool /\ Pool[t] = StartTaskOp(h)
    BY TaskOpTypes
  <2>2. \A u \in DOMAIN Pool' : Pool'[u] = StartTaskOp(h) =>
          u \in DOMAIN Pool /\ Pool[u] = StartTaskOp(h)
    BY TaskOpTypes
  <2> QED BY <2>1, <2>2 DEF OpsInv, SameTask, StartsInPool
<1>3. StartsInMailbox'
  <2> SUFFICES ASSUME NEW m \in Runtimes, NEW i \in DOMAIN mailbox'[m], NEW h \in Handles,
                      mailbox'[m][i] = StartTaskOp(h)
               PROVE  /\ task'[h].status = "requested"
                      /\ \A r \in Runtimes : \A j \in DOMAIN mailbox'[r] :
                           mailbox'[r][j] = StartTaskOp(h) => r = m /\ j = i
    BY DEF StartsInMailbox
  <2>1. i \in DOMAIN mailbox[m] /\ mailbox[m][i] = StartTaskOp(h)
    BY TaskOpTypes
  <2>2. \A r \in Runtimes : \A j \in DOMAIN mailbox'[r] : mailbox'[r][j] = StartTaskOp(h) =>
          j \in DOMAIN mailbox[r] /\ mailbox[r][j] = StartTaskOp(h)
    BY TaskOpTypes
  <2> QED BY <2>1, <2>2 DEF OpsInv, SameTask, StartsInMailbox
<1>4. StartsNotLost'
  <2> SUFFICES ASSUME NEW h \in Handles, task'[h].status = "requested"
               PROVE  \/ \E t \in DOMAIN Pool' : Pool'[t] = StartTaskOp(h)
                      \/ InMailbox(StartTaskOp(h))
    BY <1>1 DEF StartsNotLost
  <2>1. ASSUME NEW t \in DOMAIN Pool, Pool[t] = StartTaskOp(h)
        PROVE  t \in DOMAIN Pool' /\ Pool'[t] = StartTaskOp(h)
    BY <2>1, TaskOpTypes
  <2> QED BY <2>1 DEF OpsInv, SameTask, StartsNotLost
<1>5. StopsInPool'
  <2> SUFFICES ASSUME NEW t \in DOMAIN Pool', NEW h \in Handles
               PROVE  /\ Pool'[t] = KnownStop(h) =>
                           /\ task'[h].status # "unused"
                           /\ ~ InMailbox(StartTaskOp(h))
                           /\ \A u \in DOMAIN Pool' : Pool'[u] = StartTaskOp(h) => u < t
                      /\ Pool'[t] = EarlyStop(h) =>
                           /\ task'[h].status = "requested"
                           /\ \A u \in DOMAIN Pool' : Pool'[u] = StartTaskOp(h) => t < u
    BY <1>1 DEF StopsInPool
  <2>1. \A u \in DOMAIN Pool' : Pool'[u] = StartTaskOp(h) =>
          u \in DOMAIN Pool /\ Pool[u] = StartTaskOp(h)
    BY TaskOpTypes
  <2>2. Pool'[t] = KnownStop(h) => t \in DOMAIN Pool /\ Pool[t] = KnownStop(h)
    BY TaskOpTypes
  <2>3. Pool'[t] = EarlyStop(h) => t \in DOMAIN Pool /\ Pool[t] = EarlyStop(h)
    BY TaskOpTypes
  <2> QED BY <2>1, <2>2, <2>3 DEF OpsInv, SameTask, StopsInPool
<1>6. StopsInMailbox'
  <2> SUFFICES ASSUME NEW m \in Runtimes, NEW i \in DOMAIN mailbox'[m], NEW h \in Handles
               PROVE  /\ mailbox'[m][i] = EarlyStop(h) =>
                           /\ m = "local" /\ task'[h].status = "requested"
                           /\ DrainedAfter("local", StartTaskOp(h))'
                      /\ mailbox'[m][i] = KnownStop(h) =>
                           /\ task'[h].status # "unused"
                           /\ \A r \in Runtimes : \A j \in DOMAIN mailbox'[r] :
                                mailbox'[r][j] = StartTaskOp(h) => Ahead(r, j, m, i)
    BY DEF StopsInMailbox
  <2>1. \A r \in Runtimes : \A j \in DOMAIN mailbox'[r] : mailbox'[r][j] = StartTaskOp(h) =>
          j \in DOMAIN mailbox[r] /\ mailbox[r][j] = StartTaskOp(h)
    BY TaskOpTypes
  <2>2. mailbox'[m][i] = KnownStop(h) =>
          i \in DOMAIN mailbox[m] /\ mailbox[m][i] = KnownStop(h)
    BY TaskOpTypes
  <2>3. mailbox'[m][i] = EarlyStop(h) =>
          i \in DOMAIN mailbox[m] /\ mailbox[m][i] = EarlyStop(h)
    BY TaskOpTypes
  <2>4. DrainedAfter("local", StartTaskOp(h)) => DrainedAfter("local", StartTaskOp(h))'
    BY TaskOpTypes DEF DrainedAfter, Runtimes
  <2> QED BY <2>1, <2>2, <2>3, <2>4 DEF OpsInv, SameTask, StopsInMailbox
<1> QED BY <1>2, <1>3, <1>4, <1>5, <1>6 DEF OpsInv

LEMMA NeutralHandles ==
  ASSUME HandlesInv, UNCHANGED <<tasks, stopped>>
  PROVE  HandlesInv'
BY DEF HandlesInv, HandlesFresh, HeldByKind, HandlesKept, StopIsFinal, tasks

LEMMA StagedNeutral ==
  ASSUME TypeOK, TaskInv, NEW op, op.type \notin {"Start", "Stop"}, Staged(op),
         UNCHANGED <<mailbox, tasks, stopped>>
  PROVE  TaskInv'
<1>1. ASSUME NEW x, IsTaskOp(x), NEW t
      PROVE  t \in DOMAIN Pool' /\ Pool'[t] = x <=> t \in DOMAIN Pool /\ Pool[t] = x
  <2>1. x.type \in {"Start", "Stop"}
    BY <1>1, TaskOpTypes
  <2> QED BY <2>1 DEF Staged
<1>2. \A h \in Handles : SameTask(h)
  BY DEF SameTask, tasks
<1> QED BY <1>1, <1>2, TaskOpTypes, NeutralOps, NeutralHandles DEF TaskInv

LEMMA SentNeutral ==
  ASSUME TypeOK, TaskInv, NEW op, op.type \notin {"Start", "Stop"},
         NEW r \in Runtimes, Sent(r, op), Pool' = Pool, UNCHANGED <<tasks, stopped>>
  PROVE  TaskInv'
<1>1. ASSUME NEW x, IsTaskOp(x), NEW m \in Runtimes, NEW i
      PROVE  i \in DOMAIN mailbox'[m] /\ mailbox'[m][i] = x
               <=> i \in DOMAIN mailbox[m] /\ mailbox[m][i] = x
  <2>1. x.type \in {"Start", "Stop"}
    BY <1>1, TaskOpTypes
  <2>2. CASE m = r
    <3>1. Len(mailbox[r]) \in Nat
      BY PoolFacts
    <3> QED BY <2>1, <2>2, <3>1 DEF Sent
  <2>3. CASE m # r
    BY <2>3 DEF Sent
  <2> QED BY <2>2, <2>3
<1>2. \A h \in Handles : SameTask(h)
  BY DEF SameTask, tasks
<1> QED BY <1>1, <1>2, TaskOpTypes, NeutralOps, NeutralHandles DEF TaskInv

LEMMA QuietNeutral ==
  ASSUME TypeOK, TaskInv, Pool' = Pool, UNCHANGED <<mailbox, tasks, stopped>>
  PROVE  TaskInv'
<1>1. \A h \in Handles : SameTask(h)
  BY DEF SameTask, tasks
<1> QED BY <1>1, NeutralOps, NeutralHandles DEF TaskInv

\* HandlesKept, handle by handle.
KeptAt(h) ==
  (\E r \in Runtimes : h \in running[r]) <=>
    task[h].status \in {"live", "aborting", "over"} /\ h \notin stopped

LEMMA KeptSets ==
  ASSUME NEW run \in [Runtimes -> SUBSET Handles], NEW tsk, NEW stop
  PROVE  UNION {run[r] : r \in Runtimes} =
           {h \in Handles : tsk[h].status \in {"live", "aborting", "over"}} \ stop
         <=> \A h \in Handles :
               (\E r \in Runtimes : h \in run[r]) <=>
                 tsk[h].status \in {"live", "aborting", "over"} /\ h \notin stop
<1> DEFINE held == UNION {run[r] : r \in Runtimes}
           kept == {h \in Handles : tsk[h].status \in {"live", "aborting", "over"}} \ stop
<1>1. \A h : h \in held <=> \E r \in Runtimes : h \in run[r]
  OBVIOUS
<1>2. \A h : h \in kept <=>
        h \in Handles /\ tsk[h].status \in {"live", "aborting", "over"} /\ h \notin stop
  OBVIOUS
<1>3. held \subseteq Handles /\ kept \subseteq Handles
  OBVIOUS
<1> HIDE DEF held, kept
<1>4. held = kept <=> \A h \in Handles : h \in held <=> h \in kept
  BY <1>3
<1> QED BY <1>1, <1>2, <1>4 DEF held, kept

LEMMA KeptPointwise ==
  ASSUME TypeOK
  PROVE  HandlesKept <=> \A h \in Handles : KeptAt(h)
BY KeptSets DEF TypeOK, TasksOK, HandlesKept, KeptAt

LEMMA KeptPointwiseNext ==
  ASSUME TypeOK'
  PROVE  HandlesKept' <=> \A h \in Handles : KeptAt(h)'
BY KeptSets DEF TypeOK, TasksOK, HandlesKept, KeptAt

LEMMA NewTaskFacts ==
  ASSUME TypeOK, TypeOK', HandlesInv, NEW h, NEW k, NewTask(h, k), UNCHANGED stopped
  PROVE  /\ h \in Handles /\ task[h].status = "unused"
         /\ task'[h].status = "requested"
         /\ \A g \in Handles : g # h => task'[g] = task[g]
         /\ HandlesInv'
<1>1. /\ h = next_handle /\ h \in Handles /\ next_handle' = next_handle + 1
      /\ task' = [task EXCEPT ![h] = [kind |-> k, status |-> "requested"]]
      /\ running' = running
  BY DEF NewTask
<1>2. /\ task \in [Handles -> Tasks] /\ running \in [Runtimes -> SUBSET Handles]
      /\ next_handle \in Nat
  BY DEF TypeOK, TasksOK
<1>3. task[h].status = "unused"
  BY <1>1, <1>2 DEF HandlesInv, HandlesFresh
<1>4. /\ task'[h].status = "requested"
      /\ \A g \in Handles : g # h => task'[g] = task[g]
  BY <1>1, <1>2
<1>5. \A g \in Handles : KeptAt(g)
  BY KeptPointwise DEF HandlesInv
<1>6. \A r \in Runtimes : h \notin running[r]
  BY <1>1, <1>3, <1>5 DEF KeptAt
<1>7. HandlesFresh'
  <2>1. ASSUME NEW g \in Handles PROVE task'[g].status = "unused" <=> g >= next_handle'
    BY <1>1, <1>2, <1>3, <1>4 DEF HandlesInv, HandlesFresh, Handles
  <2> QED BY <1>1, <1>2, <2>1 DEF HandlesInv, HandlesFresh
<1>8. HeldByKind'
  BY <1>1, <1>2, <1>4, <1>6 DEF HandlesInv, HeldByKind
<1>9. HandlesKept'
  <2>1. ASSUME NEW g \in Handles PROVE KeptAt(g)'
    <3>1. CASE g = h
      BY <3>1, <1>1, <1>4, <1>6 DEF KeptAt
    <3>2. CASE g # h
      BY <3>2, <1>1, <1>4, <1>5 DEF KeptAt
    <3> QED BY <3>1, <3>2
  <2> QED BY <2>1, KeptPointwiseNext
<1>10. StopIsFinal'
  BY <1>1, <1>3, <1>4 DEF HandlesInv, StopIsFinal, TypeOK, TasksOK
<1> QED BY <1>1, <1>3, <1>4, <1>7, <1>8, <1>9, <1>10 DEF HandlesInv

LEMMA StartTaskKeeps ==
  ASSUME TypeOK, TypeOK', PoolApart, TaskInv, NEW h \in Handles, NEW k, start_task(h, k)
  PROVE  TaskInv'
<1>1. /\ Staged(StartTaskOp(h)) /\ mailbox' = mailbox /\ stopped' = stopped
  BY DirectStep DEF start_task
<1>2. /\ task[h].status = "unused" /\ task'[h].status = "requested"
      /\ \A g \in Handles : g # h => task'[g] = task[g]
      /\ HandlesInv'
  BY <1>1, NewTaskFacts DEF start_task, TaskInv
<1> DEFINE n == next_ticket
<1>3. /\ \A t \in DOMAIN Pool' : \/ t \in DOMAIN Pool /\ Pool'[t] = Pool[t]
                                 \/ t = n /\ Pool'[t] = StartTaskOp(h)
      /\ n \in DOMAIN Pool' /\ Pool'[n] = StartTaskOp(h)
  BY <1>1, TaskOpFacts DEF Staged
<1>n. ASSUME NEW t \in DOMAIN Pool, NEW g \in Handles, Pool[t] = StartTaskOp(g)
      PROVE  t \in DOMAIN Pool' /\ Pool'[t] = StartTaskOp(g)
  BY <1>n, <1>1, TaskOpFacts DEF Staged
<1>t. n \in Nat /\ \A t \in DOMAIN Pool : t \in Nat /\ t < n
  BY PoolFacts
<1> HIDE DEF n
<1>m. \A g : InMailbox(StartTaskOp(g))' <=> InMailbox(StartTaskOp(g))
  BY <1>1 DEF InMailbox
<1>a. /\ \A t \in DOMAIN Pool : Pool[t] # StartTaskOp(h) /\ Pool[t] # KnownStop(h)
                                /\ Pool[t] # EarlyStop(h)
      /\ ~ InMailbox(StartTaskOp(h))
      /\ \A m \in Runtimes : \A i \in DOMAIN mailbox[m] :
           /\ mailbox[m][i] # StartTaskOp(h) /\ mailbox[m][i] # KnownStop(h)
           /\ mailbox[m][i] # EarlyStop(h)
  BY <1>2 DEF TaskInv, OpsInv, StartsInPool, StartsInMailbox, StopsInPool, StopsInMailbox,
              InMailbox
<1>4. StartsInPool'
  <2> SUFFICES ASSUME NEW t \in DOMAIN Pool', NEW g \in Handles, Pool'[t] = StartTaskOp(g)
               PROVE  /\ task'[g].status = "requested"
                      /\ ~ InMailbox(StartTaskOp(g))
                      /\ \A u \in DOMAIN Pool' : Pool'[u] = StartTaskOp(g) => u = t
    BY <1>m DEF StartsInPool
  <2>1. CASE g = h
    BY <2>1, <1>2, <1>3, <1>a
  <2>2. CASE g # h
    BY <2>2, <1>2, <1>3, TaskOpFacts DEF TaskInv, OpsInv, StartsInPool
  <2> QED BY <2>1, <2>2
<1>5. StartsInMailbox'
  <2> SUFFICES ASSUME NEW m \in Runtimes, NEW i \in DOMAIN mailbox[m], NEW g \in Handles,
                      mailbox[m][i] = StartTaskOp(g)
               PROVE  /\ task'[g].status = "requested"
                      /\ \A r \in Runtimes : \A j \in DOMAIN mailbox[r] :
                           mailbox[r][j] = StartTaskOp(g) => r = m /\ j = i
    BY <1>1 DEF StartsInMailbox
  <2>1. g # h
    BY <1>a
  <2> QED BY <2>1, <1>2 DEF TaskInv, OpsInv, StartsInMailbox
<1>6. StartsNotLost'
  <2> SUFFICES ASSUME NEW g \in Handles, task'[g].status = "requested"
               PROVE  \/ \E t \in DOMAIN Pool' : Pool'[t] = StartTaskOp(g)
                      \/ InMailbox(StartTaskOp(g))
    BY <1>m DEF StartsNotLost
  <2>1. CASE g = h
    BY <2>1, <1>3
  <2>2. CASE g # h
    BY <2>2, <1>2, <1>n DEF TaskInv, OpsInv, StartsNotLost
  <2> QED BY <2>1, <2>2
<1>7. StopsInPool'
  <2> SUFFICES ASSUME NEW t \in DOMAIN Pool', NEW g \in Handles
               PROVE  /\ Pool'[t] = KnownStop(g) =>
                           /\ task'[g].status # "unused"
                           /\ ~ InMailbox(StartTaskOp(g))
                           /\ \A u \in DOMAIN Pool' : Pool'[u] = StartTaskOp(g) => u < t
                      /\ Pool'[t] = EarlyStop(g) =>
                           /\ task'[g].status = "requested"
                           /\ \A u \in DOMAIN Pool' : Pool'[u] = StartTaskOp(g) => t < u
    BY <1>m DEF StopsInPool
  <2>1. CASE Pool'[t] = KnownStop(g)
    <3>1. t \in DOMAIN Pool /\ Pool[t] = KnownStop(g) /\ g # h
      BY <2>1, <1>3, <1>a, TaskOpFacts
    <3> QED BY <2>1, <3>1, <1>2, <1>3, TaskOpFacts DEF TaskInv, OpsInv, StopsInPool
  <2>2. CASE Pool'[t] = EarlyStop(g)
    <3>1. t \in DOMAIN Pool /\ Pool[t] = EarlyStop(g) /\ g # h
      BY <2>2, <1>3, <1>a, TaskOpFacts
    <3> QED BY <2>2, <3>1, <1>2, <1>3, TaskOpFacts DEF TaskInv, OpsInv, StopsInPool
  <2> QED BY <2>1, <2>2
<1>8. StopsInMailbox'
  <2> SUFFICES ASSUME NEW m \in Runtimes, NEW i \in DOMAIN mailbox[m], NEW g \in Handles
               PROVE  /\ mailbox[m][i] = EarlyStop(g) =>
                           /\ m = "local" /\ task'[g].status = "requested"
                           /\ DrainedAfter("local", StartTaskOp(g))
                      /\ mailbox[m][i] = KnownStop(g) =>
                           /\ task'[g].status # "unused"
                           /\ \A r \in Runtimes : \A j \in DOMAIN mailbox[r] :
                                mailbox[r][j] = StartTaskOp(g) => Ahead(r, j, m, i)
    BY <1>1 DEF StopsInMailbox, DrainedAfter
  <2>1. mailbox[m][i] = KnownStop(g) \/ mailbox[m][i] = EarlyStop(g) => g # h
    BY <1>a
  <2> QED BY <2>1, <1>2 DEF TaskInv, OpsInv, StopsInMailbox
<1> QED BY <1>2, <1>4, <1>5, <1>6, <1>7, <1>8 DEF TaskInv, OpsInv

LEMMA StopTaskKeeps ==
  ASSUME TypeOK, PoolApart, TaskInv, NEW h \in Handles, stop_task(h)
  PROVE  TaskInv'
<1> DEFINE n == next_ticket
           op == StopTaskOp(h, ~ InMailbox(StartTaskOp(h)))
<1>1. /\ Staged(op) /\ mailbox' = mailbox /\ UNCHANGED <<tasks, stopped>>
      /\ task' = task /\ task[h].status # "unused"
  BY DirectStep DEF stop_task, tasks
<1>2. IF InMailbox(StartTaskOp(h)) THEN op = EarlyStop(h) ELSE op = KnownStop(h)
  BY DEF EarlyStop, KnownStop
<1>t. n \in Nat /\ \A t \in DOMAIN Pool : t \in Nat /\ t < n
  BY PoolFacts
<1> HIDE DEF n, op
<1>3. /\ \A t \in DOMAIN Pool' : \/ t \in DOMAIN Pool /\ Pool'[t] = Pool[t]
                                 \/ t = n /\ Pool'[t] = op
      /\ \A t \in DOMAIN Pool : \A g \in Handles :
           Pool[t] = StartTaskOp(g) => t \in DOMAIN Pool' /\ Pool'[t] = StartTaskOp(g)
  BY <1>1, TaskOpFacts DEF Staged, n
<1>s. \A t \in DOMAIN Pool' : \A g \in Handles :
        Pool'[t] = StartTaskOp(g) => t \in DOMAIN Pool /\ Pool[t] = StartTaskOp(g)
  BY <1>2, <1>3, TaskOpFacts
<1>m. \A g : InMailbox(StartTaskOp(g))' <=> InMailbox(StartTaskOp(g))
  BY <1>1 DEF InMailbox
<1>4. StartsInPool'
  BY <1>1, <1>s, <1>m DEF TaskInv, OpsInv, StartsInPool
<1>5. StartsInMailbox' /\ StopsInMailbox'
  BY <1>1 DEF TaskInv, OpsInv, StartsInMailbox, StopsInMailbox, DrainedAfter
<1>6. StartsNotLost'
  BY <1>1, <1>3, <1>m DEF TaskInv, OpsInv, StartsNotLost
<1>7. StopsInPool'
  <2> SUFFICES ASSUME NEW t \in DOMAIN Pool', NEW g \in Handles
               PROVE  /\ Pool'[t] = KnownStop(g) =>
                           /\ task[g].status # "unused"
                           /\ ~ InMailbox(StartTaskOp(g))
                           /\ \A u \in DOMAIN Pool' : Pool'[u] = StartTaskOp(g) => u < t
                      /\ Pool'[t] = EarlyStop(g) =>
                           /\ task[g].status = "requested"
                           /\ \A u \in DOMAIN Pool' : Pool'[u] = StartTaskOp(g) => t < u
    BY <1>1, <1>m DEF StopsInPool
  <2>1. CASE t \in DOMAIN Pool /\ Pool'[t] = Pool[t]
    BY <2>1, <1>s DEF TaskInv, OpsInv, StopsInPool
  <2>2. CASE t = n /\ Pool'[t] = op /\ InMailbox(StartTaskOp(h))
    <3>1. Pool'[t] = EarlyStop(h)
      BY <2>2, <1>2
    <3>2. task[h].status = "requested"
      BY <2>2 DEF TaskInv, OpsInv, StartsInMailbox, InMailbox
    <3>3. \A u \in DOMAIN Pool : Pool[u] # StartTaskOp(h)
      BY <2>2 DEF TaskInv, OpsInv, StartsInPool
    <3> QED BY <3>1, <3>2, <3>3, <1>s, TaskOpFacts
  <2>3. CASE t = n /\ Pool'[t] = op /\ ~ InMailbox(StartTaskOp(h))
    <3>1. Pool'[t] = KnownStop(h)
      BY <2>3, <1>2
    <3> QED BY <2>3, <3>1, <1>1, <1>s, <1>t, TaskOpFacts
  <2> QED BY <2>1, <2>2, <2>3, <1>3
<1> QED BY <1>1, <1>4, <1>5, <1>6, <1>7, NeutralHandles DEF TaskInv, OpsInv

LEMMA SendStartKeeps ==
  ASSUME TypeOK, TypeOK', PoolApart, TaskInv, NEW h \in Handles, NEW g \in Handles,
         send_start_task(h, g)
  PROVE  TaskInv'
<1> DEFINE m == Runtime(task[h].kind)
           n == Len(mailbox[m])
<1>1. /\ Sent(m, StartTaskOp(g)) /\ Pool' = Pool /\ stopped' = stopped
  BY SendStep DEF send_start_task, Sends
<1>2. /\ task[g].status = "unused" /\ task'[g].status = "requested"
      /\ \A f \in Handles : f # g => task'[f] = task[f]
      /\ HandlesInv'
  BY <1>1, NewTaskFacts DEF send_start_task, TaskInv
<1>3. /\ m \in Runtimes /\ \A r \in Runtimes : r # m => mailbox'[r] = mailbox[r]
      /\ n \in Nat
      /\ \A i : i \in DOMAIN mailbox'[m] <=> i \in DOMAIN mailbox[m] \/ i = n + 1
      /\ \A i \in DOMAIN mailbox[m] : i \in Nat /\ i < n + 1 /\ mailbox'[m][i] = mailbox[m][i]
      /\ mailbox'[m][n + 1] = StartTaskOp(g)
  BY <1>1, PoolFacts DEF Sent
<1> HIDE DEF n, m
<1>a. /\ \A t \in DOMAIN Pool : Pool[t] # StartTaskOp(g) /\ Pool[t] # KnownStop(g)
                                /\ Pool[t] # EarlyStop(g)
      /\ \A r \in Runtimes : \A i \in DOMAIN mailbox[r] :
           /\ mailbox[r][i] # StartTaskOp(g) /\ mailbox[r][i] # KnownStop(g)
           /\ mailbox[r][i] # EarlyStop(g)
  BY <1>2 DEF TaskInv, OpsInv, StartsInPool, StartsInMailbox, StopsInPool, StopsInMailbox
<1>b. ASSUME NEW r \in Runtimes, NEW i \in DOMAIN mailbox'[r]
      PROVE  \/ i \in DOMAIN mailbox[r] /\ mailbox'[r][i] = mailbox[r][i]
             \/ r = m /\ i = n + 1 /\ mailbox'[r][i] = StartTaskOp(g)
  BY <1>3
<1>c. ASSUME NEW r \in Runtimes, NEW i \in DOMAIN mailbox[r]
      PROVE  i \in DOMAIN mailbox'[r] /\ mailbox'[r][i] = mailbox[r][i]
  BY <1>3
<1>m. /\ \A f \in Handles : f # g => (InMailbox(StartTaskOp(f))' <=> InMailbox(StartTaskOp(f)))
      /\ InMailbox(StartTaskOp(g))'
  <2>1. InMailbox(StartTaskOp(g))'
    BY <1>3 DEF InMailbox
  <2>2. ASSUME NEW f \in Handles, f # g
        PROVE  InMailbox(StartTaskOp(f))' <=> InMailbox(StartTaskOp(f))
    BY <2>2, <1>b, <1>c, TaskOpFacts DEF InMailbox
  <2> QED BY <2>1, <2>2
<1>4. StartsInPool'
  BY <1>1, <1>2, <1>m, <1>a DEF TaskInv, OpsInv, StartsInPool
<1>5. StartsInMailbox'
  <2> SUFFICES ASSUME NEW r \in Runtimes, NEW i \in DOMAIN mailbox'[r], NEW f \in Handles,
                      mailbox'[r][i] = StartTaskOp(f)
               PROVE  /\ task'[f].status = "requested"
                      /\ \A q \in Runtimes : \A j \in DOMAIN mailbox'[q] :
                           mailbox'[q][j] = StartTaskOp(f) => q = r /\ j = i
    BY DEF StartsInMailbox
  <2>1. CASE f = g
    BY <2>1, <1>2, <1>a, <1>b
  <2>2. CASE f # g
    <3>1. i \in DOMAIN mailbox[r] /\ mailbox[r][i] = StartTaskOp(f)
      BY <2>2, <1>b, TaskOpFacts
    <3>2. /\ task[f].status = "requested"
          /\ \A q \in Runtimes : \A j \in DOMAIN mailbox[q] :
               mailbox[q][j] = StartTaskOp(f) => q = r /\ j = i
      BY <3>1 DEF TaskInv, OpsInv, StartsInMailbox
    <3>3. \A q \in Runtimes : \A j \in DOMAIN mailbox'[q] :
            mailbox'[q][j] = StartTaskOp(f) => q = r /\ j = i
      BY <2>2, <3>2, <1>b, TaskOpFacts
    <3> QED BY <2>2, <3>2, <3>3, <1>2
  <2> QED BY <2>1, <2>2
<1>6. StartsNotLost'
  BY <1>1, <1>2, <1>m DEF TaskInv, OpsInv, StartsNotLost
<1>7. StopsInPool'
  BY <1>1, <1>2, <1>m, <1>a DEF TaskInv, OpsInv, StopsInPool
<1>8. StopsInMailbox'
  <2> SUFFICES ASSUME NEW r \in Runtimes, NEW i \in DOMAIN mailbox'[r], NEW f \in Handles
               PROVE  /\ mailbox'[r][i] = EarlyStop(f) =>
                           /\ r = "local" /\ task'[f].status = "requested"
                           /\ DrainedAfter("local", StartTaskOp(f))'
                      /\ mailbox'[r][i] = KnownStop(f) =>
                           /\ task'[f].status # "unused"
                           /\ \A q \in Runtimes : \A j \in DOMAIN mailbox'[q] :
                                mailbox'[q][j] = StartTaskOp(f) => Ahead(q, j, r, i)
    BY DEF StopsInMailbox
  <2>1. ASSUME mailbox'[r][i] = EarlyStop(f)
        PROVE  /\ r = "local" /\ task'[f].status = "requested"
               /\ DrainedAfter("local", StartTaskOp(f))'
    <3>1. i \in DOMAIN mailbox[r] /\ mailbox[r][i] = EarlyStop(f) /\ f # g
      BY <2>1, <1>a, <1>b, TaskOpFacts
    <3>2. r = "local" /\ task[f].status = "requested" /\ DrainedAfter("local", StartTaskOp(f))
      BY <3>1 DEF TaskInv, OpsInv, StopsInMailbox
    <3>3. DrainedAfter("local", StartTaskOp(f))'
      BY <3>2, <1>c DEF DrainedAfter, Runtimes
    <3> QED BY <3>1, <3>2, <3>3, <1>2
  <2>2. ASSUME mailbox'[r][i] = KnownStop(f)
        PROVE  /\ task'[f].status # "unused"
               /\ \A q \in Runtimes : \A j \in DOMAIN mailbox'[q] :
                    mailbox'[q][j] = StartTaskOp(f) => Ahead(q, j, r, i)
    <3>1. i \in DOMAIN mailbox[r] /\ mailbox[r][i] = KnownStop(f) /\ f # g
      BY <2>2, <1>a, <1>b, TaskOpFacts
    <3>2. \A q \in Runtimes : \A j \in DOMAIN mailbox'[q] : mailbox'[q][j] = StartTaskOp(f) =>
            j \in DOMAIN mailbox[q] /\ mailbox[q][j] = StartTaskOp(f)
      BY <3>1, <1>b, TaskOpFacts
    <3> QED BY <3>1, <3>2, <1>2 DEF TaskInv, OpsInv, StopsInMailbox
  <2> QED BY <2>1, <2>2
<1> QED BY <1>2, <1>4, <1>5, <1>6, <1>7, <1>8 DEF TaskInv, OpsInv

LEMMA SendStopKeeps ==
  ASSUME TypeOK, PoolApart, TaskInv, NEW h \in Handles, NEW g \in Handles,
         send_stop_task(h, g)
  PROVE  TaskInv'
<1> DEFINE m == Runtime(task[h].kind)
           n == Len(mailbox[m])
           op == StopTaskOp(g, ~ DrainedAfter(m, StartTaskOp(g)))
<1>1. /\ Sent(m, op) /\ Pool' = Pool /\ UNCHANGED <<tasks, stopped>>
      /\ task' = task /\ task[g].status # "unused"
  BY SendStep DEF send_stop_task, Sends, tasks
<1>2. IF DrainedAfter(m, StartTaskOp(g)) THEN op = EarlyStop(g) ELSE op = KnownStop(g)
  BY DEF EarlyStop, KnownStop
<1>3. /\ m \in Runtimes /\ \A r \in Runtimes : r # m => mailbox'[r] = mailbox[r]
      /\ n \in Nat
      /\ \A i : i \in DOMAIN mailbox'[m] <=> i \in DOMAIN mailbox[m] \/ i = n + 1
      /\ \A i \in DOMAIN mailbox[m] : i \in Nat /\ i < n + 1 /\ mailbox'[m][i] = mailbox[m][i]
      /\ mailbox'[m][n + 1] = op
  BY <1>1, PoolFacts DEF Sent
<1> HIDE DEF n, m, op
<1>o. \A f : op # StartTaskOp(f)
  BY <1>2, TaskOpFacts
<1>b. ASSUME NEW r \in Runtimes, NEW i \in DOMAIN mailbox'[r]
      PROVE  \/ i \in DOMAIN mailbox[r] /\ mailbox'[r][i] = mailbox[r][i]
             \/ r = m /\ i = n + 1 /\ mailbox'[r][i] = op
  BY <1>3
<1>c. ASSUME NEW r \in Runtimes, NEW i \in DOMAIN mailbox[r]
      PROVE  i \in DOMAIN mailbox'[r] /\ mailbox'[r][i] = mailbox[r][i]
  BY <1>3
<1>m. \A f \in Handles : InMailbox(StartTaskOp(f))' <=> InMailbox(StartTaskOp(f))
  BY <1>b, <1>c, <1>o DEF InMailbox
<1>s. \A r \in Runtimes : \A i \in DOMAIN mailbox'[r] : \A f \in Handles :
        mailbox'[r][i] = StartTaskOp(f) => i \in DOMAIN mailbox[r] /\ mailbox[r][i] = StartTaskOp(f)
  BY <1>b, <1>o
<1>d. \A f : DrainedAfter("local", StartTaskOp(f)) => DrainedAfter("local", StartTaskOp(f))'
  BY <1>c DEF DrainedAfter, Runtimes
<1>4. StartsInPool' /\ StopsInPool' /\ StartsNotLost'
  BY <1>1, <1>m DEF TaskInv, OpsInv, StartsInPool, StopsInPool, StartsNotLost
<1>5. StartsInMailbox'
  BY <1>1, <1>s DEF TaskInv, OpsInv, StartsInMailbox
<1>6. StopsInMailbox'
  <2> SUFFICES ASSUME NEW r \in Runtimes, NEW i \in DOMAIN mailbox'[r], NEW f \in Handles
               PROVE  /\ mailbox'[r][i] = EarlyStop(f) =>
                           /\ r = "local" /\ task[f].status = "requested"
                           /\ DrainedAfter("local", StartTaskOp(f))'
                      /\ mailbox'[r][i] = KnownStop(f) =>
                           /\ task[f].status # "unused"
                           /\ \A q \in Runtimes : \A j \in DOMAIN mailbox'[q] :
                                mailbox'[q][j] = StartTaskOp(f) => Ahead(q, j, r, i)
    BY <1>1 DEF StopsInMailbox
  <2>1. CASE i \in DOMAIN mailbox[r] /\ mailbox'[r][i] = mailbox[r][i]
    BY <2>1, <1>s, <1>d DEF TaskInv, OpsInv, StopsInMailbox
  <2>2. CASE r = m /\ i = n + 1 /\ mailbox'[r][i] = op /\ DrainedAfter(m, StartTaskOp(g))
    <3>1. op = EarlyStop(g) /\ m = "local" /\ DrainedAfter("local", StartTaskOp(g))
      BY <2>2, <1>2 DEF DrainedAfter
    <3>2. task[g].status = "requested"
      BY <3>1 DEF DrainedAfter, TaskInv, OpsInv, StartsInMailbox, Runtimes
    <3> QED BY <2>2, <3>1, <3>2, <1>d, TaskOpFacts
  <2>3. CASE r = m /\ i = n + 1 /\ mailbox'[r][i] = op /\ ~ DrainedAfter(m, StartTaskOp(g))
    <3>1. op = KnownStop(g)
      BY <2>3, <1>2
    <3>2. ASSUME NEW q \in Runtimes, NEW j \in DOMAIN mailbox'[q], mailbox'[q][j] = StartTaskOp(g)
          PROVE  Ahead(q, j, r, i)
      <4>1. j \in DOMAIN mailbox[q] /\ mailbox[q][j] = StartTaskOp(g)
        BY <3>2, <1>s
      <4>2. CASE q = m
        BY <2>3, <4>1, <4>2, <1>3 DEF Ahead
      <4>3. CASE q # m
        <5>1. (q = "local" /\ m = "send") \/ (q = "send" /\ m = "local")
          BY <4>3, <1>3 DEF Runtimes
        <5>2. ~ (q = "send" /\ m = "local")
          BY <2>3, <4>1 DEF DrainedAfter
        <5> QED BY <2>3, <5>1, <5>2 DEF Ahead
      <4> QED BY <4>2, <4>3
    <3> QED BY <2>3, <3>1, <3>2, <1>1, TaskOpFacts
  <2> QED BY <2>1, <2>2, <2>3, <1>b
<1> QED BY <1>1, <1>4, <1>5, <1>6, NeutralHandles DEF TaskInv, OpsInv

\* Draining: a start goes from its mailbox to the end of the pool, and every
\* stop that is to find it goes there after it.
LEMMA DrainKeeps ==
  ASSUME TypeOK, PoolApart, TaskInv, drain
  PROVE  TaskInv'
<1>1. PICK m \in Runtimes : /\ Drained(m) /\ Staged(mailbox[m][1])
                            /\ m = "local" \/ DOMAIN mailbox["local"] = {}
  BY DrainStep
<1>2. task' = task /\ UNCHANGED <<tasks, stopped>>
  BY DrainStep DEF tasks
<1> DEFINE n == next_ticket
           op == mailbox[m][1]
<1>t. n \in Nat /\ \A t \in DOMAIN Pool : t \in Nat /\ t < n
  BY PoolFacts
<1>3. /\ 1 \in DOMAIN mailbox[m]
      /\ \A r \in Runtimes : r # m => mailbox'[r] = mailbox[r]
      /\ \A i \in DOMAIN mailbox[m] : i \in Nat /\ (i = 1 \/ i - 1 \in DOMAIN mailbox'[m])
      /\ \A i \in DOMAIN mailbox'[m] :
           i \in Nat /\ i >= 1 /\ i + 1 \in DOMAIN mailbox[m] /\ mailbox'[m][i] = mailbox[m][i + 1]
  BY <1>1 DEF Drained
<1>4. /\ \A t \in DOMAIN Pool' : \/ t \in DOMAIN Pool /\ Pool'[t] = Pool[t]
                                 \/ t = n /\ Pool'[t] = op
      /\ \A t \in DOMAIN Pool : \A g \in Handles :
           Pool[t] = StartTaskOp(g) => t \in DOMAIN Pool' /\ Pool'[t] = StartTaskOp(g)
      /\ \A g \in Handles : op = StartTaskOp(g) => n \in DOMAIN Pool' /\ Pool'[n] = op
  BY <1>1, TaskOpFacts DEF Staged
<1> HIDE DEF n
<1>b. ASSUME NEW r \in Runtimes, NEW i \in DOMAIN mailbox'[r]
      PROVE  /\ i \in Nat
             /\ \/ r # m /\ i \in DOMAIN mailbox[r] /\ mailbox'[r][i] = mailbox[r][i]
                \/ r = m /\ i + 1 \in DOMAIN mailbox[r] /\ mailbox'[r][i] = mailbox[r][i + 1] /\ i >= 1
  BY <1>3, PoolFacts
<1>m. \A x : InMailbox(x)' => InMailbox(x)
  BY <1>b DEF InMailbox
<1>s. ASSUME NEW g \in Handles, op = StartTaskOp(g)
      PROVE  /\ ~ InMailbox(StartTaskOp(g))' /\ task[g].status = "requested"
             /\ \A t \in DOMAIN Pool : Pool[t] # StartTaskOp(g)
  <2>1. /\ task[g].status = "requested"
        /\ \A r \in Runtimes : \A j \in DOMAIN mailbox[r] :
             mailbox[r][j] = StartTaskOp(g) => r = m /\ j = 1
    BY <1>s, <1>3 DEF TaskInv, OpsInv, StartsInMailbox
  <2>2. \A t \in DOMAIN Pool : Pool[t] # StartTaskOp(g)
    BY <1>s, <1>3 DEF TaskInv, OpsInv, StartsInPool, InMailbox
  <2>3. ASSUME NEW r \in Runtimes, NEW i \in DOMAIN mailbox'[r], mailbox'[r][i] = StartTaskOp(g)
        PROVE  FALSE
    <3>1. CASE r # m
      <4>1. i \in DOMAIN mailbox[r] /\ mailbox[r][i] = StartTaskOp(g)
        BY <2>3, <3>1, <1>b
      <4> QED BY <2>1, <3>1, <4>1 DEF TaskInv, OpsInv, StartsInMailbox
    <3>2. CASE r = m
      <4>1. i + 1 \in DOMAIN mailbox[m] /\ mailbox[m][i + 1] = StartTaskOp(g) /\ i \in Nat /\ i >= 1
        BY <2>3, <3>2, <1>b
      <4> QED BY <2>1, <4>1
    <3> QED BY <3>1, <3>2
  <2> QED BY <2>1, <2>2, <2>3 DEF InMailbox
<1>5. StartsInPool'
  <2> SUFFICES ASSUME NEW t \in DOMAIN Pool', NEW g \in Handles, Pool'[t] = StartTaskOp(g)
               PROVE  /\ task[g].status = "requested"
                      /\ ~ InMailbox(StartTaskOp(g))'
                      /\ \A u \in DOMAIN Pool' : Pool'[u] = StartTaskOp(g) => u = t
    BY <1>2 DEF StartsInPool
  <2>1. CASE op = StartTaskOp(g)
    BY <2>1, <1>4, <1>s
  <2>2. CASE op # StartTaskOp(g)
    BY <2>2, <1>4, <1>m DEF TaskInv, OpsInv, StartsInPool
  <2> QED BY <2>1, <2>2
<1>6. StartsInMailbox'
  <2> SUFFICES ASSUME NEW r \in Runtimes, NEW i \in DOMAIN mailbox'[r], NEW g \in Handles,
                      mailbox'[r][i] = StartTaskOp(g)
               PROVE  /\ task[g].status = "requested"
                      /\ \A q \in Runtimes : \A j \in DOMAIN mailbox'[q] :
                           mailbox'[q][j] = StartTaskOp(g) => q = r /\ j = i
    BY <1>2 DEF StartsInMailbox
  <2> DEFINE k == IF r = m THEN i + 1 ELSE i
  <2>1. k \in DOMAIN mailbox[r] /\ mailbox[r][k] = StartTaskOp(g) /\ i \in Nat
    BY <1>b
  <2>2. /\ task[g].status = "requested"
        /\ \A q \in Runtimes : \A j \in DOMAIN mailbox[q] :
             mailbox[q][j] = StartTaskOp(g) => q = r /\ j = k
    <3> HIDE DEF k
    <3> QED BY <2>1 DEF TaskInv, OpsInv, StartsInMailbox
  <2>3. ASSUME NEW q \in Runtimes, NEW j \in DOMAIN mailbox'[q], mailbox'[q][j] = StartTaskOp(g)
        PROVE  q = r /\ j = i
    <3> DEFINE l == IF q = m THEN j + 1 ELSE j
    <3>1. l \in DOMAIN mailbox[q] /\ mailbox[q][l] = StartTaskOp(g) /\ j \in Nat
      BY <2>3, <1>b
    <3>2. q = r /\ l = k
      <4> HIDE DEF k, l
      <4> QED BY <3>1, <2>2
    <3> QED BY <3>1, <3>2, <2>1
  <2> QED BY <2>2, <2>3
<1>7. StartsNotLost'
  <2> SUFFICES ASSUME NEW g \in Handles, task[g].status = "requested"
               PROVE  \/ \E t \in DOMAIN Pool' : Pool'[t] = StartTaskOp(g)
                      \/ InMailbox(StartTaskOp(g))'
    BY <1>2 DEF StartsNotLost
  <2>1. CASE \E t \in DOMAIN Pool : Pool[t] = StartTaskOp(g)
    BY <2>1, <1>4
  <2>2. CASE InMailbox(StartTaskOp(g))
    <3>1. PICK r \in Runtimes : \E i \in DOMAIN mailbox[r] : mailbox[r][i] = StartTaskOp(g)
      BY <2>2 DEF InMailbox
    <3>2. PICK i \in DOMAIN mailbox[r] : mailbox[r][i] = StartTaskOp(g)
      BY <3>1
    <3>3. CASE r # m
      BY <3>2, <3>3, <1>3 DEF InMailbox
    <3>4. CASE r = m /\ i = 1
      BY <3>2, <3>4, <1>4
    <3>5. CASE r = m /\ i # 1
      <4>1. i - 1 \in DOMAIN mailbox'[m] /\ mailbox'[m][i - 1] = StartTaskOp(g)
        BY <3>2, <3>5, <1>3
      <4> QED BY <4>1 DEF InMailbox
    <3> QED BY <3>3, <3>4, <3>5
  <2> QED BY <2>1, <2>2 DEF TaskInv, OpsInv, StartsNotLost
<1>8. StopsInPool'
  <2> SUFFICES ASSUME NEW t \in DOMAIN Pool', NEW g \in Handles
               PROVE  /\ Pool'[t] = KnownStop(g) =>
                           /\ task[g].status # "unused"
                           /\ ~ InMailbox(StartTaskOp(g))'
                           /\ \A u \in DOMAIN Pool' : Pool'[u] = StartTaskOp(g) => u < t
                      /\ Pool'[t] = EarlyStop(g) =>
                           /\ task[g].status = "requested"
                           /\ \A u \in DOMAIN Pool' : Pool'[u] = StartTaskOp(g) => t < u
    BY <1>2 DEF StopsInPool
  <2>i. InMailbox(op)
    BY <1>3 DEF InMailbox
  <2>1. CASE t \in DOMAIN Pool /\ Pool'[t] = Pool[t]
    <3>1. Pool[t] = KnownStop(g) => op # StartTaskOp(g)
      BY <2>1, <2>i DEF TaskInv, OpsInv, StopsInPool
    <3> QED BY <2>1, <3>1, <1>4, <1>t, <1>m DEF TaskInv, OpsInv, StopsInPool
  <2>2. CASE t = n /\ Pool'[t] = op
    <3>1. ASSUME op = EarlyStop(g)
          PROVE  /\ task[g].status = "requested"
                 /\ \A u \in DOMAIN Pool' : Pool'[u] # StartTaskOp(g)
      <4>1. task[g].status = "requested" /\ DrainedAfter("local", StartTaskOp(g))
        BY <3>1, <1>3 DEF TaskInv, OpsInv, StopsInMailbox
      <4>2. InMailbox(StartTaskOp(g))
        BY <4>1 DEF DrainedAfter, InMailbox, Runtimes
      <4>3. \A u \in DOMAIN Pool : Pool[u] # StartTaskOp(g)
        BY <4>2 DEF TaskInv, OpsInv, StartsInPool
      <4> QED BY <4>1, <4>3, <3>1, <1>4, TaskOpFacts
    <3>2. ASSUME op = KnownStop(g)
          PROVE  /\ task[g].status # "unused"
                 /\ ~ InMailbox(StartTaskOp(g))'
                 /\ \A u \in DOMAIN Pool' : Pool'[u] = StartTaskOp(g) => u < t
      <4>1. /\ task[g].status # "unused"
            /\ \A r \in Runtimes : \A j \in DOMAIN mailbox[r] :
                 mailbox[r][j] = StartTaskOp(g) => Ahead(r, j, m, 1)
        BY <3>2, <1>3 DEF TaskInv, OpsInv, StopsInMailbox
      <4>2. ~ InMailbox(StartTaskOp(g))
        <5>1. \A r \in Runtimes : \A j \in DOMAIN mailbox[r] : ~ Ahead(r, j, m, 1)
          BY <1>1, PoolFacts DEF Ahead
        <5> QED BY <4>1, <5>1 DEF InMailbox
      <4>3. \A u \in DOMAIN Pool' : Pool'[u] = StartTaskOp(g) => u < t
        BY <2>2, <3>2, <1>4, <1>t, TaskOpFacts
      <4> QED BY <4>1, <4>2, <4>3, <1>m
    <3> QED BY <2>2, <3>1, <3>2
  <2> QED BY <2>1, <2>2, <1>4
<1>9. StopsInMailbox'
  <2> SUFFICES ASSUME NEW r \in Runtimes, NEW i \in DOMAIN mailbox'[r], NEW g \in Handles
               PROVE  /\ mailbox'[r][i] = EarlyStop(g) =>
                           /\ r = "local" /\ task[g].status = "requested"
                           /\ DrainedAfter("local", StartTaskOp(g))'
                      /\ mailbox'[r][i] = KnownStop(g) =>
                           /\ task[g].status # "unused"
                           /\ \A q \in Runtimes : \A j \in DOMAIN mailbox'[q] :
                                mailbox'[q][j] = StartTaskOp(g) => Ahead(q, j, r, i)
    BY <1>2 DEF StopsInMailbox
  <2> DEFINE k == IF r = m THEN i + 1 ELSE i
  <2>k. k \in DOMAIN mailbox[r] /\ mailbox[r][k] = mailbox'[r][i] /\ i \in Nat
    BY <1>b
  <2>1. ASSUME mailbox'[r][i] = EarlyStop(g)
        PROVE  /\ r = "local" /\ task[g].status = "requested"
               /\ DrainedAfter("local", StartTaskOp(g))'
    <3>1. r = "local" /\ task[g].status = "requested" /\ DrainedAfter("local", StartTaskOp(g))
      <4> HIDE DEF k
      <4> QED BY <2>1, <2>k DEF TaskInv, OpsInv, StopsInMailbox
    <3>2. m = "local"
      BY <3>1, <2>k, <1>1
    <3>3. mailbox'["send"] = mailbox["send"]
      BY <3>2, <1>3 DEF Runtimes
    <3> QED BY <3>1, <3>3 DEF DrainedAfter
  <2>2. ASSUME mailbox'[r][i] = KnownStop(g) PROVE task[g].status # "unused"
    <3> HIDE DEF k
    <3> QED BY <2>2, <2>k DEF TaskInv, OpsInv, StopsInMailbox
  <2>3. ASSUME mailbox'[r][i] = KnownStop(g), NEW q \in Runtimes, NEW j \in DOMAIN mailbox'[q],
               mailbox'[q][j] = StartTaskOp(g)
        PROVE  Ahead(q, j, r, i)
    <3> DEFINE l == IF q = m THEN j + 1 ELSE j
    <3>2. l \in DOMAIN mailbox[q] /\ mailbox[q][l] = StartTaskOp(g) /\ j \in Nat
      BY <2>3, <1>b
    <3>3. Ahead(q, l, r, k)
      <4> HIDE DEF k, l
      <4> QED BY <2>3, <2>k, <3>2 DEF TaskInv, OpsInv, StopsInMailbox
    <3> QED BY <2>k, <3>2, <3>3 DEF Ahead
  <2> QED BY <2>1, <2>2, <2>3
<1> QED BY <1>2, <1>5, <1>6, <1>7, <1>8, <1>9, NeutralHandles DEF TaskInv, OpsInv

LEMMA StatusKeeps ==
  ASSUME TypeOK, TypeOK', PoolApart, TaskInv, NEW h \in Handles, StatusStep(h)
  PROVE  TaskInv' /\ PoolApart'
<1>1. /\ task[h].status \in {"live", "aborting"}
      /\ task' = [task EXCEPT ![h].status = "over"]
      /\ Pool' = Pool /\ PoolApart' /\ mailbox' = mailbox /\ running' = running
      /\ next_handle' = next_handle /\ stopped' = stopped
  BY DEF StatusStep, task_returns, task_aborted, SetStatus, Pool, PoolApart, loop,
         reconciler, ghosts
<1>2. /\ \A g \in Handles : task'[g].kind = task[g].kind
      /\ \A g \in Handles : g # h => task'[g] = task[g]
      /\ task'[h].status = "over"
  BY <1>1 DEF TypeOK, TasksOK, Tasks
<1>3. \A g \in Handles : SameTask(g)
  BY <1>1, <1>2 DEF SameTask
<1>4. OpsInv'
  BY <1>1, <1>3, NeutralOps DEF TaskInv
<1>5. HandlesFresh' /\ HeldByKind'
  BY <1>1, <1>2, <1>3 DEF SameTask, TaskInv, HandlesInv, HandlesFresh, HeldByKind, TypeOK, TasksOK
<1>6. HandlesKept'
  <2>1. \A g \in Handles : KeptAt(g)
    BY KeptPointwise DEF TaskInv, HandlesInv
  <2>2. \A g \in Handles : KeptAt(g)'
    BY <2>1, <1>1, <1>2 DEF KeptAt
  <2> QED BY <2>2, KeptPointwiseNext
<1>7. StopIsFinal'
  BY <1>1, <1>2 DEF TaskInv, HandlesInv, StopIsFinal, TypeOK, TasksOK
<1> QED BY <1>1, <1>4, <1>5, <1>6, <1>7 DEF TaskInv, HandlesInv

\* Consumers of events, requests and other operations.
LEMMA RoutePastTasks ==
  ASSUME TypeOK, TaskInv, NEW t \in DOMAIN Pool, Routed(t),
         Pool[t].type \notin {"Start", "Stop"}, UNCHANGED <<mailbox, tasks, stopped>>
  PROVE  TaskInv'
<1>1. \A h \in Handles : SameTask(h)
  BY DEF SameTask, tasks
<1>2. \A h \in Handles : \A u \in DOMAIN Pool :
        Pool[u] = StartTaskOp(h) => u \in DOMAIN Pool' /\ Pool'[u] = StartTaskOp(h)
  BY TaskOpFacts DEF Routed
<1>3. \A op, u : IsTaskOp(op) /\ u \in DOMAIN Pool' /\ Pool'[u] = op
                   => u \in DOMAIN Pool /\ Pool[u] = op
  BY DEF Routed
<1>4. OpsInv'
  BY <1>1, <1>2, <1>3, NeutralOps DEF TaskInv
<1> QED BY <1>4, NeutralHandles DEF TaskInv

LEMMA SpawnKeeps ==
  ASSUME TypeOK, TypeOK', TaskInv, NEW t \in DOMAIN Pool, Routed(t), SpawnTask(Pool[t]),
         UNCHANGED <<mailbox, next_handle>>
  PROVE  TaskInv'
<1> DEFINE h == Pool[t].handle
           q == Runtime(task[h].kind)
<1>1. h \in Handles /\ Pool[t] = StartTaskOp(h)
  BY PoolFacts, TaskOpShape DEF SpawnTask
<1>2. /\ running' = [running EXCEPT ![q] = @ \cup {h}]
      /\ task' = [task EXCEPT ![h].status = "live"]
      /\ stopped' = stopped
  BY DEF SpawnTask
<1>3. task \in [Handles -> Tasks] /\ running \in [Runtimes -> SUBSET Handles] /\ q \in Runtimes
  BY DEF TypeOK, TasksOK, Runtime, Runtimes
<1> HIDE DEF h, q
<1>4. /\ \A g \in Handles : task'[g].kind = task[g].kind
      /\ \A g \in Handles : g # h => task'[g] = task[g]
      /\ task'[h].status = "live"
  BY <1>1, <1>2, <1>3 DEF Tasks
<1>5. \A r \in Runtimes : running'[r] = IF r = q THEN running[r] \cup {h} ELSE running[r]
  BY <1>2, <1>3
<1>6. /\ task[h].status = "requested" /\ ~ InMailbox(StartTaskOp(h))
      /\ \A u \in DOMAIN Pool : Pool[u] = StartTaskOp(h) => u = t
  BY <1>1 DEF TaskInv, OpsInv, StartsInPool
<1>7. /\ \A u \in DOMAIN Pool : t <= u /\ u \in Nat
      /\ \A u : u \in DOMAIN Pool' <=> u \in DOMAIN Pool /\ u # t
      /\ \A u \in DOMAIN Pool' : Pool'[u] = Pool[u]
  BY PoolFacts DEF Routed
<1>m. \A x : InMailbox(x)' <=> InMailbox(x)
  BY DEF InMailbox
<1>8. StartsInPool'
  BY <1>4, <1>6, <1>7, <1>m DEF TaskInv, OpsInv, StartsInPool
<1>9. StartsInMailbox'
  <2> SUFFICES ASSUME NEW m \in Runtimes, NEW i \in DOMAIN mailbox[m], NEW g \in Handles,
                      mailbox[m][i] = StartTaskOp(g)
               PROVE  /\ task'[g].status = "requested"
                      /\ \A r \in Runtimes : \A j \in DOMAIN mailbox[r] :
                           mailbox[r][j] = StartTaskOp(g) => r = m /\ j = i
    BY DEF StartsInMailbox
  <2>1. g # h
    BY <1>6 DEF InMailbox
  <2> QED BY <2>1, <1>4 DEF TaskInv, OpsInv, StartsInMailbox
<1>10. StartsNotLost'
  BY <1>1, <1>4, <1>7, <1>m, TaskOpFacts DEF TaskInv, OpsInv, StartsNotLost
<1>11. StopsInPool'
  <2> SUFFICES ASSUME NEW u \in DOMAIN Pool', NEW g \in Handles
               PROVE  /\ Pool'[u] = KnownStop(g) =>
                           /\ task'[g].status # "unused"
                           /\ ~ InMailbox(StartTaskOp(g))
                           /\ \A v \in DOMAIN Pool' : Pool'[v] = StartTaskOp(g) => v < u
                      /\ Pool'[u] = EarlyStop(g) =>
                           /\ task'[g].status = "requested"
                           /\ \A v \in DOMAIN Pool' : Pool'[v] = StartTaskOp(g) => u < v
    BY <1>m DEF StopsInPool
  <2>1. u \in DOMAIN Pool /\ Pool'[u] = Pool[u] /\ t <= u /\ u \in Nat /\ t \in Nat
    BY <1>7
  <2>2. Pool[u] = EarlyStop(g) => g # h
    <3>1. Pool[u] = EarlyStop(h) => u < t
      BY <2>1, <1>1 DEF TaskInv, OpsInv, StopsInPool
    <3> QED BY <2>1, <3>1
  <2>3. \A v \in DOMAIN Pool' : v \in DOMAIN Pool /\ Pool'[v] = Pool[v]
    BY <1>7
  <2> QED BY <2>1, <2>2, <2>3, <1>4 DEF TaskInv, OpsInv, StopsInPool
<1>12. StopsInMailbox'
  <2> SUFFICES ASSUME NEW m \in Runtimes, NEW i \in DOMAIN mailbox[m], NEW g \in Handles
               PROVE  /\ mailbox[m][i] = EarlyStop(g) =>
                           /\ m = "local" /\ task'[g].status = "requested"
                           /\ DrainedAfter("local", StartTaskOp(g))
                      /\ mailbox[m][i] = KnownStop(g) =>
                           /\ task'[g].status # "unused"
                           /\ \A r \in Runtimes : \A j \in DOMAIN mailbox[r] :
                                mailbox[r][j] = StartTaskOp(g) => Ahead(r, j, m, i)
    BY DEF StopsInMailbox, DrainedAfter
  <2>1. DrainedAfter("local", StartTaskOp(g)) => g # h
    BY <1>6 DEF DrainedAfter, InMailbox, Runtimes
  <2> QED BY <2>1, <1>4 DEF TaskInv, OpsInv, StopsInMailbox
<1>13. HandlesFresh'
  BY <1>4, <1>6 DEF TaskInv, HandlesInv, HandlesFresh
<1>14. HeldByKind'
  <2> SUFFICES ASSUME NEW r \in Runtimes, NEW g \in running'[r]
               PROVE  r = Runtime(task'[g].kind)
    BY DEF HeldByKind
  <2>1. CASE g \in running[r]
    <3>1. g \in Handles
      BY <2>1, <1>3
    <3> QED BY <2>1, <3>1, <1>4 DEF TaskInv, HandlesInv, HeldByKind
  <2>2. CASE g = h /\ r = q
    BY <2>2, <1>1, <1>4 DEF q
  <2> QED BY <2>1, <2>2, <1>5
<1>15. h \notin stopped
  BY <1>6 DEF TaskInv, HandlesInv, StopIsFinal
<1>16. HandlesKept'
  <2>1. \A g \in Handles : KeptAt(g)
    BY KeptPointwise DEF TaskInv, HandlesInv
  <2>2. ASSUME NEW g \in Handles PROVE KeptAt(g)'
    <3>1. CASE g = h
      BY <3>1, <1>2, <1>3, <1>4, <1>5, <1>15 DEF KeptAt
    <3>2. CASE g # h
      <4>1. (\E r \in Runtimes : g \in running'[r]) <=> (\E r \in Runtimes : g \in running[r])
        BY <3>2, <1>5
      <4> QED BY <3>2, <4>1, <2>1, <1>2, <1>4 DEF KeptAt
    <3> QED BY <3>1, <3>2
  <2> QED BY <2>2, KeptPointwiseNext
<1>17. StopIsFinal'
  BY <1>2, <1>4, <1>15 DEF TaskInv, HandlesInv, StopIsFinal, TypeOK, TasksOK
<1> QED BY <1>8, <1>9, <1>10, <1>11, <1>12, <1>13, <1>14, <1>16, <1>17
        DEF TaskInv, OpsInv, HandlesInv

LEMMA AbortKeeps ==
  ASSUME TypeOK, TypeOK', TaskInv, NEW t \in DOMAIN Pool, Routed(t), AbortTask(Pool[t]),
         UNCHANGED <<mailbox, next_handle>>
  PROVE  TaskInv'
<1> DEFINE h == Pool[t].handle
           holder == {r \in Runtimes : h \in running[r]}
<1>1. h \in Handles /\ (Pool[t] = KnownStop(h) \/ Pool[t] = EarlyStop(h))
  BY PoolFacts, TaskOpShape DEF AbortTask
<1>2. /\ running' = [r \in Runtimes |-> running[r] \ {h}]
      /\ task' = [task EXCEPT ![h].status =
                    IF holder = {} \/ @ # "live" THEN @
                    ELSE IF "local" \in holder THEN "over" ELSE "aborting"]
      /\ stopped' = IF Pool[t].known THEN stopped \cup {h} ELSE stopped
  BY DEF AbortTask
<1>3. task \in [Handles -> Tasks] /\ running \in [Runtimes -> SUBSET Handles] /\ stopped \subseteq Handles
  BY DEF TypeOK, TasksOK
<1>e. holder = {} <=> \A r \in Runtimes : h \notin running[r]
  OBVIOUS
<1>s. task'[h].status = IF holder = {} \/ task[h].status # "live" THEN task[h].status
                        ELSE IF "local" \in holder THEN "over" ELSE "aborting"
  BY <1>1, <1>2, <1>3 DEF Tasks
<1>4. /\ \A g \in Handles : task'[g].kind = task[g].kind
      /\ \A g \in Handles : g # h => task'[g] = task[g]
  BY <1>1, <1>2, <1>3 DEF Tasks
<1> HIDE DEF h, holder
<1>5. \A g \in Handles : SameTask(g)
  BY <1>1, <1>s, <1>4 DEF SameTask
<1>6. \A g \in Handles : \A u \in DOMAIN Pool :
        Pool[u] = StartTaskOp(g) => u \in DOMAIN Pool' /\ Pool'[u] = StartTaskOp(g)
  BY <1>1, TaskOpFacts DEF Routed
<1>7. \A op, u : IsTaskOp(op) /\ u \in DOMAIN Pool' /\ Pool'[u] = op
                   => u \in DOMAIN Pool /\ Pool[u] = op
  BY DEF Routed
<1>8. OpsInv'
  BY <1>5, <1>6, <1>7, NeutralOps DEF TaskInv
<1>9. HandlesFresh'
  BY <1>5 DEF SameTask, TaskInv, HandlesInv, HandlesFresh
<1>10. HeldByKind'
  BY <1>2, <1>3, <1>4 DEF TaskInv, HandlesInv, HeldByKind
<1>k. \A g \in Handles : KeptAt(g)
  BY KeptPointwise DEF TaskInv, HandlesInv
<1>11. ASSUME Pool[t] = KnownStop(h)
       PROVE  /\ stopped' = stopped \cup {h}
              /\ task'[h].status \in {"aborting", "over"}
  <2>1. stopped' = stopped \cup {h}
    BY <1>2, <1>11, TaskOpFacts
  <2>2. task[h].status # "unused" /\ task[h].status # "requested"
    <3>1. /\ task[h].status # "unused" /\ ~ InMailbox(StartTaskOp(h))
          /\ \A u \in DOMAIN Pool : Pool[u] = StartTaskOp(h) => u < t
      BY <1>1, <1>11 DEF TaskInv, OpsInv, StopsInPool
    <3>2. \A u \in DOMAIN Pool : t <= u /\ u \in Nat /\ t \in Nat
      BY PoolFacts DEF Routed
    <3>3. \A u \in DOMAIN Pool : Pool[u] # StartTaskOp(h)
      BY <3>1, <3>2
    <3> QED BY <1>1, <3>1, <3>3 DEF TaskInv, OpsInv, StartsNotLost
  <2>3. task[h].status \in {"live", "aborting", "over"}
    BY <2>2, <1>1, <1>3 DEF Tasks, Statuses
  <2>4. CASE task[h].status = "live"
    <3>1. h \notin stopped
      BY <2>4 DEF TaskInv, HandlesInv, StopIsFinal
    <3>2. holder # {}
      BY <2>4, <3>1, <1>1, <1>k, <1>e DEF KeptAt
    <3> QED BY <2>1, <2>4, <3>2, <1>s
  <2> QED BY <2>1, <2>3, <2>4, <1>s
<1>12. ASSUME Pool[t] = EarlyStop(h)
       PROVE  /\ stopped' = stopped /\ task'[h].status = task[h].status
              /\ task[h].status = "requested"
              /\ \A r \in Runtimes : h \notin running[r]
  <2>1. stopped' = stopped
    BY <1>2, <1>12, TaskOpFacts
  <2>2. task[h].status = "requested"
    BY <1>1, <1>12 DEF TaskInv, OpsInv, StopsInPool
  <2>3. \A r \in Runtimes : h \notin running[r]
    BY <2>2, <1>1, <1>k DEF KeptAt
  <2> QED BY <2>1, <2>2, <2>3, <1>s
<1>13. HandlesKept'
  <2>1. ASSUME NEW g \in Handles PROVE KeptAt(g)'
    <3>1. CASE g # h
      <4>1. (\E r \in Runtimes : g \in running'[r]) <=> (\E r \in Runtimes : g \in running[r])
        BY <3>1, <1>2
      <4>2. g \in stopped' <=> g \in stopped
        BY <3>1, <1>2
      <4> QED BY <3>1, <4>1, <4>2, <1>4, <1>k DEF KeptAt
    <3>2. CASE g = h
      <4>1. \A r \in Runtimes : g \notin running'[r]
        BY <3>2, <1>2
      <4> QED BY <3>2, <4>1, <1>1, <1>11, <1>12 DEF KeptAt
    <3> QED BY <3>1, <3>2
  <2> QED BY <2>1, KeptPointwiseNext
<1>14. StopIsFinal'
  <2> SUFFICES ASSUME NEW g \in stopped' PROVE task'[g].status \in {"aborting", "over"}
    BY DEF StopIsFinal
  <2>1. CASE g # h
    <3>1. g \in stopped /\ g \in Handles
      BY <2>1, <1>2, <1>3
    <3> QED BY <2>1, <3>1, <1>4 DEF TaskInv, HandlesInv, StopIsFinal
  <2>2. CASE g = h /\ Pool[t] = KnownStop(h)
    BY <2>2, <1>11
  <2>3. CASE g = h /\ Pool[t] = EarlyStop(h)
    BY <2>3, <1>12 DEF TaskInv, HandlesInv, StopIsFinal
  <2> QED BY <2>1, <2>2, <2>3, <1>1
<1> QED BY <1>8, <1>9, <1>10, <1>13, <1>14 DEF TaskInv, HandlesInv

LEMMA RouteKeepsTasks ==
  ASSUME TypeOK, TypeOK', PoolApart, TaskInv, route
  PROVE  TaskInv'
<1>1. PICK t \in DOMAIN Pool :
        /\ Routed(t)
        /\ \/ EventOpConsumer(Pool[t]) \/ RequestTransitionConsumer(Pool[t])
           \/ SpawnTask(Pool[t]) \/ AbortTask(Pool[t]) \/ Unhandled(Pool[t])
  BY RouteStep
<1>2. UNCHANGED <<mailbox, next_handle>>
  BY RouteStep
<1>3. CASE SpawnTask(Pool[t])
  BY <1>1, <1>2, <1>3, SpawnKeeps
<1>4. CASE AbortTask(Pool[t])
  BY <1>1, <1>2, <1>4, AbortKeeps
<1>5. CASE EventOpConsumer(Pool[t]) \/ RequestTransitionConsumer(Pool[t]) \/ Unhandled(Pool[t])
  <2>1. Pool[t].type \notin {"Start", "Stop"} /\ UNCHANGED <<mailbox, tasks, stopped>>
    BY <1>2, <1>5 DEF EventOpConsumer, RequestTransitionConsumer, Unhandled, tasks
  <2> QED BY <1>1, <2>1, RoutePastTasks
<1> QED BY <1>1, <1>3, <1>4, <1>5

-----------------------------------------------------------------------------
LEMMA InitTasks == Init => PoolApart /\ TaskInv
<1> SUFFICES ASSUME Init PROVE PoolApart /\ TaskInv
  OBVIOUS
<1>1. DOMAIN Pool = {} /\ PoolApart
  BY EmptyProps DEF Init, Pool, PoolApart
<1>2. \A m \in Runtimes : DOMAIN mailbox[m] = {} /\ running[m] = {}
  BY DEF Init
<1>3. \A h \in Handles : task[h].status = "unused"
  BY DEF Init, NoTask
<1>4. OpsInv
  BY <1>1, <1>2, <1>3 DEF OpsInv, StartsInPool, StartsInMailbox, StartsNotLost, StopsInPool,
                          StopsInMailbox
<1>5. HandlesFresh /\ HeldByKind /\ StopIsFinal
  BY <1>2, <1>3, MachineAssumption DEF Init, HandlesFresh, HeldByKind, StopIsFinal, Handles
<1>6. HandlesKept
  <2>1. \A h \in Handles : KeptAt(h)
    BY <1>2, <1>3 DEF KeptAt
  <2>2. TypeOK
    BY InitTyped
  <2> QED BY <2>1, <2>2, KeptPointwise
<1> QED BY <1>1, <1>4, <1>5, <1>6 DEF TaskInv, HandlesInv

LEMMA StepKeepsTasks ==
  TypeOK /\ TypeOK' /\ PoolApart /\ TaskInv /\ [Next]_vars => PoolApart' /\ TaskInv'
<1> SUFFICES ASSUME TypeOK, TypeOK', PoolApart, TaskInv, [Next]_vars
             PROVE  PoolApart' /\ TaskInv'
  OBVIOUS
<1>1. CASE QuietStep \/ dispatch
  BY <1>1, QuietFacts, QuietNeutral
<1>2. CASE route
  BY <1>2, RouteStep, RouteKeepsTasks
<1>3. CASE drain
  BY <1>3, DrainStep, DrainKeeps
<1>4. CASE stage_other
  <2>1. Staged(OtherOp) /\ PoolApart' /\ UNCHANGED <<mailbox, tasks, stopped>>
    BY <1>4, DirectStep DEF stage_other
  <2> QED BY <2>1, TaskOpFacts, StagedNeutral
<1>5. ASSUME NEW p \in Sources, post(p) PROVE PoolApart' /\ TaskInv'
  <2>1. Staged(Event(p, posted[p] + 1)) /\ PoolApart' /\ UNCHANGED <<mailbox, tasks, stopped>>
    BY <1>5, DirectStep DEF post
  <2> QED BY <2>1, TaskOpFacts, StagedNeutral
<1>6. ASSUME NEW op \in Requests, RequestStep(op) PROVE PoolApart' /\ TaskInv'
  BY <1>6, RequestFacts, StagedNeutral
<1>7. ASSUME NEW h \in Handles, NEW k \in Kinds, start_task(h, k) PROVE PoolApart' /\ TaskInv'
  BY <1>7, DirectStep, StartTaskKeeps DEF start_task
<1>8. ASSUME NEW h \in Handles, stop_task(h) PROVE PoolApart' /\ TaskInv'
  BY <1>8, DirectStep, StopTaskKeeps DEF stop_task
<1>9. ASSUME NEW h \in Handles, send_post(h) PROVE PoolApart' /\ TaskInv'
  <2>1. Sends(h, Event(h, posted[h] + 1)) /\ UNCHANGED <<tasks, stopped>>
    BY <1>9 DEF send_post, Sends
  <2>2. Runtime(task[h].kind) \in Runtimes
    BY DEF Runtime, Runtimes
  <2> QED BY <2>1, <2>2, SendStep, TaskOpFacts, SentNeutral
<1>10. ASSUME NEW h \in Handles, NEW s \in Targets, NEW p \in Priorities,
              send_request_transition(h, s, p)
       PROVE  PoolApart' /\ TaskInv'
  <2>1. Sends(h, RequestTransitionOp(s, p)) /\ UNCHANGED <<tasks, stopped>>
    BY <1>10 DEF send_request_transition, Sends
  <2>2. Runtime(task[h].kind) \in Runtimes
    BY DEF Runtime, Runtimes
  <2> QED BY <2>1, <2>2, SendStep, TaskOpFacts, SentNeutral
<1>11. ASSUME NEW h \in Handles, NEW g \in Handles, send_start_task(h, g) \/ send_stop_task(h, g)
       PROVE  PoolApart' /\ TaskInv'
  <2>1. PoolApart'
    BY <1>11, SendStep DEF send_start_task, send_stop_task
  <2> QED BY <1>11, <2>1, SendStartKeeps, SendStopKeeps
<1>12. ASSUME NEW h \in Handles, StatusStep(h) PROVE PoolApart' /\ TaskInv'
  BY <1>12, StatusKeeps
<1> QED BY <1>1, <1>2, <1>3, <1>4, <1>5, <1>6, <1>7, <1>8, <1>9, <1>10, <1>11, <1>12, NextSplits

LEMMA TasksInvariant == Spec => [](PoolApart /\ TaskInv)
<1>1. TypeOK /\ TypeOK' /\ (PoolApart /\ TaskInv) /\ [Next]_vars => (PoolApart /\ TaskInv)'
  BY StepKeepsTasks
<1> QED BY <1>1, InitTasks, TypeCorrect, PTL DEF Spec

\* Once a StopTaskOp is consumed its task never runs again, however starts and
\* stops travel: a stop that was not staged or sent too early never overtakes
\* the start between a mailbox and the pool, and never misses the consumer
\* that holds the JoinHandle.
THEOREM StopAlwaysFinal == Spec => []StopIsFinal
<1>1. PoolApart /\ TaskInv => StopIsFinal
  BY DEF TaskInv, HandlesInv
<1> QED BY <1>1, TasksInvariant, PTL

\* JoinHandles are kept for exactly the tasks spawned and not stopped since.
THEOREM HandlesAlwaysKept == Spec => []HandlesKept
<1>1. PoolApart /\ TaskInv => HandlesKept
  BY DEF TaskInv, HandlesInv
<1> QED BY <1>1, TasksInvariant, PTL

\* Every running task can be stopped: the consumer of its kind, and no other,
\* has its JoinHandle.
THEOREM TasksAlwaysHeld == Spec => []RunningTasksAreHeld
<1>1. TypeOK /\ PoolApart /\ TaskInv => RunningTasksAreHeld
  <2> SUFFICES ASSUME TypeOK, TaskInv, NEW h \in Handles, task[h].status = "live"
               PROVE  {r \in Runtimes : h \in running[r]} = {Runtime(task[h].kind)}
    BY DEF RunningTasksAreHeld
  <2>1. h \notin stopped
    BY DEF TaskInv, HandlesInv, StopIsFinal
  <2>2. PICK r \in Runtimes : h \in running[r]
    BY <2>1, KeptPointwise DEF TaskInv, HandlesInv, KeptAt
  <2>3. \A q \in Runtimes : h \in running[q] => q = Runtime(task[h].kind)
    BY DEF TaskInv, HandlesInv, HeldByKind
  <2> QED BY <2>2, <2>3
<1> QED BY <1>1, TypeCorrect, TasksInvariant, PTL

\* A task is aborted by a stop, which is remembered.
AbortsRecorded == \A h \in Handles : task[h].status = "aborting" => h \in stopped

LEMMA StepRecordsAborts ==
  ASSUME TypeOK, TypeOK', PoolApart, TaskInv, AbortsRecorded, [Next]_vars
  PROVE  AbortsRecorded'
<1>0. UNCHANGED <<tasks, stopped>> => AbortsRecorded'
  BY DEF AbortsRecorded, tasks
<1>1. CASE QuietStep \/ dispatch
  BY <1>0, <1>1, QuietFacts
<1>2. CASE route
  <2>1. PICK t \in DOMAIN Pool :
          \/ EventOpConsumer(Pool[t]) \/ RequestTransitionConsumer(Pool[t])
          \/ SpawnTask(Pool[t]) \/ AbortTask(Pool[t]) \/ Unhandled(Pool[t])
    BY <1>2, RouteStep
  <2>2. Pool[t] \in Ops
    BY PoolFacts
  <2>3. CASE SpawnTask(Pool[t])
    BY <2>2, <2>3, TaskOpShape DEF SpawnTask, AbortsRecorded, TypeOK, TasksOK, Tasks
  <2>4. CASE AbortTask(Pool[t])
    <3> DEFINE h == Pool[t].handle
    <3>1. h \in Handles /\ (Pool[t] = KnownStop(h) \/ Pool[t] = EarlyStop(h))
      BY <2>2, <2>4, TaskOpShape DEF AbortTask
    <3>2. /\ \A g \in Handles : g # h => task'[g].status = task[g].status
          /\ task[h].status # "live" => task'[h].status = task[h].status
          /\ stopped' = IF Pool[t].known THEN stopped \cup {h} ELSE stopped
      BY <2>4, <3>1 DEF AbortTask, TypeOK, TasksOK, Tasks
    <3> HIDE DEF h
    <3>3. CASE Pool[t] = KnownStop(h)
      BY <3>1, <3>2, <3>3, TaskOpFacts DEF AbortsRecorded
    <3>4. CASE Pool[t] = EarlyStop(h)
      <4>1. task[h].status = "requested"
        BY <3>1, <3>4 DEF TaskInv, OpsInv, StopsInPool
      <4> QED BY <3>1, <3>2, <4>1 DEF AbortsRecorded
    <3> QED BY <3>1, <3>3, <3>4
  <2>5. CASE UNCHANGED <<task, stopped>>
    BY <2>5 DEF AbortsRecorded
  <2> QED BY <2>1, <2>3, <2>4, <2>5 DEF EventOpConsumer, RequestTransitionConsumer, Unhandled
<1>3. CASE drain
  BY <1>0, <1>3, DrainStep
<1>4. ASSUME NEW g, NEW k, NewTask(g, k), stopped' = stopped PROVE AbortsRecorded'
  BY <1>4, NewTaskFacts DEF TaskInv, AbortsRecorded
<1>5. ASSUME NEW h \in Handles, StatusStep(h) PROVE AbortsRecorded'
  BY <1>5 DEF StatusStep, task_returns, task_aborted, SetStatus, ghosts, AbortsRecorded, TypeOK,
              TasksOK, Tasks
<1>6. ASSUME NEW op, RequestStep(op) PROVE AbortsRecorded'
  BY <1>0, <1>6, RequestFacts
<1>7. \A p, h : post(p) \/ stop_task(h) \/ stage_other => UNCHANGED <<tasks, stopped>>
  BY DEF post, stop_task, stage_other, Stages
<1>8. \A h, g, s, p : send_post(h) \/ send_request_transition(h, s, p) \/ send_stop_task(h, g)
                        => UNCHANGED <<tasks, stopped>>
  BY ZenonT(30) DEF send_post, send_request_transition, send_stop_task, Sends
<1>9. \A h, k : start_task(h, k) => NewTask(h, k) /\ stopped' = stopped
  BY DEF start_task, Stages
<1>10. \A h, g : send_start_task(h, g) => NewTask(g, "send") /\ stopped' = stopped
  BY DEF send_start_task, Sends
<1> QED BY <1>0, <1>1, <1>2, <1>3, <1>4, <1>5, <1>6, <1>7, <1>8, <1>9, <1>10, NextSplits

LEMMA AbortsInvariant == Spec => []AbortsRecorded
<1>1. Init => AbortsRecorded
  BY DEF Init, NoTask, AbortsRecorded
<1>2. TypeOK /\ TypeOK' /\ (PoolApart /\ TaskInv) /\ AbortsRecorded /\ [Next]_vars => AbortsRecorded'
  BY StepRecordsAborts
<1> QED BY <1>1, <1>2, TypeCorrect, TasksInvariant, PTL DEF Spec

-----------------------------------------------------------------------------
(* Events: posted, dispatched once, in order, none lost.                   *)

\* Of two events of one source the first was posted before the second.
Before(e, f) ==
  e.type = "Event" /\ f.type = "Event" /\ e.src = f.src => e.seq < f.seq

\* An event on its way was posted and not dispatched.
Due(e) == e.type = "Event" => dispatched[e.src] < e.seq /\ e.seq <= posted[e.src]

\* Only tasks that do not stage directly send, each to one mailbox.
Travels(e, m) ==
  e.type = "Event" => /\ e.src \in Handles
                      /\ task[e.src].kind # "local" /\ m = Runtime(task[e.src].kind)

EventsDue ==
  /\ \A p \in Sources : dispatched[p] <= posted[p]
  /\ \A i \in DOMAIN ready_events : Due(ready_events[i])
  /\ \A t \in DOMAIN Pool : Due(Pool[t])
  /\ \A m \in Runtimes : \A i \in DOMAIN mailbox[m] : Due(mailbox[m][i])

\* The queue is ahead of the pool and the pool of the mailboxes; inside each
\* the order is that of posting.
QueueOrdered ==
  \A i, j \in DOMAIN ready_events : i < j => Before(ready_events[i], ready_events[j])
PoolOrdered ==
  /\ \A t, u \in DOMAIN Pool : t < u => Before(Pool[t], Pool[u])
  /\ \A i \in DOMAIN ready_events : \A t \in DOMAIN Pool : Before(ready_events[i], Pool[t])
MailOrdered ==
  \A m \in Runtimes : \A j \in DOMAIN mailbox[m] :
    /\ \A i \in DOMAIN mailbox[m] : i < j => Before(mailbox[m][i], mailbox[m][j])
    /\ \A i \in DOMAIN ready_events : Before(ready_events[i], mailbox[m][j])
    /\ \A t \in DOMAIN Pool : Before(Pool[t], mailbox[m][j])

Senders ==
  /\ \A m \in Runtimes : \A i \in DOMAIN mailbox[m] : Travels(mailbox[m][i], m)
  /\ \A h \in Handles : task[h].status = "unused" => posted[h] = 0

FlowInv ==
  EventsDue /\ QueueOrdered /\ PoolOrdered /\ MailOrdered /\ Senders /\ NoEventLost

LEMMA EventFacts ==
  /\ \A p, n : /\ Event(p, n).type = "Event"
               /\ Event(p, n).src = p /\ Event(p, n).seq = n
  /\ \A op \in Ops : op.type = "Event" =>
       op.src \in Sources /\ op.seq \in Nat /\ op = Event(op.src, op.seq)
BY DEF Event, Ops, Events, Requests, TaskOps, OtherOp

LEMMA QueueFacts ==
  ASSUME TypeOK
  PROVE  /\ ready_events \in Seq(Events) /\ Len(ready_events) \in Nat
         /\ DOMAIN ready_events = 1 .. Len(ready_events)
         /\ \A i \in DOMAIN ready_events :
              ready_events[i] \in Ops /\ ready_events[i].type = "Event"
         /\ posted \in [Sources -> Nat] /\ dispatched \in [Sources -> Nat]
         /\ task \in [Handles -> Tasks]
<1>1. ready_events \in Seq(Events)
  BY DEF TypeOK, QueuesOK
<1>2. \A e \in Events : e \in Ops /\ e.type = "Event"
  BY DEF Ops, Events
<1> QED BY <1>1, <1>2 DEF TypeOK, QueuesOK, TasksOK

\* InFlight in terms of the pool.
OnTheWay(op) ==
  \/ InMailbox(op)
  \/ \E t \in DOMAIN Pool : Pool[t] = op
  \/ \E i \in DOMAIN ready_events : ready_events[i] = op

LEMMA OnTheWayNow ==
  ASSUME TypeOK, PoolApart, NEW p, NEW n
  PROVE  InFlight(p, n) <=> OnTheWay(Event(p, n))
<1>1. CASE pc = "route"
  <2>1. Pool = batch /\ DOMAIN pending = {}
    BY <1>1 DEF Pool, PoolApart
  <2> QED BY <2>1 DEF InFlight, OnTheWay, InMailbox
<1>2. CASE pc # "route"
  <2>1. Pool = pending /\ DOMAIN batch = {}
    BY <1>2 DEF Pool, TypeOK, ReconcilerOK
  <2> QED BY <2>1 DEF InFlight, OnTheWay, InMailbox
<1> QED BY <1>1, <1>2

LEMMA OnTheWayNext ==
  ASSUME TypeOK', PoolApart', NEW p, NEW n
  PROVE  InFlight(p, n)' <=> OnTheWay(Event(p, n))'
<1>1. CASE pc' = "route"
  <2>1. Pool' = batch' /\ DOMAIN pending' = {}
    BY <1>1 DEF Pool, PoolApart
  <2> QED BY <2>1 DEF InFlight, OnTheWay, InMailbox
<1>2. CASE pc' # "route"
  <2>1. Pool' = pending' /\ DOMAIN batch' = {}
    BY <1>2 DEF Pool, TypeOK, ReconcilerOK
  <2> QED BY <2>1 DEF InFlight, OnTheWay, InMailbox
<1> QED BY <1>1, <1>2

\* No step changes the kind of a handle in use.
KindKept(h) ==
  /\ task[h].status # "unused" => task'[h].kind = task[h].kind
  /\ task'[h].status = "unused" => task[h].status = "unused"

\* Steps that move no event.
LEMMA FlowNeutral ==
  ASSUME TypeOK, TypeOK', PoolApart, PoolApart', FlowInv, \A h \in Handles : KindKept(h),
         UNCHANGED <<ready_events, posted, dispatched>>,
         \A t \in DOMAIN Pool' : Pool'[t].type = "Event" => t \in DOMAIN Pool /\ Pool[t] = Pool'[t],
         \A t \in DOMAIN Pool : Pool[t].type = "Event" => t \in DOMAIN Pool' /\ Pool'[t] = Pool[t],
         \A m \in Runtimes : \A i \in DOMAIN mailbox'[m] :
           mailbox'[m][i].type = "Event" => i \in DOMAIN mailbox[m] /\ mailbox[m][i] = mailbox'[m][i],
         \A m \in Runtimes : \A i \in DOMAIN mailbox[m] :
           mailbox[m][i].type = "Event" => i \in DOMAIN mailbox'[m] /\ mailbox'[m][i] = mailbox[m][i]
  PROVE  FlowInv'
<1>1. EventsDue'
  BY DEF FlowInv, EventsDue, Due
<1>2. QueueOrdered'
  BY DEF FlowInv, QueueOrdered
<1>3. PoolOrdered'
  BY DEF FlowInv, PoolOrdered, Before
<1>4. MailOrdered'
  <2> SUFFICES ASSUME NEW m \in Runtimes, NEW j \in DOMAIN mailbox'[m]
               PROVE  /\ \A i \in DOMAIN mailbox'[m] : i < j => Before(mailbox'[m][i], mailbox'[m][j])
                      /\ \A i \in DOMAIN ready_events : Before(ready_events[i], mailbox'[m][j])
                      /\ \A t \in DOMAIN Pool' : Before(Pool'[t], mailbox'[m][j])
    BY DEF MailOrdered
  <2>1. CASE mailbox'[m][j].type = "Event"
    <3>1. j \in DOMAIN mailbox[m] /\ mailbox'[m][j] = mailbox[m][j]
      BY <2>1
    <3>2. \A i \in DOMAIN mailbox'[m] : i < j => Before(mailbox'[m][i], mailbox'[m][j])
      BY <3>1 DEF FlowInv, MailOrdered, Before
    <3>3. \A i \in DOMAIN ready_events : Before(ready_events[i], mailbox'[m][j])
      BY <3>1 DEF FlowInv, MailOrdered
    <3>4. \A t \in DOMAIN Pool' : Before(Pool'[t], mailbox'[m][j])
      BY <3>1 DEF FlowInv, MailOrdered, Before
    <3> QED BY <3>2, <3>3, <3>4
  <2>2. CASE mailbox'[m][j].type # "Event"
    BY <2>2 DEF Before
  <2> QED BY <2>1, <2>2
<1>5. Senders'
  <2>1. ASSUME NEW m \in Runtimes, NEW i \in DOMAIN mailbox'[m], mailbox'[m][i].type = "Event"
        PROVE  LET x == mailbox'[m][i] IN
               /\ x.src \in Handles
               /\ task'[x.src].kind # "local" /\ m = Runtime(task'[x.src].kind)
    <3> DEFINE e == mailbox[m][i]
    <3>1. i \in DOMAIN mailbox[m] /\ mailbox'[m][i] = e /\ e.type = "Event" /\ e \in Ops
      BY <2>1, PoolFacts
    <3>2. /\ e.src \in Handles /\ task[e.src].kind # "local" /\ m = Runtime(task[e.src].kind)
          /\ dispatched[e.src] < e.seq /\ e.seq <= posted[e.src]
      BY <3>1 DEF FlowInv, Senders, Travels, EventsDue, Due
    <3>3. posted[e.src] # 0
      <4>1. e.src \in Sources /\ e.seq \in Nat
        BY <3>1, EventFacts
      <4>2. posted[e.src] \in Nat /\ dispatched[e.src] \in Nat
        BY <4>1, QueueFacts
      <4> QED BY <3>2, <4>1, <4>2
    <3>4. task'[e.src].kind = task[e.src].kind
      BY <3>2, <3>3 DEF FlowInv, Senders, KindKept
    <3> HIDE DEF e
    <3> QED BY <3>1, <3>2, <3>4
  <2>2. \A h \in Handles : task'[h].status = "unused" => posted'[h] = 0
    BY DEF FlowInv, Senders, KindKept
  <2> QED BY <2>1, <2>2 DEF Senders, Travels
<1>6. NoEventLost'
  <2> SUFFICES ASSUME NEW p \in Sources, NEW n \in 1 .. posted[p], n > dispatched[p]
               PROVE  OnTheWay(Event(p, n))'
    BY OnTheWayNext DEF NoEventLost
  <2>1. OnTheWay(Event(p, n))
    BY OnTheWayNow DEF FlowInv, NoEventLost
  <2>2. Event(p, n).type = "Event"
    BY EventFacts
  <2>3. InMailbox(Event(p, n)) => InMailbox(Event(p, n))'
    BY <2>2 DEF InMailbox
  <2> QED BY <2>1, <2>2, <2>3 DEF OnTheWay
<1> QED BY <1>1, <1>2, <1>3, <1>4, <1>5, <1>6 DEF FlowInv

LEMMA KindsKept ==
  ASSUME TypeOK, TypeOK', PoolApart, TaskInv, [Next]_vars
  PROVE  \A h \in Handles : KindKept(h)
<1>0. UNCHANGED tasks => \A h \in Handles : KindKept(h)
  BY DEF KindKept, tasks
<1>1. CASE UNCHANGED tasks
  BY <1>0, <1>1
<1>2. ASSUME NEW g, NEW k, NewTask(g, k), stopped' = stopped
      PROVE  \A h \in Handles : KindKept(h)
  BY <1>2, NewTaskFacts DEF TaskInv, KindKept
<1>3. ASSUME NEW g \in Handles, StatusStep(g) PROVE \A h \in Handles : KindKept(h)
  BY <1>3 DEF StatusStep, task_returns, task_aborted, SetStatus, KindKept, TypeOK, TasksOK, Tasks
<1>4. CASE route
  <2>1. PICK t \in DOMAIN Pool :
          \/ EventOpConsumer(Pool[t]) \/ RequestTransitionConsumer(Pool[t])
          \/ SpawnTask(Pool[t]) \/ AbortTask(Pool[t]) \/ Unhandled(Pool[t])
    BY <1>4, RouteStep
  <2>2. Pool[t] \in Ops
    BY PoolFacts
  <2>3. CASE SpawnTask(Pool[t])
    <3>1. Pool[t].handle \in Handles
      BY <2>2, <2>3, TaskOpShape DEF SpawnTask
    <3> QED BY <2>3, <3>1 DEF SpawnTask, KindKept, TypeOK, TasksOK, Tasks
  <2>4. CASE AbortTask(Pool[t])
    <3>1. Pool[t].handle \in Handles
      BY <2>2, <2>4, TaskOpShape DEF AbortTask
    <3> QED BY <2>4, <3>1 DEF AbortTask, KindKept, TypeOK, TasksOK, Tasks
  <2>5. CASE task' = task
    BY <2>5 DEF KindKept
  <2> QED BY <2>1, <2>3, <2>4, <2>5 DEF EventOpConsumer, RequestTransitionConsumer, Unhandled
<1>5. CASE QuietStep \/ dispatch
  BY <1>0, <1>5, QuietFacts
<1>6. CASE drain
  BY <1>0, <1>6, DrainStep
<1>7. ASSUME NEW op, RequestStep(op) PROVE \A h \in Handles : KindKept(h)
  BY <1>0, <1>7, RequestFacts
<1>8. \A p : post(p) => UNCHANGED tasks
  BY DEF post
<1>9. \A h, s, p : send_post(h) \/ send_request_transition(h, s, p) => UNCHANGED tasks
  BY DEF send_post, send_request_transition
<1>10. \A h, g : stop_task(h) \/ send_stop_task(h, g) \/ stage_other => UNCHANGED tasks
  BY DEF stop_task, send_stop_task, stage_other
<1>11. \A h, k : start_task(h, k) => NewTask(h, k) /\ stopped' = stopped
  BY DEF start_task, Stages
<1>12. \A h, g : send_start_task(h, g) => NewTask(g, "send") /\ stopped' = stopped
  BY DEF send_start_task, Sends
<1> QED BY <1>1, <1>2, <1>3, <1>4, <1>5, <1>6, <1>7, <1>8, <1>9, <1>10, <1>11, <1>12, NextSplits

LEMMA FlowQuiet ==
  ASSUME TypeOK, TypeOK', PoolApart, PoolApart', FlowInv, \A h \in Handles : KindKept(h),
         Pool' = Pool, UNCHANGED <<mailbox, ready_events, posted, dispatched>>
  PROVE  FlowInv'
BY FlowNeutral

LEMMA FlowStaged ==
  ASSUME TypeOK, TypeOK', PoolApart, PoolApart', FlowInv, \A h \in Handles : KindKept(h),
         NEW op, op.type # "Event", Staged(op),
         UNCHANGED <<mailbox, ready_events, posted, dispatched>>
  PROVE  FlowInv'
<1>1. \A t \in DOMAIN Pool' :
        Pool'[t].type = "Event" => t \in DOMAIN Pool /\ Pool[t] = Pool'[t]
  BY DEF Staged
<1>2. \A t \in DOMAIN Pool :
        Pool[t].type = "Event" => t \in DOMAIN Pool' /\ Pool'[t] = Pool[t]
  BY DEF Staged
<1> QED BY <1>1, <1>2, FlowNeutral

LEMMA FlowSent ==
  ASSUME TypeOK, TypeOK', PoolApart, PoolApart', FlowInv, \A h \in Handles : KindKept(h),
         NEW op, op.type # "Event", NEW r \in Runtimes, Sent(r, op), Pool' = Pool,
         UNCHANGED <<ready_events, posted, dispatched>>
  PROVE  FlowInv'
<1>1. \A m \in Runtimes : \A i \in DOMAIN mailbox'[m] :
        mailbox'[m][i].type = "Event" => i \in DOMAIN mailbox[m] /\ mailbox[m][i] = mailbox'[m][i]
  BY PoolFacts, SMTT(30) DEF Sent
<1>2. \A m \in Runtimes : \A i \in DOMAIN mailbox[m] :
        mailbox[m][i].type = "Event" => i \in DOMAIN mailbox'[m] /\ mailbox'[m][i] = mailbox[m][i]
  BY PoolFacts, SMTT(30) DEF Sent
<1> QED BY <1>1, <1>2, FlowNeutral

\* Every event on its way was posted before the next one of its source.
LEMMA PostedBefore ==
  ASSUME TypeOK, FlowInv, NEW p \in Sources
  PROVE  LET e == Event(p, posted[p] + 1) IN
         /\ \A i \in DOMAIN ready_events : Before(ready_events[i], e)
         /\ \A t \in DOMAIN Pool : Before(Pool[t], e)
         /\ \A m \in Runtimes : \A i \in DOMAIN mailbox[m] : Before(mailbox[m][i], e)
<1> DEFINE e == Event(p, posted[p] + 1)
<1>1. e.src = p /\ e.seq = posted[p] + 1 /\ posted[p] \in Nat
  BY EventFacts, QueueFacts
<1>2. ASSUME NEW x \in Ops, Due(x) PROVE Before(x, e)
  <2> SUFFICES ASSUME x.type = "Event", x.src = p PROVE x.seq < e.seq
    BY <1>1 DEF Before
  <2>1. x.seq \in Nat /\ x.seq <= posted[p]
    BY <1>2, EventFacts DEF Due
  <2> QED BY <1>1, <2>1
<1> HIDE DEF e
<1>3. \A i \in DOMAIN ready_events : Before(ready_events[i], e)
  BY <1>2, QueueFacts DEF FlowInv, EventsDue
<1>4. \A t \in DOMAIN Pool : Before(Pool[t], e)
  BY <1>2, PoolFacts DEF FlowInv, EventsDue
<1>5. \A m \in Runtimes : \A i \in DOMAIN mailbox[m] : Before(mailbox[m][i], e)
  BY <1>2, PoolFacts DEF FlowInv, EventsDue
<1> QED BY <1>3, <1>4, <1>5 DEF e

\* posted[p] counts up, and whatever was due still is.
LEMMA PostedGrows ==
  ASSUME TypeOK, FlowInv, NEW p \in Sources, posted' = [posted EXCEPT ![p] = @ + 1],
         dispatched' = dispatched
  PROVE  /\ posted'[p] = posted[p] + 1 /\ posted[p] \in Nat
         /\ \A q \in Sources : q # p => posted'[q] = posted[q]
         /\ \A q \in Sources : dispatched'[q] <= posted'[q]
         /\ \A x \in Ops : x.type = "Event" /\ dispatched[x.src] < x.seq /\ x.seq <= posted[x.src]
                             => dispatched'[x.src] < x.seq /\ x.seq <= posted'[x.src]
<1>1. /\ posted'[p] = posted[p] + 1 /\ posted[p] \in Nat
      /\ \A q \in Sources : q # p => posted'[q] = posted[q]
      /\ \A q \in Sources : posted[q] \in Nat /\ posted'[q] \in Nat /\ posted[q] <= posted'[q]
                            /\ dispatched[q] \in Nat
  BY QueueFacts
<1>2. \A q \in Sources : dispatched'[q] <= posted'[q]
  BY <1>1 DEF FlowInv, EventsDue
<1>3. ASSUME NEW x \in Ops, x.type = "Event", x.seq <= posted[x.src]
      PROVE  x.seq <= posted'[x.src]
  <2>1. x.src \in Sources /\ x.seq \in Nat
    BY <1>3, EventFacts
  <2> QED BY <1>1, <1>3, <2>1
<1> QED BY <1>1, <1>2, <1>3

LEMMA FlowPost ==
  ASSUME TypeOK, TypeOK', PoolApart, FlowInv, NEW p \in Sources, post(p)
  PROVE  FlowInv'
<1> DEFINE e == Event(p, posted[p] + 1)
           n == next_ticket
<1>1. /\ Staged(e) /\ PoolApart' /\ posted' = [posted EXCEPT ![p] = @ + 1]
      /\ p = main \/ (task[p].kind = "local" /\ task[p].status = "live")
      /\ UNCHANGED <<mailbox, ready_events, dispatched, task>>
  BY DirectStep DEF post, queues, tasks
<1>2. /\ \A i \in DOMAIN ready_events : Before(ready_events[i], e)
      /\ \A t \in DOMAIN Pool : Before(Pool[t], e)
  BY PostedBefore
<1>3. /\ posted'[p] = posted[p] + 1 /\ posted[p] \in Nat
      /\ \A q \in Sources : q # p => posted'[q] = posted[q]
      /\ \A q \in Sources : dispatched'[q] <= posted'[q]
      /\ \A x \in Ops : x.type = "Event" /\ dispatched[x.src] < x.seq /\ x.seq <= posted[x.src]
                          => dispatched'[x.src] < x.seq /\ x.seq <= posted'[x.src]
  BY <1>1, PostedGrows
<1>4. e.type = "Event" /\ e.src = p /\ e.seq = posted[p] + 1
  BY EventFacts
<1>5. /\ n \in Nat /\ \A t \in DOMAIN Pool : t \in Nat /\ t < n
      /\ \A t \in DOMAIN Pool' : \/ t \in DOMAIN Pool /\ Pool'[t] = Pool[t]
                                 \/ t = n /\ Pool'[t] = e
      /\ \A t \in DOMAIN Pool :
           Pool[t].type = "Event" => t \in DOMAIN Pool' /\ Pool'[t] = Pool[t]
      /\ n \in DOMAIN Pool' /\ Pool'[n] = e
  BY <1>1, <1>4, PoolFacts DEF Staged
<1> HIDE DEF e, n
<1>6. EventsDue'
  <2>1. \A i \in DOMAIN ready_events : Due(ready_events[i])'
    BY <1>1, <1>3, QueueFacts DEF FlowInv, EventsDue, Due
  <2>2. \A m \in Runtimes : \A i \in DOMAIN mailbox[m] : Due(mailbox[m][i])'
    BY <1>1, <1>3, PoolFacts DEF FlowInv, EventsDue, Due
  <2>3. ASSUME NEW t \in DOMAIN Pool' PROVE Due(Pool[t])'
    <3>1. CASE t \in DOMAIN Pool /\ Pool'[t] = Pool[t]
      BY <3>1, <1>3, PoolFacts DEF FlowInv, EventsDue, Due
    <3>2. CASE Pool'[t] = e
      <4>1. dispatched[p] <= posted[p] /\ dispatched[p] \in Nat /\ dispatched' = dispatched
        BY <1>1, QueueFacts DEF FlowInv, EventsDue
      <4> QED BY <3>2, <4>1, <1>3, <1>4 DEF Due
    <3> QED BY <3>1, <3>2, <1>5
  <2> QED BY <2>1, <2>2, <2>3, <1>1, <1>3 DEF EventsDue
<1>7. QueueOrdered'
  BY <1>1 DEF FlowInv, QueueOrdered
<1>8. PoolOrdered'
  <2>1. ASSUME NEW t \in DOMAIN Pool', NEW u \in DOMAIN Pool', t < u
        PROVE  Before(Pool'[t], Pool'[u])
    BY <2>1, <1>2, <1>5 DEF FlowInv, PoolOrdered
  <2>2. ASSUME NEW i \in DOMAIN ready_events, NEW t \in DOMAIN Pool'
        PROVE  Before(ready_events[i], Pool'[t])
    BY <1>2, <1>5 DEF FlowInv, PoolOrdered
  <2> QED BY <2>1, <2>2, <1>1 DEF PoolOrdered
<1>9. MailOrdered'
  <2> SUFFICES ASSUME NEW m \in Runtimes, NEW j \in DOMAIN mailbox[m], NEW t \in DOMAIN Pool'
               PROVE  Before(Pool'[t], mailbox[m][j])
    BY <1>1 DEF FlowInv, MailOrdered
  <2>1. CASE Pool'[t] = e
    <3>1. mailbox[m][j].type = "Event" => mailbox[m][j].src # p
      BY <1>1 DEF FlowInv, Senders, Travels, Handles, main
    <3> QED BY <2>1, <3>1, <1>4 DEF Before
  <2>2. CASE t \in DOMAIN Pool /\ Pool'[t] = Pool[t]
    BY <2>2 DEF FlowInv, MailOrdered
  <2> QED BY <2>1, <2>2, <1>5
<1>10. Senders'
  <2>1. \A m \in Runtimes : \A i \in DOMAIN mailbox[m] : Travels(mailbox[m][i], m)'
    BY <1>1 DEF FlowInv, Senders, Travels
  <2>2. ASSUME NEW h \in Handles, task[h].status = "unused" PROVE posted'[h] = 0
    <3>1. h # p /\ h \in Sources
      BY <2>2, <1>1 DEF Handles, main, Sources
    <3> QED BY <2>2, <3>1, <1>3 DEF FlowInv, Senders
  <2> QED BY <2>1, <2>2, <1>1 DEF Senders
<1>11. NoEventLost'
  <2> SUFFICES ASSUME NEW q \in Sources, NEW k \in 1 .. posted'[q], k > dispatched[q]
               PROVE  OnTheWay(Event(q, k))'
    BY <1>1, OnTheWayNext DEF NoEventLost
  <2>1. CASE q = p /\ k = posted[p] + 1
    BY <2>1, <1>5 DEF OnTheWay, e
  <2>2. CASE ~ (q = p /\ k = posted[p] + 1)
    <3>1. k \in 1 .. posted[q]
      <4>1. posted[q] \in Nat
        BY QueueFacts
      <4> QED BY <2>2, <4>1, <1>3
    <3>2. OnTheWay(Event(q, k))
      BY <3>1, OnTheWayNow DEF FlowInv, NoEventLost
    <3>3. InMailbox(Event(q, k)) => InMailbox(Event(q, k))'
      BY <1>1 DEF InMailbox
    <3>4. Event(q, k).type = "Event"
      BY EventFacts
    <3> QED BY <3>2, <3>3, <3>4, <1>1, <1>5 DEF OnTheWay
  <2> QED BY <2>1, <2>2
<1> QED BY <1>6, <1>7, <1>8, <1>9, <1>10, <1>11 DEF FlowInv

LEMMA FlowSendPost ==
  ASSUME TypeOK, TypeOK', PoolApart, FlowInv, NEW h \in Handles, send_post(h)
  PROVE  FlowInv'
<1> DEFINE e == Event(h, posted[h] + 1)
           m == Runtime(task[h].kind)
           n == Len(mailbox[m])
<1>0. h \in Sources
  BY DEF Sources
<1>1. /\ Sent(m, e) /\ Pool' = Pool /\ PoolApart' /\ posted' = [posted EXCEPT ![h] = @ + 1]
      /\ task[h].kind # "local" /\ task[h].status # "unused"
      /\ UNCHANGED <<ready_events, dispatched, task>>
  BY SendStep DEF send_post, Sends, CanSend, queues, tasks
<1>2. /\ \A i \in DOMAIN ready_events : Before(ready_events[i], e)
      /\ \A t \in DOMAIN Pool : Before(Pool[t], e)
      /\ \A r \in Runtimes : \A i \in DOMAIN mailbox[r] : Before(mailbox[r][i], e)
  BY <1>0, PostedBefore
<1>3. /\ posted'[h] = posted[h] + 1 /\ posted[h] \in Nat
      /\ \A q \in Sources : q # h => posted'[q] = posted[q]
      /\ \A q \in Sources : dispatched'[q] <= posted'[q]
      /\ \A x \in Ops : x.type = "Event" /\ dispatched[x.src] < x.seq /\ x.seq <= posted[x.src]
                          => dispatched'[x.src] < x.seq /\ x.seq <= posted'[x.src]
  BY <1>0, <1>1, PostedGrows
<1>4. e.type = "Event" /\ e.src = h /\ e.seq = posted[h] + 1
  BY EventFacts
<1>5. /\ m \in Runtimes /\ n \in Nat
      /\ \A r \in Runtimes : r # m => mailbox'[r] = mailbox[r]
      /\ \A i : i \in DOMAIN mailbox'[m] <=> i \in DOMAIN mailbox[m] \/ i = n + 1
      /\ \A i \in DOMAIN mailbox[m] : i \in Nat /\ i < n + 1 /\ mailbox'[m][i] = mailbox[m][i]
      /\ mailbox'[m][n + 1] = e
  BY <1>1, PoolFacts DEF Sent
<1>k. m = Runtime(task[h].kind)
  OBVIOUS
<1> HIDE DEF e, n, m
<1>b. ASSUME NEW r \in Runtimes, NEW i \in DOMAIN mailbox'[r]
      PROVE  \/ i \in DOMAIN mailbox[r] /\ mailbox'[r][i] = mailbox[r][i]
             \/ r = m /\ i = n + 1 /\ mailbox'[r][i] = e
  BY <1>5
<1>c. ASSUME NEW r \in Runtimes, NEW i \in DOMAIN mailbox[r]
      PROVE  i \in DOMAIN mailbox'[r] /\ mailbox'[r][i] = mailbox[r][i]
  BY <1>5
<1>6. EventsDue'
  <2>1. \A i \in DOMAIN ready_events : Due(ready_events[i])'
    BY <1>1, <1>3, QueueFacts DEF FlowInv, EventsDue, Due
  <2>2. \A t \in DOMAIN Pool : Due(Pool[t])'
    BY <1>1, <1>3, PoolFacts DEF FlowInv, EventsDue, Due
  <2>3. ASSUME NEW r \in Runtimes, NEW i \in DOMAIN mailbox'[r] PROVE Due(mailbox[r][i])'
    <3>1. CASE i \in DOMAIN mailbox[r] /\ mailbox'[r][i] = mailbox[r][i]
      BY <3>1, <1>3, PoolFacts DEF FlowInv, EventsDue, Due
    <3>2. CASE mailbox'[r][i] = e
      <4>1. dispatched[h] <= posted[h] /\ dispatched[h] \in Nat /\ dispatched' = dispatched
        BY <1>0, <1>1, QueueFacts DEF FlowInv, EventsDue
      <4> QED BY <3>2, <4>1, <1>3, <1>4 DEF Due
    <3> QED BY <3>1, <3>2, <1>b
  <2> QED BY <2>1, <2>2, <2>3, <1>1, <1>3 DEF EventsDue
<1>7. QueueOrdered' /\ PoolOrdered'
  BY <1>1 DEF FlowInv, QueueOrdered, PoolOrdered
<1>9. MailOrdered'
  <2> SUFFICES ASSUME NEW r \in Runtimes, NEW j \in DOMAIN mailbox'[r]
               PROVE  /\ \A i \in DOMAIN mailbox'[r] : i < j => Before(mailbox'[r][i], mailbox'[r][j])
                      /\ \A i \in DOMAIN ready_events : Before(ready_events[i], mailbox'[r][j])
                      /\ \A t \in DOMAIN Pool : Before(Pool[t], mailbox'[r][j])
    BY <1>1 DEF MailOrdered
  <2>1. CASE r = m /\ j = n + 1 /\ mailbox'[r][j] = e
    <3>1. ASSUME NEW i \in DOMAIN mailbox'[r], i < j PROVE Before(mailbox'[r][i], mailbox'[r][j])
      BY <2>1, <3>1, <1>2, <1>5, <1>b
    <3> QED BY <2>1, <3>1, <1>2
  <2>2. CASE j \in DOMAIN mailbox[r] /\ mailbox'[r][j] = mailbox[r][j]
    <3>1. ASSUME NEW i \in DOMAIN mailbox'[r], i < j
          PROVE  i \in DOMAIN mailbox[r] /\ mailbox'[r][i] = mailbox[r][i]
      BY <2>2, <3>1, <1>5, <1>b
    <3> QED BY <2>2, <3>1 DEF FlowInv, MailOrdered
  <2> QED BY <2>1, <2>2, <1>b
<1>10. Senders'
  <2>1. ASSUME NEW r \in Runtimes, NEW i \in DOMAIN mailbox'[r] PROVE Travels(mailbox[r][i], r)'
    BY <1>1, <1>4, <1>k, <1>b DEF FlowInv, Senders, Travels
  <2>2. ASSUME NEW g \in Handles, task[g].status = "unused" PROVE posted'[g] = 0
    <3>1. g # h /\ g \in Sources
      BY <2>2, <1>1 DEF Sources
    <3> QED BY <2>2, <3>1, <1>3 DEF FlowInv, Senders
  <2> QED BY <2>1, <2>2, <1>1 DEF Senders
<1>11. NoEventLost'
  <2> SUFFICES ASSUME NEW q \in Sources, NEW k \in 1 .. posted'[q], k > dispatched[q]
               PROVE  OnTheWay(Event(q, k))'
    BY <1>1, OnTheWayNext DEF NoEventLost
  <2>1. CASE q = h /\ k = posted[h] + 1
    BY <2>1, <1>5 DEF OnTheWay, InMailbox, e
  <2>2. CASE ~ (q = h /\ k = posted[h] + 1)
    <3>1. k \in 1 .. posted[q]
      <4>1. posted[q] \in Nat
        BY QueueFacts
      <4> QED BY <2>2, <4>1, <1>3
    <3>2. OnTheWay(Event(q, k))
      BY <3>1, OnTheWayNow DEF FlowInv, NoEventLost
    <3>3. InMailbox(Event(q, k)) => InMailbox(Event(q, k))'
      BY <1>c DEF InMailbox
    <3> QED BY <3>2, <3>3, <1>1 DEF OnTheWay
  <2> QED BY <2>1, <2>2
<1> QED BY <1>6, <1>7, <1>9, <1>10, <1>11 DEF FlowInv

LEMMA FlowDrain ==
  ASSUME TypeOK, TypeOK', PoolApart, FlowInv, drain
  PROVE  FlowInv'
<1>1. PICK m \in Runtimes : Drained(m) /\ Staged(mailbox[m][1])
  BY DrainStep
<1>2. /\ PoolApart' /\ UNCHANGED <<task, ready_events, posted, dispatched>>
  BY DrainStep DEF tasks, queues
<1> DEFINE n == next_ticket
           e == mailbox[m][1]
<1>3. /\ 1 \in DOMAIN mailbox[m]
      /\ \A r \in Runtimes : r # m => mailbox'[r] = mailbox[r]
      /\ \A i \in DOMAIN mailbox[m] : i \in Nat /\ (i = 1 \/ i - 1 \in DOMAIN mailbox'[m])
      /\ \A i \in DOMAIN mailbox'[m] :
           i \in Nat /\ i >= 1 /\ i + 1 \in DOMAIN mailbox[m] /\ mailbox'[m][i] = mailbox[m][i + 1]
  BY <1>1 DEF Drained
<1>4. /\ n \in Nat /\ \A t \in DOMAIN Pool : t \in Nat /\ t < n
      /\ \A t \in DOMAIN Pool' : \/ t \in DOMAIN Pool /\ Pool'[t] = Pool[t]
                                 \/ t = n /\ Pool'[t] = e
      /\ \A t \in DOMAIN Pool :
           Pool[t].type = "Event" => t \in DOMAIN Pool' /\ Pool'[t] = Pool[t]
      /\ e.type = "Event" => n \in DOMAIN Pool' /\ Pool'[n] = e
  BY <1>1, PoolFacts DEF Staged
<1>5. /\ Due(e) /\ Travels(e, m)
      /\ \A i \in DOMAIN ready_events : Before(ready_events[i], e)
      /\ \A t \in DOMAIN Pool : Before(Pool[t], e)
      /\ \A j \in DOMAIN mailbox[m] : 1 < j => Before(e, mailbox[m][j])
  BY <1>3 DEF FlowInv, EventsDue, Senders, MailOrdered
<1>6. ASSUME NEW r \in Runtimes, NEW i \in DOMAIN mailbox'[r]
      PROVE  \E k \in DOMAIN mailbox[r] :
               /\ mailbox'[r][i] = mailbox[r][k] /\ (r = m => k = i + 1 /\ k > 1 /\ i \in Nat)
               /\ (r # m => k = i)
  BY <1>3
<1>7. ASSUME NEW r \in Runtimes, NEW j \in DOMAIN mailbox'[r]
      PROVE  Before(e, mailbox'[r][j])
  <2>1. CASE r = m
    BY <2>1, <1>5, <1>6
  <2>2. CASE r # m
    <3>1. j \in DOMAIN mailbox[r] /\ mailbox'[r][j] = mailbox[r][j]
      BY <2>2, <1>3
    <3>2. Travels(mailbox[r][j], r)
      BY <3>1 DEF FlowInv, Senders
    <3> QED BY <2>2, <3>1, <3>2, <1>5 DEF Travels, Before
  <2> QED BY <2>1, <2>2
<1> HIDE DEF n, e
<1>8. EventsDue'
  <2>1. ASSUME NEW t \in DOMAIN Pool' PROVE Due(Pool[t])'
    BY <1>2, <1>4, <1>5 DEF FlowInv, EventsDue, Due
  <2>2. ASSUME NEW r \in Runtimes, NEW i \in DOMAIN mailbox'[r] PROVE Due(mailbox[r][i])'
    BY <1>2, <1>6 DEF FlowInv, EventsDue, Due
  <2>3. \A i \in DOMAIN ready_events : Due(ready_events[i])'
    BY <1>2 DEF FlowInv, EventsDue, Due
  <2> QED BY <2>1, <2>2, <2>3, <1>2 DEF FlowInv, EventsDue
<1>9. QueueOrdered'
  BY <1>2 DEF FlowInv, QueueOrdered
<1>10. PoolOrdered'
  <2>1. ASSUME NEW t \in DOMAIN Pool', NEW u \in DOMAIN Pool', t < u
        PROVE  Before(Pool'[t], Pool'[u])
    BY <2>1, <1>4, <1>5 DEF FlowInv, PoolOrdered
  <2>2. ASSUME NEW i \in DOMAIN ready_events, NEW t \in DOMAIN Pool'
        PROVE  Before(ready_events[i], Pool'[t])
    BY <1>4, <1>5 DEF FlowInv, PoolOrdered
  <2> QED BY <2>1, <2>2, <1>2 DEF PoolOrdered
<1>11. MailOrdered'
  <2> SUFFICES ASSUME NEW r \in Runtimes, NEW j \in DOMAIN mailbox'[r]
               PROVE  /\ \A i \in DOMAIN mailbox'[r] : i < j => Before(mailbox'[r][i], mailbox'[r][j])
                      /\ \A i \in DOMAIN ready_events : Before(ready_events[i], mailbox'[r][j])
                      /\ \A t \in DOMAIN Pool' : Before(Pool'[t], mailbox'[r][j])
    BY <1>2 DEF MailOrdered
  <2>1. PICK k \in DOMAIN mailbox[r] :
          /\ mailbox'[r][j] = mailbox[r][k] /\ (r = m => k = j + 1 /\ k > 1 /\ j \in Nat)
          /\ (r # m => k = j)
    BY <1>6
  <2>2. ASSUME NEW i \in DOMAIN mailbox'[r], i < j PROVE Before(mailbox'[r][i], mailbox'[r][j])
    <3>1. PICK l \in DOMAIN mailbox[r] :
            /\ mailbox'[r][i] = mailbox[r][l] /\ (r = m => l = i + 1 /\ l > 1 /\ i \in Nat)
            /\ (r # m => l = i)
      BY <1>6
    <3>2. l < k
      BY <2>1, <2>2, <3>1
    <3> QED BY <2>1, <3>1, <3>2 DEF FlowInv, MailOrdered
  <2>3. \A i \in DOMAIN ready_events : Before(ready_events[i], mailbox'[r][j])
    BY <2>1 DEF FlowInv, MailOrdered
  <2>4. ASSUME NEW t \in DOMAIN Pool' PROVE Before(Pool'[t], mailbox'[r][j])
    BY <2>1, <1>4, <1>7 DEF FlowInv, MailOrdered
  <2> QED BY <2>2, <2>3, <2>4
<1>12. Senders'
  <2>1. ASSUME NEW r \in Runtimes, NEW i \in DOMAIN mailbox'[r] PROVE Travels(mailbox[r][i], r)'
    BY <1>2, <1>6 DEF FlowInv, Senders, Travels
  <2> QED BY <2>1, <1>2 DEF FlowInv, Senders
<1>13. NoEventLost'
  <2> SUFFICES ASSUME NEW q \in Sources, NEW k \in 1 .. posted[q], k > dispatched[q]
               PROVE  OnTheWay(Event(q, k))'
    BY <1>2, OnTheWayNext DEF NoEventLost
  <2> DEFINE x == Event(q, k)
  <2>0. x.type = "Event"
    BY EventFacts
  <2>1. OnTheWay(x)
    BY OnTheWayNow DEF FlowInv, NoEventLost
  <2> HIDE DEF x
  <2>2. CASE InMailbox(x)
    <3>1. PICK r \in Runtimes : \E i \in DOMAIN mailbox[r] : mailbox[r][i] = x
      BY <2>2 DEF InMailbox
    <3>2. PICK i \in DOMAIN mailbox[r] : mailbox[r][i] = x
      BY <3>1
    <3>3. CASE r # m
      BY <3>2, <3>3, <1>3 DEF InMailbox, OnTheWay, x
    <3>4. CASE r = m /\ i = 1
      BY <3>2, <3>4, <2>0, <1>4 DEF OnTheWay, e, x
    <3>5. CASE r = m /\ i # 1
      <4>1. i - 1 \in DOMAIN mailbox'[m] /\ mailbox'[m][i - 1] = x
        BY <3>2, <3>5, <1>3
      <4> QED BY <4>1 DEF InMailbox, OnTheWay, x
    <3> QED BY <3>3, <3>4, <3>5
  <2>3. CASE \E t \in DOMAIN Pool : Pool[t] = x
    BY <2>3, <2>0, <1>4 DEF OnTheWay, x
  <2>4. CASE \E i \in DOMAIN ready_events : ready_events[i] = x
    BY <2>4, <1>2 DEF OnTheWay, x
  <2> QED BY <2>1, <2>2, <2>3, <2>4 DEF OnTheWay, x
<1> QED BY <1>8, <1>9, <1>10, <1>11, <1>12, <1>13 DEF FlowInv

LEMMA FlowRoute ==
  ASSUME TypeOK, TypeOK', PoolApart, FlowInv, \A h \in Handles : KindKept(h), route
  PROVE  FlowInv'
<1>1. PICK t \in DOMAIN Pool :
        /\ Routed(t)
        /\ \/ EventOpConsumer(Pool[t]) \/ RequestTransitionConsumer(Pool[t])
           \/ SpawnTask(Pool[t]) \/ AbortTask(Pool[t]) \/ Unhandled(Pool[t])
  BY RouteStep
<1>2. PoolApart' /\ UNCHANGED <<mailbox, posted, dispatched>>
  BY RouteStep
<1>3. /\ \A u \in DOMAIN Pool : t <= u /\ u \in Nat /\ t \in Nat
      /\ \A u : u \in DOMAIN Pool' <=> u \in DOMAIN Pool /\ u # t
      /\ \A u \in DOMAIN Pool' : Pool'[u] = Pool[u]
  BY <1>1, PoolFacts DEF Routed
<1>4. CASE Pool[t].type # "Event"
  <2>1. ready_events' = ready_events
    BY <1>1, <1>4 DEF EventOpConsumer, RequestTransitionConsumer, SpawnTask, AbortTask,
                      Unhandled, queues
  <2> QED BY <2>1, <1>2, <1>3, <1>4, FlowNeutral
<1>5. CASE Pool[t].type = "Event"
  <2> DEFINE e == Pool[t]
             n == Len(ready_events)
  <2>1. ready_events' = Append(ready_events, e) /\ task' = task
    BY <1>1, <1>5 DEF EventOpConsumer, RequestTransitionConsumer, SpawnTask, AbortTask, Unhandled
  <2>2. /\ n \in Nat
        /\ \A i : i \in DOMAIN ready_events' <=> i \in DOMAIN ready_events \/ i = n + 1
        /\ \A i \in DOMAIN ready_events :
             i \in Nat /\ i < n + 1 /\ ready_events'[i] = ready_events[i]
        /\ ready_events'[n + 1] = e
    BY <2>1, QueueFacts
  <2>3. /\ Due(e) /\ \A u \in DOMAIN Pool' : Before(e, Pool'[u])
        /\ \A i \in DOMAIN ready_events : Before(ready_events[i], e)
        /\ \A m \in Runtimes : \A j \in DOMAIN mailbox[m] : Before(e, mailbox[m][j])
    <3>1. \A u \in DOMAIN Pool' : t < u
      BY <1>3
    <3> QED BY <3>1, <1>3 DEF FlowInv, EventsDue, PoolOrdered, MailOrdered
  <2> HIDE DEF e, n
  <2>b. ASSUME NEW i \in DOMAIN ready_events'
        PROVE  \/ i \in DOMAIN ready_events /\ ready_events'[i] = ready_events[i]
               \/ i = n + 1 /\ ready_events'[i] = e
    BY <2>2
  <2>4. EventsDue'
    <3>1. \A i \in DOMAIN ready_events' : Due(ready_events[i])'
      BY <2>b, <2>3, <1>2 DEF FlowInv, EventsDue, Due
    <3>2. \A u \in DOMAIN Pool' : Due(Pool[u])'
      BY <1>2, <1>3 DEF FlowInv, EventsDue, Due
    <3>3. \A m \in Runtimes : \A i \in DOMAIN mailbox[m] : Due(mailbox[m][i])'
      BY <1>2 DEF FlowInv, EventsDue, Due
    <3> QED BY <3>1, <3>2, <3>3, <1>2 DEF FlowInv, EventsDue
  <2>5. QueueOrdered'
    <3> SUFFICES ASSUME NEW i \in DOMAIN ready_events', NEW j \in DOMAIN ready_events', i < j
                 PROVE  Before(ready_events'[i], ready_events'[j])
      BY DEF QueueOrdered
    <3> QED BY <2>b, <2>2, <2>3 DEF FlowInv, QueueOrdered
  <2>6. PoolOrdered'
    <3>1. \A u, v \in DOMAIN Pool' : u < v => Before(Pool'[u], Pool'[v])
      BY <1>3 DEF FlowInv, PoolOrdered
    <3>2. ASSUME NEW i \in DOMAIN ready_events', NEW u \in DOMAIN Pool'
          PROVE  Before(ready_events'[i], Pool'[u])
      BY <2>b, <2>3, <1>3 DEF FlowInv, PoolOrdered
    <3> QED BY <3>1, <3>2 DEF PoolOrdered
  <2>7. MailOrdered'
    <3> SUFFICES ASSUME NEW m \in Runtimes, NEW j \in DOMAIN mailbox[m]
                 PROVE  /\ \A i \in DOMAIN mailbox[m] : i < j => Before(mailbox[m][i], mailbox[m][j])
                        /\ \A i \in DOMAIN ready_events' : Before(ready_events'[i], mailbox[m][j])
                        /\ \A u \in DOMAIN Pool' : Before(Pool'[u], mailbox[m][j])
      BY <1>2 DEF MailOrdered
    <3>1. \A i \in DOMAIN ready_events' : Before(ready_events'[i], mailbox[m][j])
      BY <2>b, <2>3 DEF FlowInv, MailOrdered
    <3> QED BY <3>1, <1>3 DEF FlowInv, MailOrdered
  <2>8. Senders'
    BY <2>1, <1>2 DEF FlowInv, Senders, Travels
  <2>9. NoEventLost'
    <3> SUFFICES ASSUME NEW q \in Sources, NEW k \in 1 .. posted[q], k > dispatched[q]
                 PROVE  OnTheWay(Event(q, k))'
      BY <1>2, OnTheWayNext DEF NoEventLost
    <3>1. OnTheWay(Event(q, k))
      BY OnTheWayNow DEF FlowInv, NoEventLost
    <3>2. CASE InMailbox(Event(q, k))
      BY <3>2, <1>2 DEF OnTheWay, InMailbox
    <3>3. CASE \E u \in DOMAIN Pool : Pool[u] = Event(q, k)
      <4>1. PICK u \in DOMAIN Pool : Pool[u] = Event(q, k)
        BY <3>3
      <4>2. CASE u = t
        BY <4>1, <4>2, <2>2 DEF OnTheWay, e
      <4>3. CASE u # t
        BY <4>1, <4>3, <1>3 DEF OnTheWay
      <4> QED BY <4>2, <4>3
    <3>4. CASE \E i \in DOMAIN ready_events : ready_events[i] = Event(q, k)
      BY <3>4, <2>2 DEF OnTheWay
    <3> QED BY <3>1, <3>2, <3>3, <3>4 DEF OnTheWay
  <2> QED BY <2>4, <2>5, <2>6, <2>7, <2>8, <2>9 DEF FlowInv
<1> QED BY <1>4, <1>5

\* The event taken is the next one of its source: none is ahead of it, and the
\* next one is on its way.
LEMMA HeadIsNext ==
  ASSUME TypeOK, PoolApart, FlowInv, ready_events # << >>
  PROVE  /\ 1 \in DOMAIN ready_events /\ ready_events[1].type = "Event"
         /\ ready_events[1].src \in Sources
         /\ ready_events[1].seq = dispatched[ready_events[1].src] + 1
         /\ ready_events[1].seq <= posted[ready_events[1].src]
<1> DEFINE e == ready_events[1]
           p == e.src
           n == dispatched[p] + 1
<1>1. /\ 1 \in DOMAIN ready_events /\ e \in Ops /\ e.type = "Event"
      /\ \A i \in DOMAIN ready_events : i \in Nat /\ i >= 1
  BY QueueFacts
<1>2. p \in Sources /\ e.seq \in Nat /\ e.type = "Event"
  BY <1>1, EventFacts
<1>3. dispatched[p] \in Nat /\ posted[p] \in Nat
  BY <1>2, QueueFacts
<1>4. dispatched[p] < e.seq /\ e.seq <= posted[p]
  BY <1>1 DEF FlowInv, EventsDue, Due
<1>5. OnTheWay(Event(p, n))
  <2>1. n \in 1 .. posted[p] /\ n > dispatched[p]
    BY <1>2, <1>3, <1>4
  <2>2. InFlight(p, n)
    BY <2>1, <1>2 DEF FlowInv, NoEventLost
  <2> QED BY <2>2, OnTheWayNow
<1>6. \A x : x = Event(p, n) => x.type = "Event" /\ x.src = p /\ x.seq = n
  BY EventFacts
<1>h. n \in Nat /\ n = dispatched[p] + 1
  BY <1>3
<1> HIDE DEF e, p, n
<1>7. ASSUME NEW x, x = Event(p, n), Before(e, x) PROVE FALSE
  <2>1. e.seq < n
    BY <1>2, <1>6, <1>7 DEF Before, p
  <2> QED BY <2>1, <1>2, <1>3, <1>4, <1>h
<1>8. \E i \in DOMAIN ready_events : ready_events[i] = Event(p, n)
  <2>1. ~ InMailbox(Event(p, n))
    BY <1>1, <1>7 DEF InMailbox, FlowInv, MailOrdered, e
  <2>2. ~ \E t \in DOMAIN Pool : Pool[t] = Event(p, n)
    BY <1>1, <1>7 DEF FlowInv, PoolOrdered, e
  <2> QED BY <2>1, <2>2, <1>5 DEF OnTheWay
<1>9. PICK i \in DOMAIN ready_events : ready_events[i] = Event(p, n)
  BY <1>8
<1>10. i = 1
  <2>1. ~ (1 < i)
    BY <1>1, <1>7, <1>9 DEF FlowInv, QueueOrdered, e
  <2> QED BY <2>1, <1>1
<1>11. e.seq = n
  BY <1>6, <1>9, <1>10 DEF e
<1> QED BY <1>1, <1>2, <1>4, <1>11 DEF e, p, n

LEMMA FlowDispatch ==
  ASSUME TypeOK, TypeOK', PoolApart, FlowInv, dispatch
  PROVE  FlowInv' /\ EventsInOrder'
<1> DEFINE e == ready_events[1]
           p == e.src
<1>1. /\ ready_events # << >> /\ hand' = Head(ready_events) /\ ready_events' = Tail(ready_events)
      /\ dispatched' = [dispatched EXCEPT ![hand'.src] = @ + 1]
      /\ UNCHANGED <<mailbox, posted, task>>
  BY DEF dispatch, tasks
<1>q. Pool' = Pool /\ PoolApart'
  BY QuietFacts
<1>2. /\ 1 \in DOMAIN ready_events /\ e.type = "Event" /\ p \in Sources
      /\ e.seq = dispatched[p] + 1 /\ e.seq <= posted[p]
  BY <1>1, HeadIsNext
<1>3. /\ hand' = e
      /\ \A i \in DOMAIN ready_events :
           i \in Nat /\ (i = 1 \/ i - 1 \in DOMAIN ready_events')
      /\ \A i \in DOMAIN ready_events' :
           /\ i \in Nat /\ i >= 1 /\ i + 1 \in DOMAIN ready_events
           /\ ready_events'[i] = ready_events[i + 1]
  <2> DEFINE s == ready_events
             q == ready_events'
  <2>1. s \in Seq(Events) /\ q = Tail(s) /\ s # << >> /\ hand' = Head(s)
    BY <1>1, QueueFacts
  <2> HIDE DEF s, q
  <2>2. /\ DOMAIN s = 1 .. Len(s) /\ Len(s) \in Nat /\ Len(s) >= 1
        /\ q \in Seq(Events) /\ Len(q) = Len(s) - 1 /\ DOMAIN q = 1 .. Len(s) - 1
        /\ \A i \in 1 .. Len(s) - 1 : q[i] = s[i + 1]
        /\ Head(s) = s[1]
    BY <2>1
  <2> QED BY <2>1, <2>2 DEF s, q
<1>4. /\ dispatched'[p] = dispatched[p] + 1
      /\ \A r \in Sources : r # p => dispatched'[r] = dispatched[r]
      /\ \A r \in Sources : dispatched[r] \in Nat /\ posted[r] \in Nat
  BY <1>1, <1>2, <1>3, QueueFacts
<1> HIDE DEF p
<1>5. EventsInOrder'
  BY <1>2, <1>3, <1>4 DEF EventsInOrder, p
<1>6. ASSUME NEW x \in Ops, Due(x), Before(e, x)
      PROVE  x.type = "Event" => dispatched'[x.src] < x.seq /\ x.seq <= posted[x.src]
  <2> SUFFICES ASSUME x.type = "Event"
               PROVE  dispatched'[x.src] < x.seq /\ x.seq <= posted[x.src]
    OBVIOUS
  <2>1. x.src \in Sources /\ x.seq \in Nat /\ dispatched[x.src] < x.seq /\ x.seq <= posted[x.src]
    BY <1>6, EventFacts DEF Due
  <2>2. CASE x.src = p
    <3>1. e.seq < x.seq
      BY <2>2, <1>2, <1>6 DEF Before, p
    <3> QED BY <2>1, <2>2, <3>1, <1>2, <1>4
  <2>3. CASE x.src # p
    BY <2>1, <2>3, <1>4
  <2> QED BY <2>2, <2>3
<1>7. EventsDue'
  <2>1. \A r \in Sources : dispatched'[r] <= posted'[r]
    BY <1>1, <1>2, <1>4 DEF FlowInv, EventsDue
  <2>2. ASSUME NEW i \in DOMAIN ready_events' PROVE Due(ready_events[i])'
    <3> DEFINE x == ready_events[i + 1]
    <3>a. i + 1 \in DOMAIN ready_events /\ 1 < i + 1 /\ ready_events'[i] = x
      BY <1>3
    <3>b. x \in Ops /\ Due(x)
      BY <3>a, QueueFacts DEF FlowInv, EventsDue
    <3>c. Before(e, x)
      BY <3>a, <1>2 DEF FlowInv, QueueOrdered
    <3>1. ready_events'[i] = x /\ x \in Ops /\ Due(x) /\ Before(e, x)
      BY <3>a, <3>b, <3>c
    <3> HIDE DEF x
    <3> QED BY <3>1, <1>1, <1>6 DEF Due
  <2>3. ASSUME NEW t \in DOMAIN Pool PROVE Due(Pool[t])'
    <3>1. Pool[t] \in Ops /\ Due(Pool[t]) /\ Before(e, Pool[t])
      BY <1>2, PoolFacts DEF FlowInv, EventsDue, PoolOrdered
    <3> QED BY <3>1, <1>1, <1>6, <1>q DEF Due
  <2>4. ASSUME NEW m \in Runtimes, NEW i \in DOMAIN mailbox[m] PROVE Due(mailbox[m][i])'
    <3>1. mailbox[m][i] \in Ops /\ Due(mailbox[m][i]) /\ Before(e, mailbox[m][i])
      BY <1>2, PoolFacts DEF FlowInv, EventsDue, MailOrdered
    <3> QED BY <3>1, <1>1, <1>6 DEF Due
  <2> QED BY <2>1, <2>2, <2>3, <2>4, <1>1, <1>q DEF EventsDue
<1>8. QueueOrdered'
  <2> SUFFICES ASSUME NEW i \in DOMAIN ready_events', NEW j \in DOMAIN ready_events', i < j
               PROVE  Before(ready_events'[i], ready_events'[j])
    BY DEF QueueOrdered
  <2>1. i + 1 < j + 1
    BY <1>3
  <2> QED BY <2>1, <1>3 DEF FlowInv, QueueOrdered
<1>9. PoolOrdered'
  BY <1>3, <1>q DEF FlowInv, PoolOrdered
<1>10. MailOrdered'
  BY <1>1, <1>3, <1>q DEF FlowInv, MailOrdered
<1>11. Senders'
  BY <1>1 DEF FlowInv, Senders, Travels
<1>12. NoEventLost'
  <2> SUFFICES ASSUME NEW q \in Sources, NEW k \in 1 .. posted[q], k > dispatched'[q]
               PROVE  OnTheWay(Event(q, k))'
    BY <1>1, <1>q, OnTheWayNext DEF NoEventLost
  <2>1. k > dispatched[q]
    BY <1>2, <1>4
  <2>2. OnTheWay(Event(q, k))
    BY <2>1, OnTheWayNow DEF FlowInv, NoEventLost
  <2>3. e # Event(q, k)
    <3>1. Event(q, k).src = q /\ Event(q, k).seq = k
      BY EventFacts
    <3> QED BY <3>1, <1>2, <1>4 DEF p
  <2>4. CASE InMailbox(Event(q, k))
    BY <2>4, <1>1 DEF OnTheWay, InMailbox
  <2>5. CASE \E t \in DOMAIN Pool : Pool[t] = Event(q, k)
    BY <2>5, <1>q DEF OnTheWay
  <2>6. CASE \E i \in DOMAIN ready_events : ready_events[i] = Event(q, k)
    <3>1. PICK i \in DOMAIN ready_events : ready_events[i] = Event(q, k)
      BY <2>6
    <3>2. i # 1
      BY <2>3, <3>1
    <3>3. i - 1 \in DOMAIN ready_events' /\ ready_events'[i - 1] = Event(q, k)
      BY <3>1, <3>2, <1>3
    <3> QED BY <3>3 DEF OnTheWay
  <2> QED BY <2>2, <2>4, <2>5, <2>6 DEF OnTheWay
<1> QED BY <1>5, <1>7, <1>8, <1>9, <1>10, <1>11, <1>12 DEF FlowInv

-----------------------------------------------------------------------------
LEMMA InitFlow == Init => FlowInv /\ EventsInOrder
<1> SUFFICES ASSUME Init PROVE FlowInv /\ EventsInOrder
  OBVIOUS
<1>1. DOMAIN Pool = {} /\ DOMAIN ready_events = {}
  BY EmptyProps DEF Init, Pool
<1>2. \A m \in Runtimes : DOMAIN mailbox[m] = {}
  BY DEF Init
<1>3. \A p \in Sources : posted[p] = 0 /\ dispatched[p] = 0
  BY DEF Init
<1>4. NoEventLost
  BY <1>3 DEF NoEventLost
<1>5. Senders
  BY <1>2, <1>3 DEF Senders, Sources
<1>6. EventsDue /\ QueueOrdered /\ PoolOrdered /\ MailOrdered
  BY <1>1, <1>2, <1>3 DEF EventsDue, QueueOrdered, PoolOrdered, MailOrdered
<1> QED BY <1>4, <1>5, <1>6 DEF FlowInv, EventsInOrder, Init

\* Only dispatch calls on_event.
LEMMA OnlyDispatchCalls ==
  ASSUME [Next]_vars, ~ dispatch, pc' = "on_event"
  PROVE  pc = "on_event" /\ UNCHANGED <<hand, dispatched>>
<1>1. CASE QuietStep
  BY <1>1 DEF QuietStep, set_transition_arbiter, advance, commit, all_committed, all_drained,
              apply, nothing_to_apply, transitioned, handled, all_dispatched, check,
              vars, loop, ghosts
<1>2. CASE route \/ drain
  BY <1>2 DEF route, drain
<1>3. ASSUME NEW kind, Stages(kind) PROVE pc = "on_event" /\ UNCHANGED <<hand, dispatched>>
  BY <1>3 DEF Stages, loop
<1>4. ASSUME NEW h, NEW op, Sends(h, op) PROVE pc = "on_event" /\ UNCHANGED <<hand, dispatched>>
  BY <1>4 DEF Sends, loop
<1>5. ASSUME NEW h, StatusStep(h) PROVE pc = "on_event" /\ UNCHANGED <<hand, dispatched>>
  BY <1>5 DEF StatusStep, task_returns, task_aborted, SetStatus, loop, ghosts
<1>6. ASSUME NEW op, RequestStep(op) PROVE pc = "on_event" /\ UNCHANGED <<hand, dispatched>>
  BY <1>3, <1>6 DEF RequestStep, request_transition, init, replied_transition
<1>7. \A p : post(p) => Stages("Event")
  BY DEF post
<1>8. \A h, k : start_task(h, k) => Stages("Start")
  BY DEF start_task
<1>9. \A h : stop_task(h) => Stages("Stop")
  BY DEF stop_task
<1>10. stage_other => Stages("Other")
  BY DEF stage_other
<1>11. \A h : send_post(h) => Sends(h, Event(h, posted[h] + 1))
  BY DEF send_post
<1>12. \A h, s, p : send_request_transition(h, s, p) => Sends(h, RequestTransitionOp(s, p))
  BY DEF send_request_transition
<1>13. \A h, g : /\ send_start_task(h, g) => Sends(h, StartTaskOp(g))
                 /\ send_stop_task(h, g) => \E op : Sends(h, op)
  BY DEF send_start_task, send_stop_task
<1> QED BY <1>1, <1>2, <1>3, <1>4, <1>5, <1>6, <1>7, <1>8, <1>9, <1>10, <1>11, <1>12, <1>13,
           NextSplits

LEMMA StepKeepsFlow ==
  ASSUME TypeOK, TypeOK', PoolApart, PoolApart', TaskInv, FlowInv, EventsInOrder, [Next]_vars
  PROVE  FlowInv' /\ EventsInOrder'
<1>0. \A h \in Handles : KindKept(h)
  BY KindsKept
<1>a. ~ dispatch => EventsInOrder'
  BY OnlyDispatchCalls DEF EventsInOrder
<1>1. ASSUME QuietStep PROVE FlowInv'
  BY <1>0, <1>1, QuietFacts, FlowQuiet DEF tasks
<1>2. CASE dispatch
  BY <1>2, FlowDispatch
<1>3. ASSUME route PROVE FlowInv'
  BY <1>0, <1>3, FlowRoute
<1>4. ASSUME drain PROVE FlowInv'
  BY <1>4, FlowDrain
<1>5. ASSUME stage_other PROVE FlowInv'
  <2>1. Staged(OtherOp) /\ UNCHANGED <<mailbox, ready_events, posted, dispatched>>
    BY <1>5, DirectStep DEF stage_other, queues
  <2> QED BY <1>0, <2>1, TaskOpFacts, FlowStaged
<1>6. ASSUME NEW p \in Sources, post(p) PROVE FlowInv'
  BY <1>6, FlowPost
<1>7. ASSUME NEW op \in Requests, RequestStep(op) PROVE FlowInv'
  <2>1. Staged(op) /\ op.type = "Request" /\ UNCHANGED <<mailbox, ready_events, posted, dispatched>>
    BY <1>7, RequestFacts DEF queues
  <2> QED BY <1>0, <2>1, FlowStaged
<1>8. ASSUME NEW h \in Handles, NEW k \in Kinds, start_task(h, k) PROVE FlowInv'
  <2>1. Staged(StartTaskOp(h)) /\ UNCHANGED <<mailbox, ready_events, posted, dispatched>>
    BY <1>8, DirectStep DEF start_task, queues
  <2> QED BY <1>0, <2>1, TaskOpFacts, FlowStaged
<1>9. ASSUME NEW h \in Handles, stop_task(h) PROVE FlowInv'
  <2> DEFINE op == StopTaskOp(h, ~ InMailbox(StartTaskOp(h)))
  <2>1. Staged(op) /\ UNCHANGED <<mailbox, ready_events, posted, dispatched>>
    BY <1>9, DirectStep DEF stop_task, queues
  <2>2. op.type = "Stop"
    BY DEF StopTaskOp
  <2> HIDE DEF op
  <2> QED BY <1>0, <2>1, <2>2, FlowStaged
<1>10. ASSUME NEW h \in Handles, send_post(h) PROVE FlowInv'
  BY <1>10, FlowSendPost
<1>11. ASSUME NEW h \in Handles, NEW op, op.type # "Event", Sends(h, op), posted' = posted
       PROVE  FlowInv'
  <2>1. /\ Sent(Runtime(task[h].kind), op) /\ Pool' = Pool
        /\ UNCHANGED <<ready_events, posted, dispatched>>
    BY <1>11, SendStep DEF Sends, queues
  <2>2. Runtime(task[h].kind) \in Runtimes
    BY DEF Runtime, Runtimes
  <2> QED BY <1>0, <1>11, <2>1, <2>2, FlowSent
<1>12. ASSUME NEW h \in Handles, NEW s \in Targets, NEW p \in Priorities,
              send_request_transition(h, s, p)
       PROVE  FlowInv'
  BY <1>11, <1>12, TaskOpFacts DEF send_request_transition
<1>13. ASSUME NEW h \in Handles, NEW g \in Handles, send_start_task(h, g) \/ send_stop_task(h, g)
       PROVE  FlowInv'
  <2>1. \A b : StopTaskOp(g, b).type = "Stop"
    BY DEF StopTaskOp
  <2> QED BY <1>11, <1>13, <2>1, TaskOpFacts DEF send_start_task, send_stop_task
<1>14. ASSUME NEW h \in Handles, StatusStep(h) PROVE FlowInv'
  <2>1. Pool' = Pool /\ UNCHANGED <<mailbox, ready_events, posted, dispatched>>
    BY <1>14 DEF StatusStep, task_returns, task_aborted, SetStatus, loop, reconciler, queues,
                 ghosts, Pool
  <2> QED BY <1>0, <2>1, FlowQuiet
<1>15. FlowInv'
  BY <1>1, <1>2, <1>3, <1>4, <1>5, <1>6, <1>7, <1>8, <1>9, <1>10, <1>12, <1>13, <1>14, NextSplits
<1> QED BY <1>2, <1>15, <1>a

LEMMA FlowInvariant == Spec => [](FlowInv /\ EventsInOrder)
<1>1. (TypeOK /\ TypeOK' /\ (PoolApart /\ TaskInv) /\ (PoolApart /\ TaskInv)'
       /\ (FlowInv /\ EventsInOrder) /\ [Next]_vars) => (FlowInv /\ EventsInOrder)'
  BY StepKeepsFlow
<1> QED BY <1>1, InitFlow, TypeCorrect, TasksInvariant, PTL DEF Spec

\* The events of a source are dispatched one by one in the order of posting,
\* for any number of sources and whichever mailbox they go through: nothing
\* the loop, the arbiter or a stop does lets one overtake another.
THEOREM EventsAlwaysInOrder == Spec => []EventsInOrder
BY FlowInvariant, PTL

\* An event posted and not dispatched is in a mailbox, in the reconciler or in
\* the queue, at every step of advance and of the tasks.
THEOREM NoEventEverLost == Spec => []NoEventLost
<1>1. FlowInv => NoEventLost
  BY DEF FlowInv
<1> QED BY <1>1, FlowInvariant, PTL

-----------------------------------------------------------------------------
(* Requests: from the pool through the slot to the runner.                 *)

\* The requests of the pool, the slot and the ghost that remembers what was
\* requested are left alone.
RequestsStay ==
  /\ RequestsIn(Pool') = RequestsIn(Pool)
  /\ \A t \in RequestsIn(Pool) : Pool'[t] = Pool[t]
  /\ UNCHANGED <<rivals, slot>>

\* A request came in and met the one in the pool, if there was one: one of the
\* two is left.
Arbitrated(op) ==
  /\ rivals' = Append(rivals, op)
  /\ RequestsIn(Pool') # {}
  /\ \/ /\ RequestsIn(Pool) = {}
        /\ \A t \in RequestsIn(Pool') : Pool'[t] = op
     \/ \E e \in RequestsIn(Pool) :
          /\ <<op, Pool[e]>> \in arbiter
          /\ \A t \in RequestsIn(Pool') : Pool'[t] = op
     \/ \E e \in RequestsIn(Pool) :
          /\ <<op, Pool[e]>> \notin arbiter
          /\ Pool' = Pool

\* The request of the pool went into the slot.
Taken(t) ==
  /\ pc = "route" /\ t \in RequestsIn(Pool)
  /\ RequestsIn(Pool') = {}
  /\ slot' = Pool[t] /\ rivals' = rivals

\* The request of the slot went to the runner.
Applied ==
  /\ pc = "apply" /\ slot # NoOp /\ slot' = NoOp /\ rivals' = << >>
  /\ RequestsIn(Pool') = RequestsIn(Pool)

LEMMA RuleOnOthers ==
  ASSUME NEW n \in Nat, NEW pool, IsPool(pool, n), NEW op, op.type # "Request"
  PROVE  LET q == RequestTransitionRule(pool, n, op) IN
         /\ RequestsIn(q) = RequestsIn(pool)
         /\ \A t \in RequestsIn(pool) : q[t] = pool[t]
<1>1. n \notin DOMAIN pool
  BY DEF IsPool
<1>2. RequestTransitionRule(pool, n, op) = Insert(pool, n, op)
  BY DEF RequestTransitionRule
<1>3. RequestsIn(Insert(pool, n, op)) = RequestsIn(pool)
  BY <1>1, RequestsAfterInsert
<1>4. \A t \in RequestsIn(pool) : Insert(pool, n, op)[t] = pool[t]
  BY <1>1 DEF Insert, RequestsIn
<1> QED BY <1>2, <1>3, <1>4

LEMMA RuleOnRequests ==
  ASSUME NEW n \in Nat, NEW pool, IsPool(pool, n), OneRequest(pool), NEW op, op.type = "Request"
  PROVE  LET q == RequestTransitionRule(pool, n, op) IN
         /\ RequestsIn(q) # {}
         /\ \/ /\ RequestsIn(pool) = {}
               /\ \A t \in RequestsIn(q) : q[t] = op
            \/ \E e \in RequestsIn(pool) :
                 /\ <<op, pool[e]>> \in arbiter
                 /\ \A t \in RequestsIn(q) : q[t] = op
            \/ \E e \in RequestsIn(pool) :
                 /\ <<op, pool[e]>> \notin arbiter
                 /\ q = pool
<1>1. n \notin DOMAIN pool
  BY DEF IsPool
<1>2. CASE RequestsIn(pool) = {}
  <2>1. RequestTransitionRule(pool, n, op) = Insert(pool, n, op)
    BY <1>2 DEF RequestTransitionRule
  <2>2. RequestsIn(Insert(pool, n, op)) = {n}
    BY <1>1, <1>2, RequestsAfterInsert
  <2>3. Insert(pool, n, op)[n] = op
    BY DEF Insert
  <2> QED BY <1>2, <2>1, <2>2, <2>3
<1>3. CASE RequestsIn(pool) # {}
  <2> DEFINE e == Min(RequestsIn(pool))
  <2>1. e \in RequestsIn(pool)
    <3>1. RequestsIn(pool) \in SUBSET Nat
      BY DEF RequestsIn, IsPool
    <3> QED BY <3>1, <1>3, MinIsLeast
  <2>2. RequestsIn(pool) = {e}
    BY <2>1 DEF OneRequest
  <2>3. RequestTransitionRule(pool, n, op) = IF <<op, pool[e]>> \in arbiter
                                             THEN Insert(Remove(pool, e), n, op)
                                             ELSE pool
    BY <1>3 DEF RequestTransitionRule
  <2> HIDE DEF e
  <2>4. RequestsIn(Insert(Remove(pool, e), n, op)) = {n}
    <3>1. RequestsIn(Remove(pool, e)) = {}
      BY <2>2, RequestsAfterRemove
    <3>2. n \notin DOMAIN Remove(pool, e)
      BY <1>1, RemoveProps
    <3> QED BY <3>1, <3>2, RequestsAfterInsert
  <2>5. Insert(Remove(pool, e), n, op)[n] = op
    BY DEF Insert
  <2> QED BY <2>1, <2>2, <2>3, <2>4, <2>5
<1> QED BY <1>2, <1>3

LEMMA StageRequests ==
  ASSUME TypeOK, AtMostOneRequest, NEW op, stage_boxed(op), pc # "route", pc' # "route", slot' = slot
  PROVE  IF op.type = "Request" THEN Arbitrated(op) ELSE RequestsStay
<1>1. /\ next_ticket \in Nat /\ IsPool(pending, next_ticket) /\ OneRequest(pending)
      /\ pending' = RequestTransitionRule(pending, next_ticket, op)
      /\ rivals' = IF op.type = "Request" THEN Append(rivals, op) ELSE rivals
  BY DEF TypeOK, ReconcilerOK, stage_boxed, AtMostOneRequest, OneRequest
<1>2. Pool = pending /\ Pool' = pending'
  BY DEF Pool
<1>3. CASE op.type # "Request"
  BY <1>1, <1>2, <1>3, RuleOnOthers DEF RequestsStay
<1>4. CASE op.type = "Request"
  BY <1>1, <1>2, <1>4, RuleOnRequests DEF Arbitrated
<1> QED BY <1>3, <1>4

LEMMA PoolOneRequest ==
  ASSUME AtMostOneRequest
  PROVE  OneRequest(Pool)
BY DEF AtMostOneRequest, OneRequest, Pool

LEMMA RouteRequests ==
  ASSUME TypeOK, PoolApart, AtMostOneRequest, route
  PROVE  RequestsStay \/ \E t \in RequestsIn(Pool) : Taken(t)
<1>1. PICK t \in DOMAIN Pool :
        /\ Routed(t)
        /\ \/ EventOpConsumer(Pool[t]) \/ RequestTransitionConsumer(Pool[t])
           \/ SpawnTask(Pool[t]) \/ AbortTask(Pool[t]) \/ Unhandled(Pool[t])
  BY RouteStep
<1>2. rivals' = rivals /\ pc = "route"
  BY DEF route
<1>3. RequestsIn(Pool') = RequestsIn(Pool) \ {t}
  BY <1>1 DEF Routed, RequestsIn
<1>4. CASE Pool[t].type = "Request"
  <2>1. t \in RequestsIn(Pool) /\ RequestsIn(Pool') = {}
    BY <1>3, <1>4, PoolOneRequest DEF RequestsIn, OneRequest
  <2>2. slot' = Pool[t]
    BY <1>1, <1>4 DEF EventOpConsumer, RequestTransitionConsumer, SpawnTask, AbortTask, Unhandled
  <2> QED BY <1>2, <2>1, <2>2 DEF Taken
<1>5. CASE Pool[t].type # "Request"
  <2>1. RequestsIn(Pool') = RequestsIn(Pool)
    BY <1>3, <1>5 DEF RequestsIn
  <2>2. \A u \in RequestsIn(Pool) : Pool'[u] = Pool[u]
    BY <1>1, <1>5 DEF Routed, RequestsIn
  <2>3. slot' = slot
    BY <1>1, <1>5 DEF EventOpConsumer, RequestTransitionConsumer, SpawnTask, AbortTask, Unhandled,
                      queues
  <2> QED BY <1>2, <2>1, <2>2, <2>3 DEF RequestsStay
<1> QED BY <1>4, <1>5

\* A request is staged by user code, or drained from a mailbox.
RequestCame(op) ==
  /\ Arbitrated(op) /\ slot' = slot
  /\ InUserCode \/ InMailbox(op)

LEMMA RequestOpFacts ==
  /\ \A s \in Targets, p \in Priorities : RequestTransitionOp(s, p) \in Requests
  /\ \A r \in Requests : r.type = "Request" /\ r # NoOp /\ r.priority \in Nat
  /\ \A op \in Ops : op.type = "Request" => op \in Requests
<1>1. \A s \in Targets, p \in Priorities : RequestTransitionOp(s, p) \in Requests
  BY DEF RequestTransitionOp, Requests
<1>2. \A r \in Requests : r.type = "Request" /\ r.priority \in Nat
  BY MachineAssumption DEF Requests
<1>3. NoOp.type # "Request"
  BY DEF NoOp
<1> QED BY <1>1, <1>2, <1>3, OpFacts

\* What each step of the machine does to requests.
LEMMA RequestSteps ==
  ASSUME TypeOK, PoolApart, AtMostOneRequest, [Next]_vars
  PROVE  \/ RequestsStay \/ Applied
         \/ \E t \in RequestsIn(Pool) : Taken(t)
         \/ \E op \in Requests : RequestCame(op)
<1>0. Pool' = Pool /\ UNCHANGED <<rivals, slot>> => RequestsStay
  BY DEF RequestsStay
<1>1. CASE QuietStep
  <2>1. Pool' = Pool
    BY <1>1, QuietFacts
  <2>2. CASE apply
    BY <2>1, <2>2 DEF apply, Applied
  <2>3. CASE ~ apply
    <3>1. UNCHANGED <<rivals, slot>>
      BY <1>1, <2>3 DEF QuietStep, set_transition_arbiter, advance, commit, all_committed,
                        all_drained, nothing_to_apply, transitioned, handled, all_dispatched,
                        check, vars, queues, ghosts
    <3> QED BY <1>0, <2>1, <3>1
  <2> QED BY <2>2, <2>3
<1>2. CASE dispatch
  <2>1. Pool' = Pool /\ UNCHANGED <<rivals, slot>>
    BY <1>2, QuietFacts DEF dispatch
  <2> QED BY <1>0, <2>1
<1>3. CASE route
  BY <1>3, RouteRequests
<1>4. ASSUME NEW kind, NEW op, op.type # "Request", Stages(kind), stage_boxed(op)
      PROVE  RequestsStay
  <2>1. pc # "route" /\ pc' # "route" /\ slot' = slot
    BY <1>4 DEF Stages, InUserCode, loop, queues
  <2> QED BY <1>4, <2>1, StageRequests
<1>5. CASE drain
  <2> DEFINE m == IF mailbox["local"] # << >> THEN "local" ELSE "send"
             op == mailbox[m][1]
  <2>1. /\ m \in Runtimes /\ mailbox[m] # << >>
        /\ stage_boxed(Head(mailbox[m]))
        /\ pc # "route" /\ pc' # "route" /\ slot' = slot
    BY <1>5 DEF drain, Runtimes, queues
  <2> HIDE DEF m
  <2>2. mailbox[m] \in Seq(Ops)
    BY <2>1, PoolFacts
  <2>3. Head(mailbox[m]) = op /\ 1 \in DOMAIN mailbox[m]
    BY <2>1, <2>2
  <2>4. InMailbox(op)
    BY <2>1, <2>3 DEF InMailbox
  <2>5. op \in Ops
    BY <2>1, <2>3, PoolFacts
  <2>6. IF op.type = "Request" THEN Arbitrated(op) ELSE RequestsStay
    BY <2>1, <2>3, StageRequests
  <2> HIDE DEF op
  <2> QED BY <2>1, <2>4, <2>5, <2>6, RequestOpFacts DEF RequestCame
<1>6. ASSUME NEW op \in Requests, RequestStep(op) PROVE RequestCame(op)
  <2>1. PICK s \in Targets, p \in Priorities :
          /\ op = RequestTransitionOp(s, p)
          /\ \/ request_transition(s, p)
             \/ p = NORMAL /\ (init(s) \/ replied_transition(s))
    BY <1>6 DEF RequestStep
  <2>2. CASE request_transition(s, p)
    <3>1. stage_boxed(op) /\ pc # "route" /\ pc' # "route" /\ slot' = slot /\ InUserCode
      BY <2>1, <2>2 DEF request_transition, Stages, InUserCode, loop, queues
    <3> QED BY <3>1, StageRequests, RequestOpFacts DEF RequestCame
  <2>3. CASE p = NORMAL /\ (init(s) \/ replied_transition(s))
    <3>1. stage_boxed(op) /\ pc # "route" /\ pc' # "route" /\ slot' = slot /\ InUserCode
      BY <2>1, <2>3 DEF init, replied_transition, InUserCode, queues
    <3> QED BY <3>1, StageRequests, RequestOpFacts DEF RequestCame
  <2> QED BY <2>1, <2>2, <2>3
<1>7. ASSUME NEW p \in Sources, post(p) PROVE RequestsStay
  BY <1>4, <1>7, TaskOpFacts DEF post
<1>8. ASSUME NEW h \in Handles, NEW k \in Kinds, start_task(h, k) PROVE RequestsStay
  BY <1>4, <1>8, TaskOpFacts DEF start_task
<1>9. ASSUME NEW h \in Handles, stop_task(h) PROVE RequestsStay
  <2> DEFINE op == StopTaskOp(h, ~ InMailbox(StartTaskOp(h)))
  <2>1. Stages("Stop") /\ stage_boxed(op) /\ op.type = "Stop"
    BY <1>9 DEF stop_task, StopTaskOp
  <2> HIDE DEF op
  <2> QED BY <1>4, <2>1
<1>10. CASE stage_other
  BY <1>4, <1>10, TaskOpFacts DEF stage_other
<1>11. ASSUME NEW h \in Handles, NEW op, Sends(h, op) PROVE RequestsStay
  <2>1. Pool' = Pool /\ UNCHANGED <<rivals, slot>>
    BY <1>11, SendStep DEF Sends, queues
  <2> QED BY <1>0, <2>1
<1>12. ASSUME NEW h \in Handles, StatusStep(h) PROVE RequestsStay
  <2>1. Pool' = Pool /\ UNCHANGED <<rivals, slot>>
    BY <1>12 DEF StatusStep, task_returns, task_aborted, SetStatus, loop, reconciler, queues,
                 ghosts, Pool
  <2> QED BY <1>0, <2>1
<1>13. ASSUME NEW h \in Handles, send_post(h) PROVE RequestsStay
  BY <1>11, <1>13 DEF send_post
<1>14. ASSUME NEW h \in Handles, NEW s \in Targets, NEW p \in Priorities,
              send_request_transition(h, s, p)
       PROVE  RequestsStay
  BY <1>11, <1>14 DEF send_request_transition
<1>15. ASSUME NEW h \in Handles, NEW g \in Handles, send_start_task(h, g) \/ send_stop_task(h, g)
       PROVE  RequestsStay
  BY <1>11, <1>15 DEF send_start_task, send_stop_task
<1> QED BY <1>1, <1>2, <1>3, <1>5, <1>6, <1>7, <1>8, <1>9, <1>10, <1>12, <1>13, <1>14, <1>15,
           NextSplits

\* A request not applied yet, or the one that won over it, is in the pool or in
\* the slot.
RivalsSeen == rivals # << >> => slot # NoOp \/ RequestsIn(Pool) # {}

LEMMA StepKeepsRivals ==
  ASSUME TypeOK, PoolApart, AtMostOneRequest, RivalsSeen, [Next]_vars
  PROVE  RivalsSeen'
<1>1. CASE RequestsStay
  BY <1>1 DEF RequestsStay, RivalsSeen
<1>2. CASE Applied
  BY <1>2 DEF Applied, RivalsSeen
<1>3. ASSUME NEW t \in RequestsIn(Pool), Taken(t) PROVE RivalsSeen'
  <2>1. Pool[t] \in Requests
    BY <1>3, PoolFacts, RequestOpFacts DEF RequestsIn
  <2> QED BY <1>3, <2>1, RequestOpFacts DEF Taken, RivalsSeen
<1>4. ASSUME NEW op \in Requests, RequestCame(op) PROVE RivalsSeen'
  BY <1>4 DEF RequestCame, Arbitrated, RivalsSeen
<1> QED BY <1>1, <1>2, <1>3, <1>4, RequestSteps

LEMMA RivalsInvariant == Spec => []RivalsSeen
<1>1. Init => RivalsSeen
  BY DEF Init, RivalsSeen
<1>2. TypeOK /\ (PoolApart /\ TaskInv) /\ AtMostOneRequest /\ RivalsSeen /\ [Next]_vars => RivalsSeen'
  BY StepKeepsRivals
<1> QED BY <1>1, <1>2, TypeCorrect, TasksInvariant, OneRequestAlways, PTL DEF Spec

\* Only check ends advance, and only when nothing is left.
LEMMA OnlyCheckReturns ==
  ASSUME [Next]_vars, pc = "check", pc' = "idle"
  PROVE  check
<1>1. CASE QuietStep
  BY <1>1 DEF QuietStep, set_transition_arbiter, advance, commit, all_committed, all_drained,
              apply, nothing_to_apply, transitioned, handled, all_dispatched, vars, loop
<1>2. CASE dispatch \/ route \/ drain
  BY <1>2 DEF dispatch, route, drain
<1>3. \A kind : ~ Stages(kind)
  BY DEF Stages, InUserCode
<1>4. \A h, op : ~ Sends(h, op)
  BY DEF Sends, loop
<1>5. \A h : ~ StatusStep(h)
  BY DEF StatusStep, task_returns, task_aborted, SetStatus, loop
<1>6. \A op : ~ RequestStep(op)
  BY <1>3 DEF RequestStep, request_transition, init, replied_transition
<1>7. \A p, h, k : ~ post(p) /\ ~ start_task(h, k) /\ ~ stop_task(h) /\ ~ stage_other
  BY <1>3 DEF post, start_task, stop_task, stage_other
<1>8. \A h, g, s, p : /\ ~ send_post(h) /\ ~ send_request_transition(h, s, p)
                      /\ ~ send_start_task(h, g) /\ ~ send_stop_task(h, g)
  BY <1>4 DEF send_post, send_request_transition, send_start_task, send_stop_task
<1> QED BY <1>1, <1>2, <1>5, <1>6, <1>7, <1>8, NextSplits

LEMMA CheckSettles ==
  ASSUME TypeOK, PoolApart, FlowInv, RivalsSeen, [Next]_vars, pc = "check", pc' = "idle"
  PROVE  /\ dispatched[main] = posted[main]
         /\ DOMAIN pending = {} /\ DOMAIN batch = {}
         /\ ready_events = << >> /\ slot = NoOp /\ rivals = << >>
<1>1. DOMAIN pending = {} /\ ready_events = << >> /\ slot = NoOp
  BY OnlyCheckReturns DEF check, Stable
<1>2. Pool = pending /\ DOMAIN batch = {}
  BY DEF Pool, TypeOK, ReconcilerOK
<1>3. rivals = << >>
  BY <1>1, <1>2 DEF RivalsSeen, RequestsIn
<1>4. main \in Sources /\ main \notin Handles
  BY DEF Sources, Handles, main
<1>5. /\ dispatched[main] \in Nat /\ posted[main] \in Nat
      /\ dispatched[main] <= posted[main]
  BY <1>4, QueueFacts DEF FlowInv, EventsDue
<1>6. ASSUME dispatched[main] < posted[main] PROVE FALSE
  <2> DEFINE n == posted[main]
             e == Event(main, n)
  <2>1. n \in 1 .. posted[main] /\ n > dispatched[main]
    BY <1>5, <1>6
  <2>2. InFlight(main, n)
    BY <1>4, <2>1 DEF FlowInv, NoEventLost
  <2>3. OnTheWay(e)
    BY <2>2, OnTheWayNow
  <2>4. e.type = "Event" /\ e.src = main
    BY EventFacts
  <2> HIDE DEF e
  <2>5. ~ InMailbox(e)
    BY <1>4, <2>4 DEF InMailbox, FlowInv, Senders, Travels
  <2> QED BY <1>1, <1>2, <2>3, <2>5 DEF OnTheWay
<1> QED BY <1>1, <1>2, <1>3, <1>5, <1>6

\* When advance returns, every event posted on its thread has been dispatched,
\* every request applied or beaten, and no queue holds anything: whatever the
\* callbacks staged on the way and whatever other threads sent meanwhile.
THEOREM AdvanceAlwaysSettles == Spec => AdvanceSettles
<1>1. TypeOK /\ (PoolApart /\ TaskInv) /\ (FlowInv /\ EventsInOrder) /\ RivalsSeen /\ [Next]_vars
        => [pc = "check" /\ pc' = "idle" =>
              /\ dispatched[main] = posted[main]
              /\ DOMAIN pending = {} /\ DOMAIN batch = {}
              /\ ready_events = << >> /\ slot = NoOp /\ rivals = << >>]_vars
  BY CheckSettles
<1> QED BY <1>1, TypeCorrect, TasksInvariant, FlowInvariant, RivalsInvariant, PTL
        DEF Spec, AdvanceSettles

-----------------------------------------------------------------------------
(* The best request wins, as long as none takes the way through a mailbox  *)
(* and no other arbiter is installed.                                      *)

NoMailedRequest ==
  \A m \in Runtimes : \A i \in DOMAIN mailbox[m] : mailbox[m][i].type # "Request"

\* r has the greatest priority of all that were requested since the last
\* transition, and is the last of those that have it.
Best(r) ==
  \E i \in 1 .. Len(rivals) :
    /\ rivals[i] = r
    /\ \A j \in 1 .. Len(rivals) : /\ rivals[j].priority <= r.priority
                                   /\ j > i => rivals[j].priority < r.priority

\* Where advance is while the slot is taken: no user code runs there.
Slotted == {"route", "commit", "drain", "apply"}

\* The slot is filled only while nothing can compete with it.
BestInv ==
  /\ arbiter = PriorityArbiter
  /\ NoMailedRequest
  /\ slot # NoOp => pc \in Slotted /\ RequestsIn(Pool) = {} /\ Best(slot)
  /\ slot = NoOp => \A t \in RequestsIn(Pool) : Best(Pool[t])

DefaultOnly == "Request" \notin Mailed /\ Arbiters = {PriorityArbiter}

LEMMA FirstIsBest ==
  ASSUME NEW op \in Requests, rivals = << >>, rivals' = Append(rivals, op)
  PROVE  Best(op)'
<1>1. rivals' = <<op>> /\ Len(rivals') = 1 /\ rivals'[1] = op
  OBVIOUS
<1>2. op.priority \in Nat
  BY RequestOpFacts
<1> QED BY <1>1, <1>2 DEF Best

LEMMA AppendFacts ==
  ASSUME NEW s \in Seq(Requests), NEW op
  PROVE  /\ Len(s) \in Nat /\ Len(Append(s, op)) = Len(s) + 1
         /\ \A i \in 1 .. Len(s) : Append(s, op)[i] = s[i] /\ s[i] \in Requests
         /\ Append(s, op)[Len(s) + 1] = op
OBVIOUS

LEMMA WinnerIsBest ==
  ASSUME TypeOK, NEW op \in Requests, NEW r \in Requests, Best(r), <<op, r>> \in PriorityArbiter,
         rivals' = Append(rivals, op)
  PROVE  Best(op)'
<1> DEFINE s == rivals
           q == rivals'
           n == Len(s)
<1>1. s \in Seq(Requests) /\ q = Append(s, op)
  BY DEF TypeOK, ReconcilerOK
<1>2. op.priority >= r.priority /\ op.priority \in Nat /\ r.priority \in Nat
  BY RequestOpFacts DEF PriorityArbiter
<1>3. \A j \in 1 .. n : s[j].priority <= r.priority
  BY DEF Best
<1> HIDE DEF s, q
<1>4. /\ n \in Nat /\ Len(q) = n + 1 /\ q[n + 1] = op
      /\ \A i \in 1 .. n : q[i] = s[i] /\ s[i] \in Requests
  BY <1>1, AppendFacts
<1> HIDE DEF n
<1>5. ASSUME NEW j \in 1 .. n + 1 PROVE q[j].priority <= op.priority
  <2>1. CASE j = n + 1
    BY <2>1, <1>2, <1>4
  <2>2. CASE j \in 1 .. n
    <3>1. q[j].priority = s[j].priority /\ s[j].priority \in Nat /\ s[j].priority <= r.priority
      BY <2>2, <1>3, <1>4, RequestOpFacts
    <3> QED BY <3>1, <1>2
  <2> QED BY <2>1, <2>2, <1>4
<1>6. n + 1 \in 1 .. n + 1 /\ \A j \in 1 .. n + 1 : ~ (j > n + 1)
  BY <1>4
<1> QED BY <1>4, <1>5, <1>6 DEF Best, q

LEMMA LoserIsNot ==
  ASSUME TypeOK, NEW op \in Requests, NEW r \in Requests, Best(r), <<op, r>> \notin PriorityArbiter,
         rivals' = Append(rivals, op)
  PROVE  Best(r)'
<1> DEFINE s == rivals
           q == rivals'
           n == Len(s)
<1>1. s \in Seq(Requests) /\ q = Append(s, op)
  BY DEF TypeOK, ReconcilerOK
<1>2. op.priority < r.priority /\ op.priority \in Nat /\ r.priority \in Nat
  BY RequestOpFacts DEF PriorityArbiter
<1>3. PICK i \in 1 .. n :
        /\ s[i] = r
        /\ \A j \in 1 .. n : s[j].priority <= r.priority /\ (j > i => s[j].priority < r.priority)
  BY DEF Best
<1> HIDE DEF s, q
<1>4. /\ n \in Nat /\ Len(q) = n + 1 /\ q[n + 1] = op
      /\ \A k \in 1 .. n : q[k] = s[k] /\ s[k] \in Requests
  BY <1>1, AppendFacts
<1> HIDE DEF n
<1>5. ASSUME NEW j \in 1 .. n + 1
      PROVE  q[j].priority <= r.priority /\ (j > i => q[j].priority < r.priority)
  <2>1. CASE j = n + 1
    BY <2>1, <1>2, <1>4
  <2>2. CASE j \in 1 .. n
    BY <2>2, <1>3, <1>4
  <2> QED BY <2>1, <2>2, <1>4
<1>6. i \in 1 .. n + 1 /\ q[i] = r
  BY <1>3, <1>4
<1> QED BY <1>4, <1>5, <1>6 DEF Best, q

\* No step but those of set_transition_arbiter changes the arbiter.
LEMMA ArbiterKept ==
  ASSUME DefaultOnly, arbiter = PriorityArbiter, [Next]_vars
  PROVE  arbiter' = PriorityArbiter
<1>1. CASE QuietStep
  BY <1>1 DEF QuietStep, set_transition_arbiter, advance, commit, all_committed, all_drained,
              apply, nothing_to_apply, transitioned, handled, all_dispatched, check, vars,
              DefaultOnly
<1>2. CASE dispatch \/ route \/ drain
  BY <1>2 DEF dispatch, route, drain
<1>3. ASSUME NEW kind, Stages(kind) PROVE arbiter' = PriorityArbiter
  BY <1>3 DEF Stages
<1>4. ASSUME NEW h, NEW op, Sends(h, op) PROVE arbiter' = PriorityArbiter
  BY <1>4 DEF Sends
<1>5. ASSUME NEW h, StatusStep(h) PROVE arbiter' = PriorityArbiter
  BY <1>5 DEF StatusStep, task_returns, task_aborted, SetStatus
<1>6. ASSUME NEW op, RequestStep(op) PROVE arbiter' = PriorityArbiter
  BY <1>3, <1>6 DEF RequestStep, request_transition, init, replied_transition
<1>7. ASSUME NEW p, NEW h, NEW k, post(p) \/ start_task(h, k) \/ stop_task(h) \/ stage_other
      PROVE  arbiter' = PriorityArbiter
  BY <1>3, <1>7 DEF post, start_task, stop_task, stage_other
<1>8. ASSUME NEW h, NEW g, NEW s, NEW p,
             \/ send_post(h) \/ send_request_transition(h, s, p)
             \/ send_start_task(h, g) \/ send_stop_task(h, g)
      PROVE  arbiter' = PriorityArbiter
  BY <1>4, <1>8 DEF send_post, send_request_transition, send_start_task, send_stop_task
<1> QED BY <1>1, <1>2, <1>5, <1>6, <1>7, <1>8, NextSplits

LEMMA MailboxesKept ==
  ASSUME TypeOK, PoolApart, DefaultOnly, NoMailedRequest, [Next]_vars
  PROVE  NoMailedRequest'
<1>0. mailbox' = mailbox => NoMailedRequest'
  BY DEF NoMailedRequest
<1>1. CASE QuietStep \/ dispatch
  BY <1>0, <1>1, QuietFacts
<1>2. CASE route
  BY <1>0, <1>2, RouteStep
<1>3. CASE drain
  BY <1>3, DrainStep DEF Drained, NoMailedRequest
<1>4. ASSUME NEW kind, Stages(kind) PROVE NoMailedRequest'
  BY <1>0, <1>4 DEF Stages
<1>5. ASSUME NEW h \in Handles, NEW op, Sends(h, op) PROVE NoMailedRequest'
  <2>1. Sent(Runtime(task[h].kind), op) /\ op.type \in Mailed
    BY <1>5, SendStep DEF Sends
  <2>2. op.type # "Request"
    BY <2>1 DEF DefaultOnly
  <2> QED BY <2>1, <2>2, PoolFacts, SMTT(30) DEF Sent, NoMailedRequest
<1>6. ASSUME NEW h, StatusStep(h) PROVE NoMailedRequest'
  BY <1>0, <1>6 DEF StatusStep, task_returns, task_aborted, SetStatus
<1>7. ASSUME NEW op, RequestStep(op) PROVE NoMailedRequest'
  BY <1>0, <1>7, RequestFacts
<1>8. ASSUME NEW p, NEW h, NEW k, post(p) \/ start_task(h, k) \/ stop_task(h) \/ stage_other
      PROVE  NoMailedRequest'
  BY <1>4, <1>8 DEF post, start_task, stop_task, stage_other
<1>9. ASSUME NEW h \in Handles, NEW g, NEW s, NEW p,
             \/ send_post(h) \/ send_request_transition(h, s, p)
             \/ send_start_task(h, g) \/ send_stop_task(h, g)
      PROVE  NoMailedRequest'
  BY <1>5, <1>9 DEF send_post, send_request_transition, send_start_task, send_stop_task
<1> QED BY <1>1, <1>2, <1>3, <1>6, <1>7, <1>8, <1>9, NextSplits

\* advance leaves these places only by way of apply or nothing_to_apply.
LEMMA SlottedSteps ==
  ASSUME [Next]_vars, pc \in Slotted
  PROVE  pc' \in Slotted \/ apply \/ (pc = "apply" /\ slot = NoOp /\ pc' = "events")
<1> USE DEF Slotted
<1>1. CASE QuietStep
  BY <1>1 DEF QuietStep, set_transition_arbiter, advance, commit, all_committed, all_drained,
              nothing_to_apply, transitioned, handled, all_dispatched, check, vars, loop
<1>2. CASE dispatch \/ route \/ drain
  BY <1>2 DEF dispatch, route, drain
<1>3. \A kind : ~ Stages(kind)
  BY DEF Stages, InUserCode
<1>4. ASSUME NEW h, NEW op, Sends(h, op) PROVE pc' \in Slotted
  BY <1>4 DEF Sends, loop
<1>5. ASSUME NEW h, StatusStep(h) PROVE pc' \in Slotted
  BY <1>5 DEF StatusStep, task_returns, task_aborted, SetStatus, loop
<1>6. \A op : ~ RequestStep(op)
  BY <1>3 DEF RequestStep, request_transition, init, replied_transition
<1>7. \A p, h, k : ~ post(p) /\ ~ start_task(h, k) /\ ~ stop_task(h) /\ ~ stage_other
  BY <1>3 DEF post, start_task, stop_task, stage_other
<1>8. ASSUME NEW h, NEW g, NEW s, NEW p,
             \/ send_post(h) \/ send_request_transition(h, s, p)
             \/ send_start_task(h, g) \/ send_stop_task(h, g)
      PROVE  pc' \in Slotted
  BY <1>4, <1>8 DEF send_post, send_request_transition, send_start_task, send_stop_task
<1> QED BY <1>1, <1>2, <1>5, <1>6, <1>7, <1>8, NextSplits

LEMMA StepKeepsBest ==
  ASSUME TypeOK, PoolApart, AtMostOneRequest, RivalsSeen, DefaultOnly, BestInv, [Next]_vars
  PROVE  BestInv'
<1>1. arbiter' = PriorityArbiter /\ NoMailedRequest'
  BY ArbiterKept, MailboxesKept DEF BestInv
<1>2. SUFFICES /\ slot' # NoOp => pc' \in Slotted /\ RequestsIn(Pool') = {} /\ Best(slot)'
               /\ slot' = NoOp => \A t \in RequestsIn(Pool') : Best(Pool[t])'
  BY <1>1 DEF BestInv
<1>3. CASE RequestsStay
  <2>1. rivals' = rivals /\ slot' = slot
    BY <1>3 DEF RequestsStay
  <2>2. \A r : Best(r) => Best(r)'
    BY <2>1 DEF Best
  <2>3. CASE slot # NoOp
    <3>1. pc \in Slotted /\ RequestsIn(Pool) = {} /\ Best(slot)
      BY <2>3 DEF BestInv
    <3>2. pc' \in Slotted
      BY <2>1, <2>3, <3>1, SlottedSteps DEF apply
    <3>3. Best(slot)'
      BY <2>1, <3>1 DEF Best
    <3> QED BY <1>3, <2>1, <2>3, <3>1, <3>2, <3>3 DEF RequestsStay
  <2>4. CASE slot = NoOp
    <3>1. ASSUME NEW t \in RequestsIn(Pool') PROVE Best(Pool[t])'
      <4>1. t \in RequestsIn(Pool) /\ Pool'[t] = Pool[t]
        BY <1>3 DEF RequestsStay
      <4>2. Best(Pool[t])
        BY <2>4, <4>1 DEF BestInv
      <4> QED BY <2>1, <4>1, <4>2 DEF Best
    <3> QED BY <2>1, <2>4, <3>1
  <2> QED BY <2>3, <2>4
<1>4. CASE Applied
  BY <1>4 DEF Applied, BestInv
<1>5. ASSUME NEW t \in RequestsIn(Pool), Taken(t) PROVE BestInv'
  <2>1. slot = NoOp
    BY <1>5 DEF BestInv
  <2>2. Best(Pool[t])
    BY <1>5, <2>1 DEF BestInv
  <2>3. /\ pc = "route" /\ RequestsIn(Pool') = {}
        /\ slot' = Pool[t] /\ rivals' = rivals
    BY <1>5 DEF Taken
  <2>4. Best(slot)'
    BY <2>2, <2>3 DEF Best
  <2>5. pc' \in Slotted
    BY <2>3, SlottedSteps DEF Slotted, apply
  <2> QED BY <1>1, <2>3, <2>4, <2>5 DEF BestInv
<1>6. ASSUME NEW op \in Requests, RequestCame(op) PROVE BestInv'
  <2>1. ~ InMailbox(op)
    BY RequestOpFacts DEF BestInv, NoMailedRequest, InMailbox
  <2>2. slot = NoOp /\ slot' = NoOp
    BY <1>6, <2>1 DEF RequestCame, InUserCode, BestInv, Slotted
  <2>3. rivals' = Append(rivals, op) /\ arbiter = PriorityArbiter
    BY <1>6 DEF RequestCame, Arbitrated, BestInv
  <2>4. \A e \in RequestsIn(Pool) : Pool[e] \in Requests /\ Best(Pool[e])
    BY <2>2, PoolFacts, RequestOpFacts DEF RequestsIn, BestInv
  <2>5. ASSUME Best(op)', \A t \in RequestsIn(Pool') : Pool'[t] = op PROVE BestInv'
    <3>1. \A t \in RequestsIn(Pool') : Best(Pool[t])'
      BY <2>5 DEF Best
    <3> QED BY <1>1, <2>2, <3>1 DEF BestInv
  <2>6. CASE RequestsIn(Pool) = {} /\ \A t \in RequestsIn(Pool') : Pool'[t] = op
    <3>1. rivals = << >>
      BY <2>2, <2>6 DEF RivalsSeen
    <3> QED BY <2>3, <2>5, <2>6, <3>1, FirstIsBest
  <2>7. ASSUME NEW e \in RequestsIn(Pool), <<op, Pool[e]>> \in arbiter,
               \A t \in RequestsIn(Pool') : Pool'[t] = op
        PROVE  BestInv'
    <3>1. Best(op)'
      BY <2>3, <2>4, <2>7, WinnerIsBest
    <3> QED BY <2>5, <2>7, <3>1
  <2>8. ASSUME NEW e \in RequestsIn(Pool), <<op, Pool[e]>> \notin arbiter, Pool' = Pool
        PROVE  BestInv'
    <3>0. PICK r : r = Pool[e]
      OBVIOUS
    <3>1. r \in Requests /\ Best(r) /\ <<op, r>> \notin PriorityArbiter
      BY <2>3, <2>4, <2>8, <3>0
    <3>2. \A t \in RequestsIn(Pool') : Pool'[t] = r
      BY <2>8, <3>0, PoolOneRequest DEF OneRequest
    <3>3. Best(r)'
      BY <2>3, <3>1, LoserIsNot
    <3>4. \A t \in RequestsIn(Pool') : Best(Pool[t])'
      BY <3>2, <3>3 DEF Best
    <3> QED BY <1>1, <2>2, <3>4 DEF BestInv
  <2> QED BY <1>6, <2>6, <2>7, <2>8 DEF RequestCame, Arbitrated
<1> QED BY <1>3, <1>4, <1>5, <1>6, RequestSteps DEF BestInv

LEMMA AppliedIsBest ==
  ASSUME BestInv, [Next]_vars, pc = "apply", pc' = "transition"
  PROVE  Best(slot)
<1>1. slot # NoOp
  BY SlottedSteps DEF Slotted, apply
<1> QED BY <1>1 DEF BestInv

\* With the default arbiter, and if tasks send no requests (one that comes out
\* of a mailbox may overwrite a better one in the slot), the transition applied
\* is the one of greatest priority among all requested since the last one, and
\* of equals the last: for any number of requests, any priorities, and whoever
\* on the machine's thread makes them.
THEOREM BestAlwaysApplied ==
  ASSUME "Request" \notin Mailed, Arbiters = {PriorityArbiter}
  PROVE  Spec => BestRequestApplied
<1>1. Init => BestInv
  <2> SUFFICES ASSUME Init PROVE BestInv
    OBVIOUS
  <2>1. RequestsIn(Pool) = {}
    BY EmptyProps DEF Init, Pool, RequestsIn
  <2>2. NoMailedRequest
    BY DEF Init, NoMailedRequest
  <2> QED BY <2>1, <2>2 DEF Init, BestInv
<1>2. TypeOK /\ (PoolApart /\ TaskInv) /\ AtMostOneRequest /\ RivalsSeen /\ BestInv /\ [Next]_vars
        => BestInv'
  BY StepKeepsBest DEF DefaultOnly
<1>3. BestInv /\ [Next]_vars
        => [pc = "apply" /\ pc' = "transition" =>
              \E i \in 1 .. Len(rivals) :
                /\ rivals[i] = slot
                /\ \A j \in 1 .. Len(rivals) :
                     /\ rivals[j].priority <= slot.priority
                     /\ j > i => rivals[j].priority < slot.priority]_vars
  BY AppliedIsBest DEF Best
<1> QED BY <1>1, <1>2, <1>3, TypeCorrect, TasksInvariant, OneRequestAlways, RivalsInvariant, PTL
        DEF Spec, BestRequestApplied
=============================================================================
