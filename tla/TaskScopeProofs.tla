--------------------------- MODULE TaskScopeProofs ---------------------------
(***************************************************************************)
(* Tree, runner, machine and tasks together: every step of TaskScope is a  *)
(* step of Machine, so what is proved of it holds here too, and the tasks  *)
(* that run are those of the current branch, in every tree.                *)
(***************************************************************************)
EXTENDS TaskScope, MachineProofs

\* TaskScope has the tree operators from an instance of TreeView.
LEMMA TreeOperators ==
  /\ \A t : Tree!IsTree(t) <=> IsTree(t)
  /\ Tree!nil = nil
  /\ \A t : Tree!States(t) = States(t)
  /\ \A t, s : Tree!Ancestors(t, s) = Ancestors(t, s)
  /\ \A t, c, g : Tree!propose_transition(t, c, g) = propose_transition(t, c, g)
<1>1. \A t : Tree!IsTree(t) <=> IsTree(t)
  BY DEF Tree!IsTree, Tree!root, Tree!nil, Tree!NoState, IsTree, root, nil, NoState
<1>2. Tree!nil = nil
  BY DEF Tree!nil, nil
<1>3. \A t : Tree!States(t) = States(t)
  BY DEF Tree!States, States
<1>4. \A t, s : Tree!path_rev_iter(t, s) = path_rev_iter(t, s)
  BY DEF Tree!path_rev_iter, Tree!Above, Tree!NoState, path_rev_iter, Above, NoState
<1>5. \A t, s : Tree!Ancestors(t, s) = Ancestors(t, s)
  BY <1>4 DEF Tree!Ancestors, Ancestors
<1>6. \A p, q : Tree!SharedTail(p, q) = SharedTail(p, q)
  <2>1. \A S : Tree!Max(S) = Max(S)
    BY DEF Tree!Max, Max
  <2>2. \A p, q, k : Tree!TailsAgree(p, q, k) <=> TailsAgree(p, q, k)
    BY DEF Tree!TailsAgree, TailsAgree
  <2>3. \A p, q : {k \in 0 .. Len(p) : Tree!TailsAgree(p, q, k)} =
                  {k \in 0 .. Len(p) : TailsAgree(p, q, k)}
    BY <2>2
  <2> QED BY <2>1, <2>3 DEF Tree!SharedTail, SharedTail
<1>7. ASSUME NEW t, NEW c, NEW g
      PROVE  Tree!propose_transition(t, c, g) = propose_transition(t, c, g)
  <2>1. /\ Tree!path_rev_iter(t, c) = path_rev_iter(t, c)
        /\ Tree!path_rev_iter(t, g) = path_rev_iter(t, g)
        /\ Tree!SharedTail(path_rev_iter(t, c), path_rev_iter(t, g)) =
             SharedTail(path_rev_iter(t, c), path_rev_iter(t, g))
    BY <1>4, <1>6
  <2> QED BY <2>1, Zenon DEF Tree!propose_transition, propose_transition
<1> QED BY <1>1, <1>2, <1>3, <1>5, <1>7

LEMMA ScopeTree ==
  /\ IsTree(tree) /\ Targets = States(tree) /\ Nil = nil
  /\ Scoped \subseteq Targets /\ Nil \notin Scoped
  /\ InScope = Scoped \cap Ancestors(tree, current)
  /\ NoHandle \notin Handles
BY ScopeAssumption, TreeOperators DEF InScope, NoHandle, Handles

-----------------------------------------------------------------------------
(* TaskScope implements Machine.                                           *)

RunningTyped == running_task \in [Scoped -> Handles \cup {NoHandle}]

\* Steps that call no callback of a transition.
PlainStep ==
  /\ UNCHANGED <<running_task, exit_list, enter_list>>
  /\ \/ QuietStep /\ ~ apply /\ ~ transitioned
     \/ dispatch \/ route \/ drain
     \/ \E op \in Requests : RequestStep(op)
     \/ \E p \in Sources : post(p)
     \/ \E h \in Handles : send_post(h) \/ StatusStep(h)
     \/ \E h \in Handles, s \in Targets, p \in Priorities : send_request_transition(h, s, p)

LEMMA ScopeSplits ==
  ASSUME [ScopeNext]_ScopeVars
  PROVE  PlainStep \/ begin \/ exit_next \/ enter_next \/ return
<1>1. CASE UNCHANGED ScopeVars
  <2>1. UNCHANGED vars /\ UNCHANGED <<running_task, exit_list, enter_list>>
    BY <1>1 DEF ScopeVars, scope
  <2>2. QuietStep
    BY <2>1 DEF QuietStep
  <2>3. pc' = pc
    BY <2>1 DEF vars, loop
  <2>4. ~ apply /\ ~ transitioned
    BY <2>3 DEF apply, transitioned
  <2> QED BY <2>1, <2>2, <2>4 DEF PlainStep
<1>2. CASE other_loop_step
  <2>1. UNCHANGED <<running_task, exit_list, enter_list>>
    BY <1>2 DEF other_loop_step, scope
  <2>2. CASE dispatch \/ route \/ drain
    BY <2>1, <2>2 DEF PlainStep
  <2>3. CASE commit \/ all_committed \/ all_drained \/ nothing_to_apply \/ handled
             \/ all_dispatched \/ check
    <3>1. QuietStep
      BY <2>3 DEF QuietStep
    <3>2. ~ apply /\ ~ transitioned
      BY <2>3 DEF commit, all_committed, all_drained, nothing_to_apply, handled, all_dispatched,
                  check, apply, transitioned
    <3> QED BY <2>1, <3>1, <3>2 DEF PlainStep
  <2> QED BY <1>2, <2>2, <2>3 DEF other_loop_step
<1>3. CASE request
  <2>1. UNCHANGED <<running_task, exit_list, enter_list>>
    BY <1>3 DEF request
  <2>2. PICK s \in Targets, p \in Priorities :
          \/ request_transition(s, p)
          \/ \E h \in Handles : send_request_transition(h, s, p)
          \/ p = NORMAL /\ (init(s) \/ replied_transition(s))
    BY <1>3 DEF request
  <2>3. RequestTransitionOp(s, p) \in Requests
    BY RequestOpFacts
  <2>4. CASE \E h \in Handles : send_request_transition(h, s, p)
    BY <2>1, <2>4 DEF PlainStep
  <2>5. CASE request_transition(s, p) \/ (p = NORMAL /\ (init(s) \/ replied_transition(s)))
    <3>1. RequestStep(RequestTransitionOp(s, p))
      BY <2>5 DEF RequestStep
    <3> QED BY <2>1, <2>3, <3>1 DEF PlainStep
  <2> QED BY <2>2, <2>4, <2>5
<1>4. CASE other_step
  <2>1. UNCHANGED <<running_task, exit_list, enter_list>>
    BY <1>4 DEF other_step, scope
  <2>2. CASE advance
    <3>1. QuietStep /\ ~ apply /\ ~ transitioned
      BY <2>2 DEF QuietStep, advance, apply, transitioned
    <3> QED BY <2>1, <3>1 DEF PlainStep
  <2>3. ASSUME NEW h \in Handles, send_post(h) \/ task_returns(h) PROVE PlainStep
    BY <2>1, <2>3 DEF PlainStep, StatusStep
  <2> QED BY <1>4, <2>2, <2>3 DEF other_step
<1>5. ASSUME NEW h \in Handles, aborted(h) PROVE PlainStep
  BY <1>5 DEF PlainStep, aborted, StatusStep, scope
<1>6. CASE post_event
  BY <1>6 DEF PlainStep, post_event
<1> QED BY <1>1, <1>2, <1>3, <1>4, <1>5, <1>6 DEF ScopeNext, ScopeLoop

LEMMA RunningStep == RunningTyped /\ [ScopeNext]_ScopeVars => RunningTyped'
<1> SUFFICES ASSUME RunningTyped, [ScopeNext]_ScopeVars PROVE RunningTyped'
  OBVIOUS
<1>1. CASE UNCHANGED running_task
  BY <1>1 DEF RunningTyped
<1>2. CASE exit_next
  BY <1>2 DEF exit_next, on_exit, RunningTyped
<1>3. CASE enter_next
  BY <1>3 DEF enter_next, on_enter, start_task, NewTask, RunningTyped
<1> QED BY <1>1, <1>2, <1>3, ScopeSplits DEF PlainStep, begin, return, scope

LEMMA RunningInvariant == ScopeSpec => []RunningTyped
<1>1. ScopeInit => RunningTyped
  BY DEF ScopeInit, RunningTyped
<1> QED BY <1>1, RunningStep, PTL DEF ScopeSpec

LEMMA StepImplements == RunningTyped /\ [ScopeNext]_ScopeVars => [Next]_vars
<1> SUFFICES ASSUME RunningTyped, ScopeNext PROVE [Next]_vars
  BY DEF ScopeVars
<1>1. CASE begin \/ return \/ other_loop_step
  BY <1>1 DEF begin, return, other_loop_step, Next, LoopStep
<1>2. CASE exit_next
  <2> DEFINE s == Head(exit_list)
  <2>1. CASE s \in Scoped /\ running_task[s] # NoHandle
    <3>1. stop_task(running_task[s]) /\ running_task[s] \in Handles
      BY <1>2, <2>1 DEF exit_next, on_exit, RunningTyped
    <3> QED BY <3>1 DEF Next, UserStep
  <2>2. CASE ~ (s \in Scoped /\ running_task[s] # NoHandle)
    BY <1>2, <2>2 DEF exit_next, on_exit
  <2> QED BY <2>1, <2>2
<1>3. CASE enter_next
  <2> DEFINE s == Head(enter_list)
  <2>1. CASE s \in Scoped
    <3>1. PICK k \in Kinds : start_task(next_handle, k)
      BY <1>3, <2>1 DEF enter_next, on_enter
    <3>2. next_handle \in Handles
      BY <3>1 DEF start_task, NewTask
    <3> QED BY <3>1, <3>2 DEF Next, UserStep
  <2>2. CASE s \notin Scoped
    BY <1>3, <2>2 DEF enter_next, on_enter
  <2> QED BY <2>1, <2>2
<1>4. CASE request
  <2>1. PICK s \in Targets, p \in Priorities :
          \/ request_transition(s, p)
          \/ \E h \in Handles : send_request_transition(h, s, p)
          \/ p = NORMAL /\ (init(s) \/ replied_transition(s))
    BY <1>4 DEF request
  <2> QED BY <2>1 DEF Next, UserStep, TaskStep
<1>5. CASE other_step \/ \E h \in Handles : aborted(h)
  BY <1>5 DEF other_step, aborted, Next, TaskStep
<1>6. CASE post_event
  BY <1>6 DEF post_event, Next, UserStep
<1> QED BY <1>1, <1>2, <1>3, <1>4, <1>5, <1>6 DEF ScopeNext, ScopeLoop

\* The program whose behaviors run tasks is one the open model of the machine
\* covers: each of its steps is a step of Machine, or none.  So every theorem
\* about Machine is one about this program, in every tree.
THEOREM ScopeImplements == ScopeSpec => Spec
<1>1. ScopeInit => Init
  BY DEF ScopeInit
<1> QED BY <1>1, RunningInvariant, StepImplements, PTL DEF ScopeSpec, Spec

-----------------------------------------------------------------------------
(* The tasks behind the handles in the context.                            *)

Held == {s \in Scoped : running_task[s] # NoHandle}

\* No two states hold the same task.
HandlesApart == \A s, r \in Held : running_task[s] = running_task[r] => s = r

\* The task of a state was started, and no stop was staged for it.
HeldNotStopped ==
  \A s \in Held :
    /\ task[running_task[s]].status # "unused" /\ running_task[s] \notin stopped
    /\ \A t \in DOMAIN Pool : Pool[t].type = "Stop" => Pool[t].handle # running_task[s]

\* One was for every other task.
Stopping(h) == h \in stopped \/ \E t \in DOMAIN Pool : Pool[t] = KnownStop(h)
OthersStopping ==
  \A h \in Handles :
    task[h].status # "unused" /\ (\A s \in Scoped : running_task[s] # h) => Stopping(h)

\* Behaviors start and stop on the machine's thread.
NoTaskMail ==
  \A m \in Runtimes : \A i \in DOMAIN mailbox[m] : mailbox[m][i].type \notin {"Start", "Stop"}

HeldInv == HandlesApart /\ HeldNotStopped /\ OthersStopping /\ NoTaskMail

SameUse == \A h \in Handles : task'[h].status = "unused" <=> task[h].status = "unused"

\* Steps that leave the stops where they are.
LEMMA HeldNeutral ==
  ASSUME RunningTyped, HeldInv, SameUse, NoTaskMail', UNCHANGED <<running_task, stopped>>,
         \A t \in DOMAIN Pool' : Pool'[t].type = "Stop" => t \in DOMAIN Pool /\ Pool[t] = Pool'[t],
         \A t \in DOMAIN Pool : Pool[t].type = "Stop" => t \in DOMAIN Pool' /\ Pool'[t] = Pool[t]
  PROVE  HeldInv'
<1>1. Held' = Held /\ HandlesApart'
  BY DEF HeldInv, Held, HandlesApart
<1>2. \A s \in Held : running_task[s] \in Handles
  BY DEF RunningTyped, Held
<1>3. HeldNotStopped'
  BY <1>1, <1>2 DEF HeldInv, HeldNotStopped, SameUse
<1>4. \A h \in Handles : Stopping(h) => Stopping(h)'
  BY TaskOpFacts DEF Stopping
<1>5. OthersStopping'
  BY <1>4 DEF HeldInv, OthersStopping, SameUse
<1> QED BY <1>1, <1>3, <1>5 DEF HeldInv

LEMMA HeldQuiet ==
  ASSUME RunningTyped, HeldInv, UNCHANGED <<running_task, stopped, mailbox>>, SameUse, Pool' = Pool
  PROVE  HeldInv'
<1>1. NoTaskMail'
  BY DEF HeldInv, NoTaskMail
<1> QED BY <1>1, HeldNeutral

LEMMA HeldStaged ==
  ASSUME RunningTyped, HeldInv, UNCHANGED <<running_task, stopped, task>>, NoTaskMail',
         NEW op, op.type # "Stop", Staged(op)
  PROVE  HeldInv'
<1>1. SameUse
  BY DEF SameUse
<1>2. \A t \in DOMAIN Pool' : Pool'[t].type = "Stop" => t \in DOMAIN Pool /\ Pool[t] = Pool'[t]
  BY DEF Staged
<1>3. \A t \in DOMAIN Pool : Pool[t].type = "Stop" => t \in DOMAIN Pool' /\ Pool'[t] = Pool[t]
  BY DEF Staged
<1> QED BY <1>1, <1>2, <1>3, HeldNeutral

LEMMA HeldSent ==
  ASSUME TypeOK, PoolApart, RunningTyped, HeldInv, UNCHANGED <<running_task, stopped, task>>,
         NEW h \in Handles, NEW op, op.type \notin {"Start", "Stop"}, Sends(h, op)
  PROVE  HeldInv'
<1>1. Sent(Runtime(task[h].kind), op) /\ Pool' = Pool
  BY SendStep
<1>2. NoTaskMail'
  <2> DEFINE m == Runtime(task[h].kind)
  <2> HIDE DEF m
  <2> SUFFICES ASSUME NEW r \in Runtimes, NEW i \in DOMAIN mailbox'[r]
               PROVE  mailbox'[r][i].type \notin {"Start", "Stop"}
    BY DEF NoTaskMail
  <2>1. CASE i \in DOMAIN mailbox[r] /\ mailbox'[r][i] = mailbox[r][i]
    BY <2>1 DEF HeldInv, NoTaskMail
  <2>2. CASE ~ (i \in DOMAIN mailbox[r] /\ mailbox'[r][i] = mailbox[r][i])
    <3>1. r = m /\ Sent(m, op)
      BY <1>1, <2>2 DEF Sent, m
    <3>2. i \in 1 .. Len(mailbox[m]) + 1 /\ Len(mailbox[m]) \in Nat
      BY <3>1, PoolFacts DEF Sent
    <3>3. i = Len(mailbox[m]) + 1
      BY <2>2, <3>1, <3>2 DEF Sent
    <3> QED BY <3>1, <3>3 DEF Sent
  <2> QED BY <2>1, <2>2
<1>3. SameUse
  BY DEF SameUse
<1> QED BY <1>1, <1>2, <1>3, HeldNeutral

LEMMA HeldRoute ==
  ASSUME TypeOK, PoolApart, TaskInv, RunningTyped, HeldInv, UNCHANGED running_task, route
  PROVE  HeldInv'
<1>1. PICK t \in DOMAIN Pool :
        /\ Routed(t)
        /\ \/ EventOpConsumer(Pool[t]) \/ RequestTransitionConsumer(Pool[t])
           \/ SpawnTask(Pool[t]) \/ AbortTask(Pool[t]) \/ Unhandled(Pool[t])
  BY RouteStep
<1>2. NoTaskMail'
  BY RouteStep DEF HeldInv, NoTaskMail
<1>3. Pool[t] \in Ops
  BY PoolFacts
<1>4. /\ \A u \in DOMAIN Pool' : u \in DOMAIN Pool /\ Pool[u] = Pool'[u]
      /\ \A u \in DOMAIN Pool : u # t => u \in DOMAIN Pool' /\ Pool'[u] = Pool[u]
  BY <1>1 DEF Routed
<1>5. CASE Pool[t].type # "Stop"
  <2>1. stopped' = stopped
    BY <1>1, <1>5 DEF EventOpConsumer, RequestTransitionConsumer, SpawnTask, AbortTask, Unhandled
  <2>2. SameUse
    <3>1. CASE SpawnTask(Pool[t])
      <4> DEFINE h == Pool[t].handle
      <4>1. h \in Handles /\ Pool[t] = StartTaskOp(h)
        BY <1>3, <3>1, TaskOpShape DEF SpawnTask
      <4>2. task[h].status = "requested"
        BY <4>1 DEF TaskInv, OpsInv, StartsInPool
      <4>3. task' = [task EXCEPT ![h].status = "live"]
        BY <3>1 DEF SpawnTask
      <4> HIDE DEF h
      <4> QED BY <4>1, <4>2, <4>3 DEF SameUse, TypeOK, TasksOK, Tasks
    <3>2. CASE task' = task
      BY <3>2 DEF SameUse
    <3> QED BY <1>1, <1>5, <3>1, <3>2 DEF EventOpConsumer, RequestTransitionConsumer, AbortTask,
                                          Unhandled
  <2> QED BY <1>2, <1>4, <1>5, <2>1, <2>2, HeldNeutral
<1>6. CASE Pool[t].type = "Stop"
  <2> DEFINE h == Pool[t].handle
  <2>1. h \in Handles /\ (Pool[t] = KnownStop(h) \/ Pool[t] = EarlyStop(h))
    BY <1>3, <1>6, TaskOpShape
  <2>2. AbortTask(Pool[t])
    BY <1>1, <1>6 DEF EventOpConsumer, RequestTransitionConsumer, SpawnTask, Unhandled
  <2>3. stopped' = IF Pool[t].known THEN stopped \cup {h} ELSE stopped
    BY <2>2 DEF AbortTask
  <2>4. SameUse
    BY <2>1, <2>2 DEF AbortTask, SameUse, TypeOK, TasksOK, Tasks
  <2>5. \A s \in Held : running_task[s] # h
    BY <1>6 DEF HeldInv, HeldNotStopped
  <2> HIDE DEF h
  <2>6. Held' = Held /\ HandlesApart'
    BY DEF HeldInv, Held, HandlesApart
  <2>7. \A s \in Held : running_task[s] \in Handles
    BY DEF RunningTyped, Held
  <2>8. HeldNotStopped'
    BY <1>4, <2>3, <2>4, <2>5, <2>6, <2>7 DEF HeldInv, HeldNotStopped, SameUse
  <2>9. ASSUME NEW g \in Handles, Stopping(g) PROVE Stopping(g)'
    <3>1. CASE g \in stopped
      BY <2>3, <3>1 DEF Stopping
    <3>2. ASSUME NEW u \in DOMAIN Pool, Pool[u] = KnownStop(g) PROVE Stopping(g)'
      <4>1. CASE u = t
        <5>1. g = h /\ Pool[t].known
          BY <2>1, <3>2, <4>1, TaskOpFacts
        <5> QED BY <2>3, <5>1 DEF Stopping
      <4>2. CASE u # t
        BY <1>4, <3>2, <4>2 DEF Stopping
      <4> QED BY <4>1, <4>2
    <3> QED BY <2>9, <3>1, <3>2 DEF Stopping
  <2>10. OthersStopping'
    BY <2>4, <2>9 DEF HeldInv, OthersStopping, SameUse
  <2> QED BY <1>2, <2>6, <2>8, <2>10 DEF HeldInv
<1> QED BY <1>5, <1>6

LEMMA HeldPlain ==
  ASSUME TypeOK, PoolApart, TaskInv, RunningTyped, HeldInv, PlainStep
  PROVE  HeldInv'
<1>0. running_task' = running_task
  BY DEF PlainStep
<1>1. CASE QuietStep \/ dispatch
  <2>1. Pool' = Pool /\ UNCHANGED <<mailbox, task, stopped>>
    BY <1>1, QuietFacts DEF tasks
  <2>2. SameUse
    BY <2>1 DEF SameUse
  <2> QED BY <1>0, <2>1, <2>2, HeldQuiet
<1>2. CASE route
  BY <1>0, <1>2, HeldRoute
<1>3. CASE drain
  <2>1. PICK m \in Runtimes : Drained(m) /\ Staged(mailbox[m][1])
    BY <1>3, DrainStep
  <2>2. UNCHANGED <<task, stopped>>
    BY <1>3, DrainStep DEF tasks
  <2>3. mailbox[m][1].type # "Stop"
    BY <2>1 DEF Drained, HeldInv, NoTaskMail
  <2>4. NoTaskMail'
    BY <2>1 DEF Drained, HeldInv, NoTaskMail
  <2> QED BY <1>0, <2>1, <2>2, <2>3, <2>4, HeldStaged
<1>4. ASSUME NEW op \in Requests, RequestStep(op) PROVE HeldInv'
  <2>1. Staged(op) /\ op.type = "Request" /\ UNCHANGED <<mailbox, task, stopped>>
    BY <1>4, RequestFacts DEF tasks
  <2>2. NoTaskMail'
    BY <2>1 DEF HeldInv, NoTaskMail
  <2> QED BY <1>0, <2>1, <2>2, HeldStaged
<1>5. ASSUME NEW h \in Handles, send_post(h) PROVE HeldInv'
  <2>1. Sends(h, Event(h, posted[h] + 1)) /\ UNCHANGED <<task, stopped>>
    BY <1>5 DEF send_post, Sends, tasks
  <2> QED BY <1>0, <2>1, TaskOpFacts, HeldSent
<1>6. ASSUME NEW h \in Handles, NEW s \in Targets, NEW p \in Priorities,
             send_request_transition(h, s, p)
      PROVE  HeldInv'
  <2>1. Sends(h, RequestTransitionOp(s, p)) /\ UNCHANGED <<task, stopped>>
    BY <1>6 DEF send_request_transition, Sends, tasks
  <2> QED BY <1>0, <2>1, TaskOpFacts, HeldSent
<1>7. ASSUME NEW h \in Handles, StatusStep(h) PROVE HeldInv'
  <2>1. Pool' = Pool /\ UNCHANGED <<mailbox, stopped>>
    BY <1>7 DEF StatusStep, task_returns, task_aborted, SetStatus, loop, reconciler, ghosts, Pool
  <2>2. SameUse
    BY <1>7 DEF StatusStep, task_returns, task_aborted, SetStatus, SameUse, TypeOK, TasksOK, Tasks
  <2> QED BY <1>0, <2>1, <2>2, HeldQuiet
<1>8. ASSUME NEW p \in Sources, post(p) PROVE HeldInv'
  <2>1. /\ Staged(Event(p, posted[p] + 1)) /\ UNCHANGED <<mailbox, task, stopped>>
    BY <1>8, DirectStep DEF post, tasks
  <2>2. NoTaskMail'
    BY <2>1 DEF HeldInv, NoTaskMail
  <2> QED BY <1>0, <2>1, <2>2, TaskOpFacts, HeldStaged
<1> QED BY <1>1, <1>2, <1>3, <1>4, <1>5, <1>6, <1>7, <1>8 DEF PlainStep

LEMMA HeldExit ==
  ASSUME TypeOK, PoolApart, TaskInv, RunningTyped, HeldInv, NEW s \in Held,
         stop_task(running_task[s]), running_task' = [running_task EXCEPT ![s] = NoHandle]
  PROVE  HeldInv' /\ Held' = Held \ {s}
<1>0. PICK h : h = running_task[s]
  OBVIOUS
<1>1. s \in Scoped /\ h \in Handles /\ h # NoHandle
  BY <1>0, ScopeTree DEF RunningTyped, Held
<1>2. /\ running_task'[s] = NoHandle
      /\ \A r \in Scoped : r # s => running_task'[r] = running_task[r]
  BY <1>1 DEF RunningTyped
<1>3. Held' = Held \ {s}
  BY <1>1, <1>2 DEF Held
<1>4. ~ InMailbox(StartTaskOp(h))
  BY TaskOpFacts DEF InMailbox, HeldInv, NoTaskMail
<1>5. Staged(KnownStop(h)) /\ UNCHANGED <<mailbox, task, stopped>>
  <2>1. StopTaskOp(h, ~ InMailbox(StartTaskOp(h))) = KnownStop(h)
    BY <1>4 DEF StopTaskOp, KnownStop
  <2>2. Stages("Stop") /\ stage_boxed(KnownStop(h)) /\ UNCHANGED tasks
    BY <1>0, <2>1 DEF stop_task
  <2> QED BY <2>2, DirectStep DEF tasks
<1>6. NoTaskMail'
  BY <1>5 DEF HeldInv, NoTaskMail
<1>7. HandlesApart'
  BY <1>2, <1>3 DEF HeldInv, HandlesApart, Held
<1>8. HeldNotStopped'
  <2> SUFFICES ASSUME NEW r \in Held, r # s
               PROVE  /\ task[running_task[r]].status # "unused" /\ running_task[r] \notin stopped
                      /\ \A t \in DOMAIN Pool' :
                           Pool'[t].type = "Stop" => Pool'[t].handle # running_task[r]
    BY <1>2, <1>3, <1>5 DEF HeldNotStopped, Held
  <2>1. running_task[r] # h
    BY <1>0 DEF HeldInv, HandlesApart
  <2>2. /\ task[running_task[r]].status # "unused" /\ running_task[r] \notin stopped
        /\ \A t \in DOMAIN Pool : Pool[t].type = "Stop" => Pool[t].handle # running_task[r]
    BY DEF HeldInv, HeldNotStopped
  <2> QED BY <1>5, <2>1, <2>2, TaskOpFacts DEF Staged
<1>9. OthersStopping'
  <2> SUFFICES ASSUME NEW g \in Handles, task[g].status # "unused",
                      \A r \in Scoped : running_task'[r] # g
               PROVE  Stopping(g)'
    BY <1>5 DEF OthersStopping
  <2>1. CASE g = h
    BY <1>5, <2>1, TaskOpFacts DEF Staged, Stopping
  <2>2. CASE g # h
    <3>1. Stopping(g)
      BY <1>0, <1>2, <2>2 DEF HeldInv, OthersStopping
    <3> QED BY <1>5, <3>1, TaskOpFacts DEF Staged, Stopping
  <2> QED BY <2>1, <2>2
<1> QED BY <1>3, <1>6, <1>7, <1>8, <1>9 DEF HeldInv

LEMMA HeldEnter ==
  ASSUME TypeOK, TypeOK', PoolApart, TaskInv, RunningTyped, HeldInv, NEW s \in Scoped, s \notin Held,
         NEW k, start_task(next_handle, k),
         running_task' = [running_task EXCEPT ![s] = next_handle]
  PROVE  HeldInv' /\ Held' = Held \cup {s}
<1>0. PICK h : h = next_handle
  OBVIOUS
<1>1. NewTask(h, k) /\ Stages("Start") /\ stage_boxed(StartTaskOp(h)) /\ stopped' = stopped
  BY <1>0 DEF start_task, Stages
<1>2. Staged(StartTaskOp(h)) /\ mailbox' = mailbox
  BY <1>1, DirectStep
<1>3. /\ h \in Handles /\ task[h].status = "unused" /\ task'[h].status = "requested"
      /\ \A g \in Handles : g # h => task'[g] = task[g]
  BY <1>1, NewTaskFacts DEF TaskInv
<1>4. /\ running_task'[s] = h /\ h # NoHandle /\ running_task[s] = NoHandle
      /\ \A r \in Scoped : r # s => running_task'[r] = running_task[r]
  BY <1>0, <1>3, ScopeTree DEF RunningTyped, Held
<1>5. Held' = Held \cup {s}
  BY <1>4 DEF Held
<1>6. \A r \in Held : r # s /\ running_task[r] # h /\ running_task[r] \in Handles
  BY <1>3 DEF HeldInv, HeldNotStopped, Held, RunningTyped
<1>7. NoTaskMail'
  BY <1>2 DEF HeldInv, NoTaskMail
<1>8. HandlesApart'
  BY <1>4, <1>5, <1>6 DEF HeldInv, HandlesApart, Held
<1>9. /\ h \notin stopped
      /\ \A t \in DOMAIN Pool : Pool[t].type = "Stop" => Pool[t].handle # h
  <2>1. h \notin stopped
    BY <1>3 DEF TaskInv, HandlesInv, StopIsFinal
  <2>2. ASSUME NEW t \in DOMAIN Pool, Pool[t].type = "Stop", Pool[t].handle = h PROVE FALSE
    <3>1. Pool[t] = KnownStop(h) \/ Pool[t] = EarlyStop(h)
      BY <2>2, PoolFacts, TaskOpShape
    <3> QED BY <1>3, <3>1 DEF TaskInv, OpsInv, StopsInPool
  <2> QED BY <2>1, <2>2
<1>10. \A t \in DOMAIN Pool' : Pool'[t].type = "Stop" => t \in DOMAIN Pool /\ Pool'[t] = Pool[t]
  BY <1>2, TaskOpFacts DEF Staged
<1>11. HeldNotStopped'
  <2>1. ASSUME NEW r \in Held
        PROVE  /\ task'[running_task'[r]].status # "unused" /\ running_task'[r] \notin stopped'
               /\ \A t \in DOMAIN Pool' :
                    Pool'[t].type = "Stop" => Pool'[t].handle # running_task'[r]
    <3>1. running_task'[r] = running_task[r] /\ task'[running_task[r]] = task[running_task[r]]
      BY <1>3, <1>4, <1>6 DEF Held
    <3> QED BY <1>1, <1>10, <3>1 DEF HeldInv, HeldNotStopped
  <2>2. /\ task'[running_task'[s]].status # "unused" /\ running_task'[s] \notin stopped'
        /\ \A t \in DOMAIN Pool' :
             Pool'[t].type = "Stop" => Pool'[t].handle # running_task'[s]
    BY <1>1, <1>3, <1>4, <1>9, <1>10
  <2> QED BY <1>5, <2>1, <2>2 DEF HeldNotStopped
<1>12. OthersStopping'
  <2> SUFFICES ASSUME NEW g \in Handles, task'[g].status # "unused",
                      \A r \in Scoped : running_task'[r] # g
               PROVE  Stopping(g)'
    BY DEF OthersStopping
  <2>1. g # h
    BY <1>4
  <2>2. g # NoHandle
    BY ScopeTree
  <2>3. \A r \in Scoped : running_task[r] # g
    BY <1>4, <2>2
  <2>4. Stopping(g)
    BY <1>3, <2>1, <2>3 DEF HeldInv, OthersStopping
  <2> QED BY <1>1, <1>2, <2>4, TaskOpFacts DEF Staged, Stopping
<1> QED BY <1>5, <1>7, <1>8, <1>11, <1>12 DEF HeldInv

\* A callback without a task changes nothing.
LEMMA HeldSame ==
  ASSUME RunningTyped, HeldInv, UNCHANGED <<vars, running_task>>
  PROVE  HeldInv' /\ Held' = Held
<1>1. Pool' = Pool /\ UNCHANGED <<mailbox, task, stopped>>
  BY DEF vars, loop, reconciler, tasks, ghosts, Pool
<1>2. SameUse
  BY <1>1 DEF SameUse
<1> QED BY <1>1, <1>2, HeldQuiet DEF Held

LEMMA CallbackLoop ==
  ASSUME exit_next \/ enter_next
  PROVE  UNCHANGED loop
BY DEF exit_next, on_exit, stop_task, enter_next, on_enter, start_task, Stages, vars, loop

LEMMA ExitEffect ==
  ASSUME TypeOK, PoolApart, TaskInv, RunningTyped, HeldInv, exit_next
  PROVE  HeldInv' /\ Held' = Held \ {Head(exit_list)}
<1>0. PICK s : s = Head(exit_list)
  OBVIOUS
<1>1. CASE s \in Scoped /\ running_task[s] # NoHandle
  <2>1. /\ s \in Held /\ stop_task(running_task[s])
        /\ running_task' = [running_task EXCEPT ![s] = NoHandle]
    BY <1>0, <1>1 DEF exit_next, on_exit, Held
  <2> QED BY <1>0, <2>1, HeldExit
<1>2. CASE ~ (s \in Scoped /\ running_task[s] # NoHandle)
  <2>1. s \notin Held /\ UNCHANGED <<vars, running_task>>
    BY <1>0, <1>2 DEF exit_next, on_exit, Held
  <2> QED BY <1>0, <2>1, HeldSame
<1> QED BY <1>1, <1>2

LEMMA EnterEffect ==
  ASSUME TypeOK, TypeOK', PoolApart, TaskInv, RunningTyped, HeldInv, enter_next,
         Head(enter_list) \notin Held
  PROVE  HeldInv' /\ Held' = Held \cup (Scoped \cap {Head(enter_list)})
<1>0. PICK s : s = Head(enter_list)
  OBVIOUS
<1>1. CASE s \in Scoped
  <2>1. PICK k \in Kinds : start_task(next_handle, k)
    BY <1>0, <1>1 DEF enter_next, on_enter
  <2>2. running_task' = [running_task EXCEPT ![s] = next_handle]
    BY <1>0, <1>1 DEF enter_next, on_enter
  <2>3. HeldInv' /\ Held' = Held \cup {s}
    BY <1>0, <1>1, <2>1, <2>2, HeldEnter
  <2> QED BY <1>0, <1>1, <2>3
<1>2. CASE s \notin Scoped
  <2>1. UNCHANGED <<vars, running_task>>
    BY <1>0, <1>2 DEF enter_next, on_enter
  <2> QED BY <1>0, <1>2, <2>1, HeldSame
<1> QED BY <1>1, <1>2

-----------------------------------------------------------------------------
(* How far a transition has come, in terms of the states that hold a task. *)

Goal == hand.target
Branch(s) == Ancestors(tree, s)

ExitsLeft ==
  /\ Held = Scoped \cap (KeptBetween(tree, current, Goal) \cup Elements(exit_list))
  /\ Elements(exit_list) \cap KeptBetween(tree, current, Goal) = {}
  /\ Elements(enter_list) = Branch(Goal) \ KeptBetween(tree, current, Goal)

EntersLeft ==
  /\ Held = Scoped \cap (Branch(Goal) \ Elements(enter_list))
  /\ Elements(enter_list) \subseteq Branch(Goal)

ListsInv ==
  /\ exit_list \in Seq(Targets) /\ enter_list \in Seq(Targets)
  /\ pc # "transition" => exit_list = << >> /\ enter_list = << >> /\ Held = InScope
  /\ pc = "transition" =>
       /\ Climbs(tree, exit_list) /\ Descends(tree, enter_list)
       /\ IF exit_list # << >> THEN ExitsLeft ELSE EntersLeft

LEMMA PlainLoop ==
  ASSUME PlainStep
  PROVE  /\ current' = current
         /\ pc' = "transition" <=> pc = "transition"
         /\ pc = "transition" => hand' = hand
<1> USE DEF loop
<1>1. CASE QuietStep /\ ~ apply /\ ~ transitioned
  BY <1>1 DEF QuietStep, set_transition_arbiter, advance, commit, all_committed, all_drained,
              nothing_to_apply, handled, all_dispatched, check, vars
<1>2. CASE dispatch \/ route \/ drain
  BY <1>2 DEF dispatch, route, drain
<1>3. ASSUME NEW op, RequestStep(op)
      PROVE  /\ current' = current
             /\ pc' = "transition" <=> pc = "transition"
             /\ pc = "transition" => hand' = hand
  BY <1>3 DEF RequestStep, request_transition, Stages, init, replied_transition
<1>4. ASSUME NEW h, StatusStep(h) PROVE UNCHANGED loop
  BY <1>4 DEF StatusStep, task_returns, task_aborted, SetStatus
<1>5. ASSUME NEW h, send_post(h) PROVE UNCHANGED loop
  BY <1>5 DEF send_post, Sends
<1>6. ASSUME NEW h, NEW s, NEW p, send_request_transition(h, s, p) PROVE UNCHANGED loop
  BY <1>6 DEF send_request_transition, Sends
<1>7. ASSUME NEW p, post(p) PROVE UNCHANGED loop
  BY <1>7 DEF post, Stages
<1> QED BY <1>1, <1>2, <1>3, <1>4, <1>5, <1>6, <1>7 DEF PlainStep

LEMMA GoalTyped ==
  ASSUME TypeOK
  PROVE  /\ current \in States(tree)
         /\ pc = "transition" => Goal \in States(tree)
BY ScopeTree DEF TypeOK, LoopOK, Requests, Goal

LEMMA ListsPlain ==
  ASSUME ListsInv, PlainStep
  PROVE  ListsInv'
<1>1. UNCHANGED <<running_task, exit_list, enter_list, current>>
  BY PlainLoop DEF PlainStep
<1>2. Held' = Held /\ InScope' = InScope
  BY <1>1 DEF Held, InScope
<1>3. CASE pc # "transition"
  <2>1. pc' # "transition"
    BY <1>3, PlainLoop
  <2> QED BY <1>1, <1>2, <1>3, <2>1 DEF ListsInv
<1>4. CASE pc = "transition"
  <2>1. pc' = "transition" /\ hand' = hand
    BY <1>4, PlainLoop
  <2> QED BY <1>1, <1>2, <1>4, <2>1 DEF ListsInv, ExitsLeft, EntersLeft, Goal, Branch
<1> QED BY <1>3, <1>4

LEMMA ListsBegin ==
  ASSUME TypeOK, TypeOK', ListsInv, begin
  PROVE  ListsInv'
<1>1. /\ pc = "apply" /\ pc' = "transition" /\ UNCHANGED <<current, running_task>>
      /\ exit_list' = Tree!propose_transition(tree, current, hand'.target).exit
      /\ enter_list' = Tree!propose_transition(tree, current, hand'.target).enter
  BY DEF begin, apply
<1>0. PICK g, c : g = hand'.target /\ c = current
  OBVIOUS
<1>2. c \in States(tree) /\ g \in States(tree) /\ IsTree(tree) /\ Targets = States(tree)
  <2>1. hand' \in Requests
    BY <1>1 DEF TypeOK, LoopOK
  <2> QED BY <1>0, <2>1, GoalTyped, ScopeTree DEF Requests
<1>3. /\ exit_list' = propose_transition(tree, c, g).exit
      /\ enter_list' = propose_transition(tree, c, g).enter
  BY <1>0, <1>1, TreeOperators
<1>4. exit_list' \in Seq(Targets) /\ enter_list' \in Seq(Targets)
  BY <1>2, <1>3, ProposalTyped
<1>5. PICK kept : kept = KeptBetween(tree, c, g)
  OBVIOUS
<1>6. /\ Elements(exit_list') = Branch(c) \ kept
      /\ Elements(enter_list') = Branch(g) \ kept
      /\ Climbs(tree, exit_list') /\ Descends(tree, enter_list')
      /\ kept \subseteq Branch(c) \cap Branch(g)
  BY <1>2, <1>3, <1>5, ProposalParts DEF Branch
<1>7. Held' = Scoped \cap Branch(c)
  BY <1>0, <1>1, ScopeTree DEF ListsInv, Held, Branch
<1>8. CASE exit_list' # << >>
  <2>1. ExitsLeft'
    BY <1>0, <1>1, <1>5, <1>6, <1>7 DEF ExitsLeft, Goal, Branch
  <2> QED BY <1>1, <1>4, <1>6, <1>8, <2>1 DEF ListsInv
<1>9. CASE exit_list' = << >>
  <2>1. Branch(c) = kept
    BY <1>6, <1>9, ElementsOfNone
  <2>2. EntersLeft'
    BY <1>0, <1>6, <1>7, <2>1 DEF EntersLeft, Goal, Branch
  <2> QED BY <1>1, <1>4, <1>6, <1>9, <2>2 DEF ListsInv
<1> QED BY <1>8, <1>9

LEMMA ListsExit ==
  ASSUME TypeOK, ListsInv, exit_next, Held' = Held \ {Head(exit_list)}
  PROVE  ListsInv'
<1>1. /\ pc = "transition" /\ exit_list # << >> /\ exit_list' = Tail(exit_list)
      /\ enter_list' = enter_list /\ UNCHANGED <<pc, current, hand>>
  BY CallbackLoop DEF exit_next, loop
<1>0. PICK x, kept : x = Head(exit_list) /\ kept = KeptBetween(tree, current, Goal)
  OBVIOUS
<1>2. /\ exit_list \in Seq(Targets) /\ enter_list \in Seq(Targets)
      /\ Climbs(tree, exit_list) /\ Descends(tree, enter_list)
      /\ Held = Scoped \cap (kept \cup Elements(exit_list))
      /\ Elements(exit_list) \cap kept = {}
      /\ Elements(enter_list) = Branch(Goal) \ kept
  BY <1>0, <1>1 DEF ListsInv, ExitsLeft
<1>3. /\ exit_list' \in Seq(Targets) /\ x \in Elements(exit_list)
      /\ Elements(exit_list) = {x} \cup Elements(exit_list')
  BY <1>0, <1>1, <1>2, ElementsOfTail
<1>4. /\ Climbs(tree, exit_list')
      /\ \A d \in Elements(exit_list') : x \notin Ancestors(tree, d)
  BY <1>0, <1>1, <1>2, ClimbsFromHead
<1>5. x \notin Elements(exit_list')
  <2>1. x \in States(tree)
    BY <1>2, <1>3, ElementsTyped, ScopeTree
  <2> QED BY <1>4, <2>1, AncestorsTyped, ScopeTree
<1>6. Held' = Scoped \cap (kept \cup Elements(exit_list'))
  BY <1>0, <1>2, <1>3, <1>5
<1>7. kept \subseteq Branch(Goal)
  BY <1>0, <1>1, GoalTyped, ScopeTree, ProposalParts DEF Branch
<1>8. CASE exit_list' # << >>
  <2>1. ExitsLeft'
    BY <1>0, <1>1, <1>2, <1>3, <1>6 DEF ExitsLeft, Goal, Branch
  <2> QED BY <1>1, <1>2, <1>3, <1>4, <1>8, <2>1 DEF ListsInv
<1>9. CASE exit_list' = << >>
  <2>1. EntersLeft'
    BY <1>1, <1>2, <1>6, <1>7, <1>9, ElementsOfNone DEF EntersLeft, Goal, Branch
  <2> QED BY <1>1, <1>2, <1>3, <1>4, <1>9, <2>1 DEF ListsInv
<1> QED BY <1>8, <1>9

\* What enter_next enters holds no task.
LEMMA EnterFinds ==
  ASSUME ListsInv, enter_next
  PROVE  /\ pc = "transition" /\ exit_list = << >> /\ enter_list # << >> /\ EntersLeft
         /\ enter_list \in Seq(Targets) /\ Head(enter_list) \in Elements(enter_list)
         /\ Head(enter_list) \notin Held
<1>1. /\ pc = "transition" /\ exit_list = << >> /\ enter_list # << >> /\ EntersLeft
      /\ enter_list \in Seq(Targets)
  BY DEF enter_next, ListsInv
<1>2. Head(enter_list) \in Elements(enter_list)
  BY <1>1, ElementsOfTail
<1> QED BY <1>1, <1>2 DEF EntersLeft

LEMMA ListsEnter ==
  ASSUME TypeOK, ListsInv, enter_next, Held' = Held \cup (Scoped \cap {Head(enter_list)})
  PROVE  ListsInv'
<1>1. /\ enter_list' = Tail(enter_list) /\ exit_list' = exit_list
      /\ UNCHANGED <<pc, current, hand>>
  BY CallbackLoop DEF enter_next, loop
<1>0. PICK x : x = Head(enter_list)
  OBVIOUS
<1>2. /\ pc = "transition" /\ exit_list = << >> /\ enter_list # << >>
      /\ enter_list \in Seq(Targets) /\ x \in Elements(enter_list)
      /\ Held = Scoped \cap (Branch(Goal) \ Elements(enter_list))
      /\ Elements(enter_list) \subseteq Branch(Goal)
  BY <1>0, EnterFinds DEF EntersLeft
<1>3. /\ enter_list' \in Seq(Targets)
      /\ Elements(enter_list) = {x} \cup Elements(enter_list')
  BY <1>0, <1>1, <1>2, ElementsOfTail
<1>4. /\ Descends(tree, enter_list')
      /\ \A d \in Elements(enter_list') : d \notin Ancestors(tree, x)
  BY <1>0, <1>1, <1>2, DescendsFromHead DEF ListsInv
<1>5. x \notin Elements(enter_list')
  <2>1. x \in States(tree)
    BY <1>2, ElementsTyped, ScopeTree
  <2> QED BY <1>4, <2>1, AncestorsTyped, ScopeTree
<1>6. Held' = Scoped \cap (Branch(Goal) \ Elements(enter_list'))
  BY <1>0, <1>2, <1>3, <1>5
<1>7. EntersLeft'
  BY <1>1, <1>2, <1>3, <1>6 DEF EntersLeft, Goal, Branch
<1> QED BY <1>1, <1>2, <1>3, <1>4, <1>7 DEF ListsInv

LEMMA ListsReturn ==
  ASSUME ListsInv, return
  PROVE  ListsInv'
<1>1. /\ pc = "transition" /\ pc' = "events" /\ current' = hand.target
      /\ exit_list = << >> /\ enter_list = << >>
      /\ UNCHANGED <<running_task, exit_list, enter_list>>
  BY DEF return, transitioned, scope
<1>2. Held = Scoped \cap Branch(Goal)
  BY <1>1, ElementsOfNone DEF ListsInv, EntersLeft
<1>3. Held' = InScope'
  BY <1>1, <1>2, TreeOperators DEF Held, InScope, Goal, Branch
<1> QED BY <1>1, <1>3 DEF ListsInv

-----------------------------------------------------------------------------
ScopeInv == HeldInv /\ ListsInv

LEMMA InitScope == ScopeInit => ScopeInv
<1> SUFFICES ASSUME ScopeInit PROVE ScopeInv
  OBVIOUS
<1>1. Held = {} /\ DOMAIN Pool = {}
  BY EmptyProps DEF ScopeInit, Init, Held, Pool
<1>2. \A m \in Runtimes : DOMAIN mailbox[m] = {}
  BY DEF ScopeInit, Init
<1>3. \A h \in Handles : task[h].status = "unused"
  BY DEF ScopeInit, Init, NoTask
<1>4. HeldInv
  BY <1>1, <1>2, <1>3 DEF HeldInv, HandlesApart, HeldNotStopped, OthersStopping, NoTaskMail
<1>5. InScope = {}
  <2>1. Ancestors(tree, Nil) = {Nil} /\ current = Nil
    BY NilAlone, ScopeTree DEF ScopeInit, Init
  <2> QED BY <2>1, ScopeTree
<1> QED BY <1>1, <1>4, <1>5 DEF ScopeInv, ListsInv, ScopeInit, Init

LEMMA StepKeepsScope ==
  ASSUME TypeOK, TypeOK', PoolApart, TaskInv, RunningTyped, ScopeInv, [ScopeNext]_ScopeVars
  PROVE  ScopeInv'
<1>1. CASE PlainStep
  BY <1>1, HeldPlain, ListsPlain DEF ScopeInv
<1>2. CASE begin
  <2>1. HeldInv'
    <3>1. Pool' = Pool /\ UNCHANGED <<running_task, mailbox, task, stopped>>
      BY <1>2, QuietFacts DEF begin, QuietStep, tasks
    <3>2. SameUse
      BY <3>1 DEF SameUse
    <3> QED BY <3>1, <3>2, HeldQuiet DEF ScopeInv
  <2> QED BY <1>2, <2>1, ListsBegin DEF ScopeInv
<1>3. CASE exit_next
  BY <1>3, ExitEffect, ListsExit DEF ScopeInv
<1>4. CASE enter_next
  BY <1>4, EnterFinds, EnterEffect, ListsEnter DEF ScopeInv
<1>5. CASE return
  <2>1. HeldInv'
    <3>1. Pool' = Pool /\ UNCHANGED <<running_task, mailbox, task, stopped>>
      BY <1>5, QuietFacts DEF return, QuietStep, tasks, scope
    <3>2. SameUse
      BY <3>1 DEF SameUse
    <3> QED BY <3>1, <3>2, HeldQuiet DEF ScopeInv
  <2> QED BY <1>5, <2>1, ListsReturn DEF ScopeInv
<1> QED BY <1>1, <1>2, <1>3, <1>4, <1>5, ScopeSplits

LEMMA ScopeInvariant == ScopeSpec => []ScopeInv
<1>1. TypeOK /\ TypeOK' /\ (PoolApart /\ TaskInv) /\ RunningTyped /\ ScopeInv
        /\ [ScopeNext]_ScopeVars => ScopeInv'
  BY StepKeepsScope
<1> QED BY <1>1, InitScope, RunningInvariant, ScopeImplements, TypeCorrect, TasksInvariant, PTL
        DEF ScopeSpec

\* When advance has returned and nothing is staged, exactly the states of the
\* current branch have their task and all others are over or on their way out:
\* in every tree, for any set of states that run tasks, any sequence of
\* transitions and whatever tasks send meanwhile.
THEOREM TasksAlwaysMatchBranch == ScopeSpec => []TasksMatchBranch
<1>1. ASSUME TypeOK, PoolApart, TaskInv, AbortsRecorded, RunningTyped, ScopeInv
      PROVE  TasksMatchBranch
  <2> SUFFICES ASSUME pc = "idle", DOMAIN pending = {}
               PROVE  /\ Held = InScope
                      /\ \A s \in InScope : task[running_task[s]].status \in {"live", "over"}
                      /\ \A h \in Handles : task[h].status \in {"requested", "live"} =>
                           \E s \in InScope : running_task[s] = h
    BY DEF TasksMatchBranch, Held
  <2>1. Held = InScope
    BY <1>1 DEF ScopeInv, ListsInv
  <2>2. DOMAIN Pool = {}
    BY DEF Pool
  <2>3. \A h \in Handles : ~ InMailbox(StartTaskOp(h))
    BY <1>1, TaskOpFacts DEF ScopeInv, HeldInv, NoTaskMail, InMailbox
  <2>4. \A h \in Handles : task[h].status # "requested"
    BY <1>1, <2>2, <2>3 DEF TaskInv, OpsInv, StartsNotLost
  <2>5. ASSUME NEW s \in InScope PROVE task[running_task[s]].status \in {"live", "over"}
    <3>1. running_task[s] \in Handles
      BY <1>1, <2>1 DEF RunningTyped, Held
    <3>2. task[running_task[s]].status # "unused" /\ running_task[s] \notin stopped
      BY <1>1, <2>1 DEF ScopeInv, HeldInv, HeldNotStopped
    <3>3. task[running_task[s]].status # "aborting"
      BY <1>1, <3>1, <3>2 DEF AbortsRecorded
    <3>4. task[running_task[s]].status \in Statuses
      BY <1>1, <3>1 DEF TypeOK, TasksOK, Tasks
    <3> QED BY <2>4, <3>1, <3>2, <3>3, <3>4 DEF Statuses
  <2>6. ASSUME NEW h \in Handles, task[h].status = "live"
        PROVE  \E s \in InScope : running_task[s] = h
    <3>1. h \notin stopped
      BY <1>1, <2>6 DEF TaskInv, HandlesInv, StopIsFinal
    <3>2. ~ Stopping(h)
      BY <2>2, <3>1 DEF Stopping
    <3>3. PICK s \in Scoped : running_task[s] = h
      BY <1>1, <2>6, <3>2 DEF ScopeInv, HeldInv, OthersStopping
    <3>4. s \in Held
      BY <3>3, ScopeTree DEF Held
    <3> QED BY <2>1, <3>3, <3>4
  <2> QED BY <2>1, <2>4, <2>5, <2>6
<1>2. TypeOK /\ (PoolApart /\ TaskInv) /\ AbortsRecorded /\ RunningTyped /\ ScopeInv
        => TasksMatchBranch
  BY <1>1
<1> QED BY <1>2, ScopeInvariant, RunningInvariant, ScopeImplements, TypeCorrect, TasksInvariant,
           AbortsInvariant, PTL
=============================================================================
