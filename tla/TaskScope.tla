------------------------------ MODULE TaskScope ------------------------------
(***************************************************************************)
(* Tree, runner, machine and tasks put together, for the program that the  *)
(* integration tests of maokai-machine show: a behavior starts a task in   *)
(* on_enter, keeps its handle in the context, and stops it in on_exit.     *)
(*                                                                         *)
(* Every step is a step of Machine; this module closes the user code.  The *)
(* callbacks of a transition are those of the lists Runner::transition     *)
(* goes through.  Apart from them, owner, behaviors and tasks post events  *)
(* and request transitions as they like.                                   *)
(***************************************************************************)
EXTENDS Machine

CONSTANTS
  tree,              \* the state tree, as in TreeView; Targets are its states
  Scoped,            \* states whose behavior runs a task
  MaxRequests,       \* bound: transitions requested
  MaxPosts           \* bound: events posted on the machine's thread

Tree == INSTANCE TreeView

NoHandle == 0

ASSUME ScopeAssumption ==
  /\ Tree!IsTree(tree) /\ Targets = Tree!States(tree) /\ Nil = Tree!nil
  /\ Scoped \subseteq Targets \ {Nil}
  \* enough handles and stages for what the callbacks of all transitions use
  /\ MaxTasks >= MaxRequests * Cardinality(Scoped)
  /\ MaxStage >= MaxPosts + MaxRequests * (1 + 2 * Cardinality(Scoped))

VARIABLES
  running_task,      \* in the context: per state, the task it runs
  exit_list, enter_list,
                     \* what Runner::transition has left to call
  requests, posts    \* what the bounds count

scope == <<running_task, exit_list, enter_list, requests, posts>>

-----------------------------------------------------------------------------
Requested == requests < MaxRequests /\ requests' = requests + 1

request ==
  /\ Requested
  /\ \E s \in Targets, p \in Priorities :
       \/ request_transition(s, p)
       \/ \E h \in Handles : send_request_transition(h, s, p)
       \/ p = NORMAL /\ (init(s) \/ replied_transition(s))
  /\ UNCHANGED <<running_task, exit_list, enter_list, posts>>

post_event ==
  /\ posts < MaxPosts /\ posts' = posts + 1
  /\ \E p \in Sources : post(p)
  /\ UNCHANGED <<running_task, exit_list, enter_list, requests>>

\* Runner::transition computes its lists ...
begin ==
  /\ apply
  /\ LET tr == Tree!propose_transition(tree, current, hand'.target)
     IN  exit_list' = tr.exit /\ enter_list' = tr.enter
  /\ UNCHANGED <<running_task, requests, posts>>

\* (mutant) the behavior forgets to stop its task.
LeavesTask(s) ==
  /\ running_task' = [running_task EXCEPT ![s] = NoHandle]
  /\ UNCHANGED vars

\* on_exit: `if let Some(handle) = context.running_task.take()' stop it.
on_exit(s) ==
  IF s \in Scoped /\ running_task[s] # NoHandle
  THEN /\ stop_task(running_task[s])
       /\ running_task' = [running_task EXCEPT ![s] = NoHandle]
  ELSE UNCHANGED <<vars, running_task>>

\* ... and calls on_exit for one state after the other, ...
exit_next ==
  /\ pc = "transition" /\ exit_list # << >>
  /\ on_exit(Head(exit_list))
  /\ exit_list' = Tail(exit_list)
  /\ UNCHANGED <<enter_list, requests, posts>>

\* on_enter: start a task and remember its handle.
on_enter(s) ==
  IF s \in Scoped
  THEN /\ \E k \in Kinds : start_task(next_handle, k)
       /\ running_task' = [running_task EXCEPT ![s] = next_handle]
  ELSE UNCHANGED <<vars, running_task>>

\* ... then on_enter.
enter_next ==
  /\ pc = "transition" /\ exit_list = << >> /\ enter_list # << >>
  /\ on_enter(Head(enter_list))
  /\ enter_list' = Tail(enter_list)
  /\ UNCHANGED <<exit_list, requests, posts>>

return ==
  /\ exit_list = << >> /\ enter_list = << >> /\ transitioned
  /\ UNCHANGED scope

\* The rest of the machine.
other_loop_step ==
  /\ \/ commit \/ all_committed \/ route \/ drain \/ all_drained
     \/ nothing_to_apply \/ dispatch \/ handled \/ all_dispatched \/ check
  /\ UNCHANGED scope

other_step ==
  /\ \/ advance
     \/ \E h \in Handles : send_post(h) \/ task_returns(h)
  /\ UNCHANGED scope

aborted(h) == task_aborted(h) /\ UNCHANGED scope

-----------------------------------------------------------------------------
ScopeInit ==
  /\ Init
  /\ running_task = [s \in Scoped |-> NoHandle]
  /\ exit_list = << >> /\ enter_list = << >> /\ requests = 0 /\ posts = 0

ScopeLoop == begin \/ exit_next \/ enter_next \/ return \/ other_loop_step

ScopeNext ==
  ScopeLoop \/ request \/ post_event \/ other_step \/ \E h \in Handles : aborted(h)

ScopeVars == <<vars, scope>>

ScopeSpec == ScopeInit /\ [][ScopeNext]_ScopeVars

\* As in Machine: the thread inside advance goes on, the owner advances, tokio
\* drops what was aborted.
FairScopeSpec ==
  /\ ScopeSpec
  /\ WF_ScopeVars(ScopeLoop)
  /\ WF_ScopeVars(advance /\ UNCHANGED scope)
  /\ \A h \in Handles : WF_ScopeVars(aborted(h))

-----------------------------------------------------------------------------
\* The states of the current branch that run a task.
InScope == Scoped \cap Tree!Ancestors(tree, current)

\* When advance has returned, exactly the states of the current branch have
\* their task: it was spawned, every other task is over or on its way out,
\* and no start or stop is still under way.  (The test
\* task_started_on_enter_is_aborted_on_exit, for any tree and any sequence of
\* transitions, self-transitions and moves to nil included.)
TasksMatchBranch ==
  pc = "idle" /\ DOMAIN pending = {} =>
    /\ {s \in Scoped : running_task[s] # NoHandle} = InScope
    /\ \A s \in InScope : task[running_task[s]].status \in {"live", "over"}
    /\ \A h \in Handles :
         task[h].status \in {"requested", "live"} => \E s \in InScope : running_task[s] = h

\* Tasks of states that were exited end, whatever they and the others send
\* meanwhile: there is always a moment again when all of them are over.  (A
\* state never gets a task back and `over' is for ever, so each of them ends.
\* It is the bound on requests that lets all be over at once; a machine that
\* goes from state to state for ever may always have one on its way out.)
ExitedTasksEnd ==
  []<>(\A h \in Handles :
         h < next_handle /\ (\A s \in Scoped : running_task[s] # h)
           => task[h].status = "over")

=============================================================================
