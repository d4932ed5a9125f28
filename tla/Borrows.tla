------------------------------- MODULE Borrows -------------------------------
(***************************************************************************)
(* maokai-machine: who borrows which RefCell, and what can still be called *)
(* meanwhile.                                                              *)
(*                                                                         *)
(* The machine, its consumers and all envelopes share the reconciler, the  *)
(* context, the event queue, the slot of the pending transition and the    *)
(* consumers through Rc<RefCell<_>>; the local task consumer shares its    *)
(* mailbox with the emitters of its tasks.  A borrow that conflicts        *)
(* panics.  The state is the call stack of the machine's thread with what  *)
(* each frame has borrowed.  Statements of advance_with may come in any    *)
(* order here: none of their borrows outlives the statement (Machine has   *)
(* the order).  A SendEnvelope has a context of its own on its own thread. *)
(***************************************************************************)
EXTENDS Naturals, Sequences

CONSTANT MaxDepth    \* bound: frames on the stack

\* Temporaries of `if let' and `while let' live to the end of the body: the
\* slot is borrowed while behaviors run for the transition taken from it ...
\* (mutant) and the reconciler with it
SlotAndReconciler == {"slot", "reconciler"}
TransitionCells == {"slot"}

\* ... and the queue while they run for an event.
\* (mutant) and the reconciler with it
QueueAndReconciler == {"events", "reconciler"}
DispatchCells == {"events"}

\* What a frame may call, and the cells that the callee has borrowed until it
\* returns, all of them mutably or for a moment only.
LibraryCalls ==
  { \* advance_with
    <<"owner", "advance", {}>>,
    <<"advance", "has_pending", {"reconciler"}>>,
    <<"advance", "commit", {"reconciler"}>>,
    <<"advance", "drain", {"consumer", "reconciler"}>>,
    <<"advance", "transition", TransitionCells>>,
    <<"advance", "dispatch", DispatchCells>>,
    <<"advance", "is_empty", {"events"}>>,
    <<"advance", "is_none", {"slot"}>>,
    <<"commit", "consume", {"consumer"}>>,
    <<"commit", "on_unhandled", {}>>,
    <<"transition", "behavior", {}>>,
    <<"dispatch", "behavior", {}>>,
    <<"dispatch", "stage", {"reconciler"}>>,
    \* consumers: of events, of requests, of tasks (the closure of a task is
    \* called at once, to get its future)
    <<"consume", "push_back", {"events"}>>,
    <<"consume", "set_slot", {"slot"}>>,
    <<"consume", "build", {}>>,
    \* stage_boxed; drain is given the reconciler and does not borrow it, the
    \* local consumer's holds its mailbox (`while let') across stage_boxed
    <<"stage", "rule", {}>>,
    <<"drain", "rule", {}>>,
    <<"drain", "pop_front", {"mailbox"}>>,
    <<"pop_front", "rule", {}>>,
    \* SendTaskSpawner::start_task: Context::clone
    <<"clone_context", "clone", {}>> }

\* Code of the user, which may hold an Envelope and a LocalTaskEmitter.
UserCode == {"owner", "behavior", "task", "consume", "build", "on_unhandled",
             "drain", "rule", "clone"}

\* MachineHandle::stage, post, request_transition, stop_task, start_task;
\* LocalTaskEmitter::emit; set_transition_arbiter is the owner's.
UserCalls ==
  {<<u, "stage", {"reconciler"}>> : u \in UserCode} \cup
  {<<u, "emit", {"mailbox"}>> : u \in UserCode} \cup
  {<<"owner", "add_rule", {"reconciler"}>>}

Calls == LibraryCalls \cup UserCalls

VARIABLES
  stack,             \* frames: site, cells held, guard of the context
  parked,            \* the guard a local task keeps across an await
  failed             \* the last borrow that panicked: for which callee, and
                     \* the sites of those that held the cell

vars == <<stack, parked, failed>>

NoFailure == [callee |-> "none", blame |-> {}]
Guards == {"none", "shared", "mut"}
Frame(site, cells) == [site |-> site, holds |-> cells, guard |-> "none"]
Top == stack[Len(stack)]
Pop == SubSeq(stack, 1, Len(stack) - 1)

\* Who has one of these cells borrowed.
Holders(cells) ==
  {stack[i].site : i \in {j \in DOMAIN stack : stack[j].holds \cap cells # {}}}

\* Who has one of these guards of the context, the suspended task included.
Guarding(guards) ==
  {stack[i].site : i \in {j \in DOMAIN stack : stack[j].guard \in guards}} \cup
  (IF parked \in guards THEN {"task"} ELSE {})

InTheWay(guard) == Guarding(IF guard = "mut" THEN {"shared", "mut"} ELSE {"mut"})

\* A panic unwinds to the owner; a suspended task keeps what it has.
Panic(callee, blame) ==
  /\ failed' = [callee |-> callee, blame |-> blame]
  /\ stack' = <<Frame("owner", {})>>
  /\ UNCHANGED parked

call(c) ==
  /\ Len(stack) < MaxDepth /\ c[1] = Top.site
  /\ IF Holders(c[3]) = {}
     THEN stack' = Append(stack, Frame(c[2], c[3])) /\ UNCHANGED <<parked, failed>>
     ELSE Panic(c[2], Holders(c[3]))

return ==
  /\ Len(stack) > 1 /\ Top.site # "task"
  /\ stack' = Pop
  /\ UNCHANGED <<parked, failed>>

\* Envelope::context, context_mut
context(guard) ==
  /\ Top.site \in UserCode /\ guard # "none"
  /\ IF InTheWay(guard) = {}
     THEN stack' = [stack EXCEPT ![Len(stack)].guard = guard] /\ UNCHANGED <<parked, failed>>
     ELSE Panic("context", InTheWay(guard))

drop_guard ==
  /\ Top.site \in UserCode /\ Top.guard # "none"
  /\ stack' = [stack EXCEPT ![Len(stack)].guard = "none"]
  /\ UNCHANGED <<parked, failed>>

\* start_task of a send task: `self.context.borrow().clone()', then stage.
clone_context ==
  /\ Len(stack) < MaxDepth /\ Top.site \in UserCode
  /\ IF InTheWay("shared") = {}
     THEN /\ stack' = Append(stack, [Frame("clone_context", {}) EXCEPT !.guard = "shared"])
          /\ UNCHANGED <<parked, failed>>
     ELSE Panic("clone_context", InTheWay("shared"))

\* A local task is polled when the owner waits, which keeps its own guard.
poll ==
  /\ Len(stack) = 1 /\ Top.site = "owner"
  /\ stack' = Append(stack, [Frame("task", {}) EXCEPT !.guard = parked])
  /\ parked' = "none"
  /\ UNCHANGED failed

await ==
  /\ Top.site = "task"
  /\ stack' = Pop /\ parked' = Top.guard
  /\ UNCHANGED failed

Init == stack = <<Frame("owner", {})>> /\ parked = "none" /\ failed = NoFailure

Next ==
  \/ \E c \in Calls : call(c)
  \/ \E guard \in Guards : context(guard)
  \/ return \/ drop_guard \/ clone_context \/ poll \/ await

Spec == Init /\ [][Next]_vars

-----------------------------------------------------------------------------
\* Inside the owner's code, a behavior or a local task, at any depth, the
\* reconciler is free: post, request_transition, stop_task and start_task of a
\* local task never panic there ("Behaviors ... can enqueue work there").  A
\* send task's start_task clones the context first, and that may panic.
BehaviorsCanStage ==
  Top.site \in {"owner", "behavior", "task"} => Holders({"reconciler"}) = {}

\* ... and consumers can, through an Envelope they hold.
ConsumersCanStage == Top.site = "consume" => Holders({"reconciler"}) = {}

\* What advance_with, commit, drain and the consumers borrow themselves never
\* conflicts, whatever user code does with its envelopes, emitters and guards.
\* A borrow that panics is one that user code asked for, in one of four ways:
\* it stages inside commit, drain or another stage; it emits in a rule that
\* runs for an operation of the local mailbox; it starts a send task (whose
\* context is cloned) while user code has the context mutably; it borrows the
\* context against another guard or inside such a clone.
OnlyUserCallsFail ==
  failed # NoFailure =>
    \/ failed.callee = "stage" /\ failed.blame \subseteq {"commit", "drain", "stage"}
    \/ failed.callee = "emit" /\ failed.blame = {"pop_front"}
    \/ failed.callee = "clone_context" /\ failed.blame \subseteq UserCode
    \/ failed.callee = "context" /\ failed.blame \subseteq UserCode \cup {"clone_context"}

=============================================================================
