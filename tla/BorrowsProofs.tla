---------------------------- MODULE BorrowsProofs ----------------------------
(***************************************************************************)
(* maokai-machine: at any depth of the call stack, staging is possible in  *)
(* behaviors, and only borrows that user code asked for conflict.          *)
(***************************************************************************)
EXTENDS Borrows, TLAPS

\* Sites that call something, and those that only borrow for a moment.
Calling == {"owner", "task", "advance", "commit", "drain", "pop_front", "transition",
            "dispatch", "consume", "on_unhandled", "behavior", "stage", "build", "rule",
            "clone_context", "clone"}
Sites == Calling \cup {"has_pending", "is_empty", "is_none", "push_back", "set_slot",
                       "emit", "add_rule"}
Cells == {"reconciler", "consumer", "events", "slot", "mailbox"}

\* The cells that no frame up to and including one at this site has borrowed:
\* all of them while the owner's or a task's code runs, and between the
\* statements of advance_with; inside commit what consumers use; inside drain
\* the mailbox; inside a transition or a dispatch the reconciler.
Untouched(site) ==
  CASE site \in {"owner", "task", "advance"} -> Cells
    [] site = "commit" -> {"consumer", "events", "slot"}
    [] site = "consume" -> {"events", "slot"}
    [] site = "drain" -> {"mailbox"}
    [] site \in {"transition", "dispatch", "behavior"} -> {"reconciler"}
    [] OTHER -> {}

\* Who can have the reconciler and the mailbox, and a guard of the context.
Frames ==
  {f \in [site : Sites, holds : SUBSET Cells, guard : Guards] :
     /\ "reconciler" \in f.holds =>
          f.site \in {"has_pending", "commit", "drain", "stage", "add_rule"}
     /\ "mailbox" \in f.holds => f.site \in {"pop_front", "emit"}
     /\ f.guard # "none" => f.site \in UserCode \cup {"clone_context"}
     /\ f.guard = "mut" => f.site \in UserCode}

FramesOK ==
  /\ stack \in Seq(Frames)
  /\ Len(stack) >= 1 /\ stack[1].site = "owner" /\ parked \in Guards
  /\ \A i \in DOMAIN stack : i < Len(stack) => stack[i].site \in Calling

BorrowsApart ==
  \A i \in DOMAIN stack : \A cell \in Untouched(stack[i].site) :
    \A j \in 1 .. i : cell \notin stack[j].holds

BorrowInv == FramesOK /\ BorrowsApart /\ OnlyUserCallsFail

-----------------------------------------------------------------------------
\* What every call keeps: the callee's untouched cells are the caller's, less
\* those it borrows, and it borrows only untouched ones unless user code
\* stages or emits.
LEMMA CallFacts ==
  ASSUME NEW c \in Calls
  PROVE  /\ c[1] \in Calling /\ Frame(c[2], c[3]) \in Frames
         /\ Untouched(c[2]) \subseteq Untouched(c[1]) \ c[3]
         /\ \/ c[3] \subseteq Untouched(c[1])
            \/ c[2] = "stage" /\ c[3] = {"reconciler"}
            \/ c[2] = "emit" /\ c[3] = {"mailbox"}
<1> USE DEF Calling, Sites, Cells, Untouched, Frame, Frames, Guards
<1>1. CASE c \in LibraryCalls
  BY <1>1 DEF LibraryCalls, TransitionCells, DispatchCells
<1>2. CASE c \in UserCalls
  BY <1>2 DEF UserCalls, UserCode
<1> QED BY <1>1, <1>2 DEF Calls

\* The stack a step leaves: another guard in a frame, fewer frames, or one more.
LEMMA GuardStep ==
  ASSUME BorrowInv, NEW g \in Guards, Top.site \in UserCode,
         stack' = [stack EXCEPT ![Len(stack)].guard = g], parked' \in Guards
  PROVE  FramesOK' /\ BorrowsApart'
<1> DEFINE n == Len(stack)
           f == [stack[n] EXCEPT !.guard = g]
<1>0. stack \in Seq(Frames) /\ n \in 1 .. n /\ n \in Nat /\ DOMAIN stack = 1 .. n
  BY DEF BorrowInv, FramesOK
<1>1. stack[n] \in Frames
  BY <1>0
<1>2. f \in Frames /\ f.site = stack[n].site /\ f.holds = stack[n].holds
  BY <1>1 DEF Frames, Top
<1>3. stack' = [stack EXCEPT ![n] = f]
  OBVIOUS
<1> HIDE DEF n, f
<1>4. stack' \in Seq(Frames) /\ Len(stack') = n /\ DOMAIN stack' = 1 .. n
  BY <1>0, <1>2, <1>3 DEF n
<1>5. \A i \in 1 .. n : stack'[i].site = stack[i].site /\ stack'[i].holds = stack[i].holds
  BY <1>0, <1>2, <1>3
<1>6. BorrowsApart'
  BY <1>0, <1>4, <1>5 DEF BorrowInv, BorrowsApart
<1> QED BY <1>0, <1>4, <1>5, <1>6 DEF BorrowInv, FramesOK, n

LEMMA PopStep ==
  ASSUME BorrowInv, Len(stack) > 1, stack' = Pop, parked' \in Guards
  PROVE  FramesOK' /\ BorrowsApart'
<1> DEFINE n == Len(stack) - 1
<1>1. /\ stack' \in Seq(Frames)
      /\ Len(stack') = n /\ n \in Nat /\ n >= 1
      /\ \A i \in 1 .. n : stack'[i] = stack[i]
  <2>1. stack \in Seq(Frames) /\ n \in Nat /\ n >= 1 /\ n < Len(stack)
    BY DEF BorrowInv, FramesOK
  <2> HIDE DEF n
  <2>2. stack' = SubSeq(stack, 1, n)
    BY DEF Pop, n
  <2> QED BY <2>1, <2>2
<1>2. DOMAIN stack' = 1 .. n /\ DOMAIN stack = 1 .. Len(stack) /\ 1 .. n \subseteq DOMAIN stack
  BY <1>1 DEF BorrowInv, FramesOK
<1>c. \A i \in 1 .. n : stack'[i].site \in Calling
  BY <1>1, <1>2 DEF BorrowInv, FramesOK
<1> HIDE DEF n
<1>3. BorrowsApart'
  BY <1>1, <1>2 DEF BorrowInv, BorrowsApart
<1> QED BY <1>1, <1>2, <1>3, <1>c DEF BorrowInv, FramesOK

LEMMA PushStep ==
  ASSUME BorrowInv, NEW f \in Frames,
         stack' = Append(stack, f), parked' \in Guards, Top.site \in Calling,
         Untouched(f.site) \subseteq Untouched(Top.site) \ f.holds
  PROVE  FramesOK' /\ BorrowsApart'
<1> DEFINE n == Len(stack)
<1>1. /\ stack' \in Seq(Frames)
      /\ Len(stack') = n + 1 /\ n \in Nat /\ n >= 1
      /\ \A i \in 1 .. n : stack'[i] = stack[i]
      /\ stack'[n + 1] = f
  BY DEF BorrowInv, FramesOK
<1>2. DOMAIN stack' = 1 .. n + 1 /\ DOMAIN stack = 1 .. n /\ Top = stack[n]
  BY <1>1 DEF BorrowInv, FramesOK, Top
<1> HIDE DEF n
<1>3. ASSUME NEW i \in 1 .. n + 1, NEW cell \in Untouched(stack'[i].site), NEW j \in 1 .. i
      PROVE  cell \notin stack'[j].holds
  <2>1. CASE i \in 1 .. n
    BY <1>1, <1>2, <2>1 DEF BorrowInv, BorrowsApart
  <2>2. CASE i = n + 1
    <3>1. cell \in Untouched(stack[n].site) /\ cell \notin f.holds
      BY <1>1, <1>2, <2>2
    <3>2. \A k \in 1 .. n : cell \notin stack[k].holds
      BY <3>1, <1>1, <1>2 DEF BorrowInv, BorrowsApart
    <3> QED BY <3>1, <3>2, <1>1, <2>2
  <2> QED BY <2>1, <2>2, <1>1
<1>4. BorrowsApart'
  BY <1>2, <1>3 DEF BorrowsApart
<1>5. \A i \in 1 .. n : stack'[i].site \in Calling
  BY <1>1, <1>2 DEF BorrowInv, FramesOK, n
<1> QED BY <1>1, <1>2, <1>4, <1>5 DEF BorrowInv, FramesOK

LEMMA PanicStep ==
  ASSUME BorrowInv, NEW callee, NEW blame, Panic(callee, blame), OnlyUserCallsFail'
  PROVE  BorrowInv'
<1>1. /\ stack' = <<[site |-> "owner", holds |-> {}, guard |-> "none"]>>
      /\ parked' \in Guards
  BY DEF BorrowInv, FramesOK, Panic, Frame
<1>2. FramesOK'
  BY <1>1 DEF FramesOK, Frames, Sites, Calling, Guards
<1>3. \A i \in DOMAIN stack' : i = 1 /\ \A j \in 1 .. i : stack'[j].holds = {}
  BY <1>1
<1>4. BorrowsApart'
  BY <1>3 DEF BorrowsApart
<1> QED BY <1>2, <1>4 DEF BorrowInv

\* Who is in the way: of the reconciler and of the mailbox only frames that
\* call something, of the context only user code and the clone of start_task.
LEMMA HoldersFacts ==
  ASSUME FramesOK, Top.site \in Calling
  PROVE  /\ Holders({"reconciler"}) \subseteq {"commit", "drain", "stage"}
         /\ Holders({"mailbox"}) \subseteq {"pop_front"}
<1>1. ASSUME NEW i \in DOMAIN stack
      PROVE  stack[i] \in Frames /\ stack[i].site \in Calling
  <2>1. DOMAIN stack = 1 .. Len(stack) /\ Len(stack) \in Nat /\ stack[i] \in Frames
    BY DEF FramesOK
  <2>2. CASE i < Len(stack)
    BY <2>1, <2>2 DEF FramesOK
  <2>3. CASE i = Len(stack)
    BY <2>1, <2>3 DEF Top
  <2> QED BY <2>1, <2>2, <2>3
<1> QED BY <1>1 DEF Holders, Frames, Calling

LEMMA GuardingFacts ==
  ASSUME FramesOK
  PROVE  /\ InTheWay("shared") \subseteq UserCode
         /\ \A guard : InTheWay(guard) \subseteq UserCode \cup {"clone_context"}
<1>1. \A i \in DOMAIN stack : stack[i] \in Frames
  BY DEF FramesOK
<1>2. "task" \in UserCode
  BY DEF UserCode
<1>3. Guarding({"mut"}) \subseteq UserCode
  BY <1>1, <1>2 DEF Guarding, Frames
<1>4. Guarding({"shared", "mut"}) \subseteq UserCode \cup {"clone_context"}
  BY <1>1, <1>2 DEF Guarding, Frames
<1> QED BY <1>3, <1>4 DEF InTheWay

-----------------------------------------------------------------------------
LEMMA InitBorrows == Init => BorrowInv
<1> SUFFICES ASSUME Init PROVE BorrowInv
  OBVIOUS
<1>1. stack = <<[site |-> "owner", holds |-> {}, guard |-> "none"]>>
  BY DEF Init, Frame
<1>2. FramesOK
  BY <1>1 DEF Init, FramesOK, Frames, Sites, Calling, Guards
<1>3. BorrowsApart
  BY <1>1 DEF BorrowsApart
<1> QED BY <1>2, <1>3 DEF Init, BorrowInv, OnlyUserCallsFail

LEMMA StepKeepsBorrows == BorrowInv /\ [Next]_vars => BorrowInv'
<1> SUFFICES ASSUME BorrowInv, [Next]_vars PROVE BorrowInv'
  OBVIOUS
<1>0. failed' = failed => OnlyUserCallsFail'
  BY DEF BorrowInv, OnlyUserCallsFail
<1>t. /\ Len(stack) \in DOMAIN stack /\ 1 .. Len(stack) = DOMAIN stack
      /\ Top \in Frames
      /\ parked \in Guards
      /\ Top.guard \in Guards
      /\ UserCode \subseteq Calling
  <2>1. Top \in Frames /\ Len(stack) \in DOMAIN stack /\ 1 .. Len(stack) = DOMAIN stack
    BY DEF BorrowInv, FramesOK, Top
  <2>2. UserCode \subseteq Calling
    BY DEF UserCode, Calling
  <2> QED BY <2>1, <2>2 DEF BorrowInv, FramesOK, Frames
<1>1. ASSUME NEW c \in Calls, call(c) PROVE BorrowInv'
  <2>0. Top.site = c[1] /\ Top.site \in Calling
    BY <1>1, CallFacts DEF call
  <2>1. CASE Holders(c[3]) = {}
    <3> DEFINE f == Frame(c[2], c[3])
    <3>1. stack' = Append(stack, f) /\ UNCHANGED <<parked, failed>>
      BY <1>1, <2>1 DEF call
    <3>2. /\ f \in Frames
          /\ f.site = c[2] /\ f.holds = c[3]
      BY CallFacts DEF Frame
    <3> HIDE DEF f
    <3> QED BY <2>0, <3>1, <3>2, <1>0, <1>t, CallFacts, PushStep DEF BorrowInv
  <2>2. CASE Holders(c[3]) # {}
    <3>1. Panic(c[2], Holders(c[3]))
      BY <1>1, <2>2 DEF call
    <3>2. ~ (c[3] \subseteq Untouched(c[1]))
      BY <2>0, <2>2, <1>t DEF BorrowInv, BorrowsApart, Holders, Top
    <3>3. /\ failed'.callee = c[2] /\ failed'.blame = Holders(c[3])
      BY <3>1 DEF Panic
    <3>4. \/ c[2] = "stage" /\ Holders(c[3]) \subseteq {"commit", "drain", "stage"}
          \/ c[2] = "emit" /\ Holders(c[3]) = {"pop_front"}
      <4>1. \/ c[2] = "stage" /\ c[3] = {"reconciler"}
            \/ c[2] = "emit" /\ c[3] = {"mailbox"}
        BY <3>2, CallFacts
      <4>2. /\ Holders({"reconciler"}) \subseteq {"commit", "drain", "stage"}
            /\ Holders({"mailbox"}) \subseteq {"pop_front"}
        BY <2>0, HoldersFacts DEF BorrowInv
      <4>3. CASE c[2] = "stage" /\ c[3] = {"reconciler"}
        BY <4>2, <4>3
      <4>4. CASE c[2] = "emit" /\ c[3] = {"mailbox"}
        BY <4>2, <4>4, <2>2
      <4> QED BY <4>1, <4>3, <4>4
    <3>5. OnlyUserCallsFail'
      BY <3>3, <3>4 DEF OnlyUserCallsFail
    <3> QED BY <3>1, <3>5, PanicStep
  <2> QED BY <2>1, <2>2
<1>2. ASSUME NEW guard \in Guards, context(guard) PROVE BorrowInv'
  <2>1. CASE InTheWay(guard) = {}
    BY <1>2, <2>1, <1>0, <1>t, GuardStep DEF context, BorrowInv
  <2>2. CASE InTheWay(guard) # {}
    <3>1. Panic("context", InTheWay(guard))
      BY <1>2, <2>2 DEF context
    <3>2. failed'.callee = "context" /\ failed'.blame \subseteq UserCode \cup {"clone_context"}
      BY <3>1, GuardingFacts DEF Panic, BorrowInv
    <3>3. OnlyUserCallsFail'
      BY <3>2 DEF OnlyUserCallsFail
    <3> QED BY <3>1, <3>3, PanicStep
  <2> QED BY <2>1, <2>2
<1>3. CASE return
  BY <1>3, <1>0, <1>t, PopStep DEF return, BorrowInv
<1>4. CASE drop_guard
  <2>1. "none" \in Guards
    BY DEF Guards
  <2> QED BY <1>4, <2>1, <1>0, <1>t, GuardStep DEF drop_guard, BorrowInv
<1>5. CASE clone_context
  <2>1. CASE InTheWay("shared") = {}
    <3> DEFINE f == [Frame("clone_context", {}) EXCEPT !.guard = "shared"]
    <3>1. /\ f \in Frames
          /\ f.site = "clone_context" /\ f.holds = {}
      BY DEF Frame, Frames, Sites, Calling, Guards
    <3>2. /\ stack' = Append(stack, f) /\ UNCHANGED <<parked, failed>>
          /\ Top.site \in Calling
      BY <1>5, <2>1, <1>t DEF clone_context
    <3> HIDE DEF f
    <3>3. Untouched("clone_context") = {}
      BY DEF Untouched
    <3> QED BY <3>1, <3>2, <3>3, <1>0, <1>t, PushStep DEF BorrowInv
  <2>2. CASE InTheWay("shared") # {}
    <3>1. Panic("clone_context", InTheWay("shared"))
      BY <1>5, <2>2 DEF clone_context
    <3>2. failed'.callee = "clone_context" /\ failed'.blame \subseteq UserCode
      BY <3>1, GuardingFacts DEF Panic, BorrowInv
    <3>3. OnlyUserCallsFail'
      BY <3>2 DEF OnlyUserCallsFail
    <3> QED BY <3>1, <3>3, PanicStep
  <2> QED BY <2>1, <2>2
<1>6. CASE poll
  <2> DEFINE f == [Frame("task", {}) EXCEPT !.guard = parked]
  <2>1. /\ f \in Frames
        /\ f.site = "task" /\ f.holds = {}
    BY <1>t DEF Frame, Frames, Sites, Calling, UserCode
  <2>2. /\ stack' = Append(stack, f) /\ parked' \in Guards /\ failed' = failed
        /\ Top.site = "owner" /\ Top.site \in Calling
    BY <1>6 DEF poll, Guards, Calling
  <2> HIDE DEF f
  <2>3. Untouched("task") = Untouched("owner")
    BY DEF Untouched
  <2> QED BY <2>1, <2>2, <2>3, <1>0, PushStep DEF BorrowInv
<1>7. CASE await
  <2>1. Len(stack) > 1
    BY <1>7, <1>t DEF await, Top, BorrowInv, FramesOK
  <2> QED BY <1>7, <2>1, <1>0, <1>t, PopStep DEF await, BorrowInv
<1>8. CASE UNCHANGED vars
  BY <1>8 DEF vars, BorrowInv, FramesOK, BorrowsApart, OnlyUserCallsFail
<1> QED BY <1>1, <1>2, <1>3, <1>4, <1>5, <1>6, <1>7, <1>8 DEF Next

\* Inside the owner's code, a behavior or a local task, however deep the calls,
\* the reconciler is not borrowed: post, request_transition, stop_task and
\* start_task of a local task never panic there.
THEOREM StagingAlwaysFree == Spec => []BehaviorsCanStage
<1>1. BorrowInv => BehaviorsCanStage
  <2> SUFFICES ASSUME BorrowInv, Top.site \in {"owner", "behavior", "task"}
               PROVE  Holders({"reconciler"}) = {}
    BY DEF BehaviorsCanStage
  <2>1. Len(stack) \in DOMAIN stack /\ 1 .. Len(stack) = DOMAIN stack
    BY DEF BorrowInv, FramesOK
  <2>2. "reconciler" \in Untouched(stack[Len(stack)].site)
    BY DEF Top, Untouched, Cells
  <2> QED BY <2>1, <2>2 DEF BorrowInv, BorrowsApart, Holders
<1> QED BY <1>1, InitBorrows, StepKeepsBorrows, PTL DEF Spec

\* A borrow that panics is one that user code asked for by staging, emitting,
\* starting a send task or borrowing the context, and the cell was held by
\* the calls that the property names: no borrow that advance_with, commit,
\* drain or a consumer makes by itself ever conflicts, at any depth.
THEOREM OnlyUserCallsEverFail == Spec => []OnlyUserCallsFail
<1>1. BorrowInv => OnlyUserCallsFail
  BY DEF BorrowInv
<1> QED BY <1>1, InitBorrows, StepKeepsBorrows, PTL DEF Spec
=============================================================================
