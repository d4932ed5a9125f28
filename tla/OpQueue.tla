------------------------------- MODULE OpQueue -------------------------------
(***************************************************************************)
(* What a reconciler promises its callers: a queue ordered by priority and *)
(* among equals by the time of staging, which commit takes as a whole and  *)
(* hands out front to back.  An operation that a rule puts into the pool   *)
(* itself (RuleOp) may stand anywhere among its equals.                    *)
(***************************************************************************)
EXTENDS Naturals, SequencesExt

CONSTANT RuleOp

VARIABLES queue, out     \* sequences of [op, priority]

Ordered(q) == \A i, j \in DOMAIN q : i < j => q[i].priority >= q[j].priority

\* The queue, or what is left when the place of a rule's operation is given up.
Places == {queue} \cup
  {RemoveAt(queue, i) : i \in {j \in DOMAIN queue : queue[j].op = RuleOp}}

\* Behind everything of the same or of a higher priority.
Enqueue ==
  \E i \in DOMAIN queue' :
    /\ queue'[i].op # RuleOp
    /\ RemoveAt(queue', i) \in Places
    /\ \A j \in i + 1 .. Len(queue') : queue'[j].priority < queue'[i].priority
    /\ UNCHANGED out

Slip ==
  \E i \in DOMAIN queue' :
    queue'[i].op = RuleOp /\ RemoveAt(queue', i) = queue /\ UNCHANGED out

Substitute ==
  \E i \in DOMAIN queue : queue' = [queue EXCEPT ![i].op = RuleOp] /\ UNCHANGED out

Withdraw ==
  \E i \in DOMAIN queue : queue' = RemoveAt(queue, i) /\ UNCHANGED out

Clear == queue' = << >> /\ UNCHANGED out

Take == out = << >> /\ out' = queue /\ queue' = << >>

HandOut == out # << >> /\ out' = Tail(out) /\ UNCHANGED queue

\* The receiver panics: the rest is dropped.
Abandon == out' = << >> /\ UNCHANGED queue

Init == queue = << >> /\ out = << >>

Next ==
  /\ \/ Enqueue \/ Slip \/ Substitute \/ Withdraw \/ Clear
     \/ Take \/ HandOut \/ Abandon
  /\ Ordered(queue')

Spec == Init /\ [][Next]_<<queue, out>>

=============================================================================
