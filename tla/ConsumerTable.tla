---------------------------- MODULE ConsumerTable ----------------------------
(***************************************************************************)
(* What the consumer registry of a machine promises: for every type of     *)
(* operation a list of consumers, in the order in which they were set,     *)
(* until remove_consumer forgets the list.  There are no slots here.       *)
(***************************************************************************)
EXTENDS Naturals, Sequences

CONSTANT Types

VARIABLES
  table,             \* type -> list of consumers, which are numbers
  made,              \* consumers set so far
  returned           \* what the last remove_consumer gave back

Users(c) == {t \in Types : \E i \in DOMAIN table[t] : table[t][i] = c}

Repeated(c, n) == [i \in 1 .. n |-> c]

\* A consumer may be named for a type more than once.
set_consumer ==
  /\ made' = made + 1
  /\ \E count \in {[t \in Types |-> Len(table'[t]) - Len(table[t])]} :
       table' = [t \in Types |-> table[t] \o Repeated(made', count[t])]
  /\ UNCHANGED returned

\* A consumer is given back when no list names it any more.
remove_consumer ==
  \E S \in SUBSET Types :
    /\ table' = [t \in Types |-> IF t \in S THEN << >> ELSE table[t]]
    /\ returned' = {c \in 1 .. made : Users(c) # {} /\ Users(c) \subseteq S}
    /\ UNCHANGED made

clear_consumers == table' = [t \in Types |-> << >>] /\ UNCHANGED <<made, returned>>

Init == table = [t \in Types |-> << >>] /\ made = 0 /\ returned = {}

Next == set_consumer \/ remove_consumer \/ clear_consumers

Spec == Init /\ [][Next]_<<table, made, returned>>

=============================================================================
