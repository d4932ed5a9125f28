-------------------------------- MODULE Lookup --------------------------------
(***************************************************************************)
(* maokai-tree, payloads: DataView and the optional feature `lookup', a    *)
(* depth-first search that ticks off a data set with a bit mask.           *)
(*                                                                         *)
(* A mask is the set of the positions whose bit is set.                    *)
(***************************************************************************)
EXTENDS StateTree

CONSTANTS
  Payloads,
  Width,             \* bits of a mask (64)
  Overflow,          \* what `1 << Width' does: "panic" (debug) or "wrap"
  MaxData            \* bound: length of a data set

NoData == "none"     \* what `nil' carries
Panicked == "panicked"

ASSUME LookupAssumption ==
  /\ NoData \notin Payloads
  /\ Width \in Nat \ {0} /\ MaxData \in 0 .. Width
  /\ Overflow \in {"panic", "wrap"}

VARIABLE data        \* the payload of each state

get_data(s) == data[s]

\* Payloads from the root down to s; a state without any is passed over.
travel(s) ==
  LET p == path_rev_iter(arena, s)
      here(i) == get_data(p[Len(p) + 1 - i])
      down[i \in 0 .. Len(p)] ==
        IF i = 0 THEN << >>
        ELSE down[i - 1] \o (IF here(i) = NoData THEN << >> ELSE <<here(i)>>)
  IN  down[Len(p)]

children_of(s) == {c \in States(arena) : parent_of(arena, c) = s}

\* (mutant) a node ticks off every position that asks for its payload.
TickAll(dataset, unmatched, d) == {i \in unmatched : dataset[i] # d}

\* A node ticks off the first open position that asks for its payload.
Tick(dataset, unmatched, d) ==
  LET hits == {i \in unmatched : dataset[i] = d}
  IN  IF hits = {} THEN unmatched ELSE unmatched \ {Min(hits)}

\* Children are visited in the order they were added, which is that of ids.
dfs(dataset, start, mask) ==
  LET visit[s \in States(arena)] ==
        [unmatched \in SUBSET DOMAIN dataset |->
           LET rest == Tick(dataset, unmatched, get_data(s))
               hits == {c \in children_of(s) : visit[c][rest] # NoState}
           IN  IF rest = {} THEN s
               ELSE IF hits = {} THEN NoState ELSE visit[Min(hits)][rest]]
  IN  visit[start][mask]

\* (1u64 << len) - 1: the shift by the whole width overflows; where it wraps,
\* it shifts by nothing.
FullMask(n) == IF n < Width THEN 1 .. n ELSE {}

lookup(dataset) ==
  IF Len(dataset) = Width /\ Overflow = "panic" THEN Panicked
  ELSE dfs(dataset, root, FullMask(Len(dataset)))

-----------------------------------------------------------------------------
DataInit == Init /\ \E d \in Payloads : data = <<d, NoData>>

\* StateTree::add_child with its payload.
add(p, d) == add_child(p) /\ data' = Append(data, d)

DataNext ==
  /\ Len(arena) < MaxNodes
  /\ \E p \in States(arena), d \in Payloads : add(p, d)

DataSpec == DataInit /\ [][DataNext]_<<arena, data>>

-----------------------------------------------------------------------------
DataSets == UNION {[1 .. n -> Payloads] : n \in 0 .. MaxData}

Count(s, d) == Cardinality({i \in DOMAIN s : s[i] = d})

\* The path from the root to s has every payload as often as the data set.
Carries(s, dataset) ==
  \A d \in Payloads : Count(travel(s), d) >= Count(dataset, d)

\* s comes before u in a walk that visits parents first, children in order.
Precedes(s, u) ==
  \/ s \in Ancestors(arena, u)
  \/ /\ u \notin Ancestors(arena, s)
     /\ LET tr == propose_transition(arena, s, u)
        IN  tr.exit[Len(tr.exit)] < tr.enter[1]

\* lookup finds a state whose branch carries the data set, repetitions
\* included, if there is one, and of all such states the first in the walk;
\* for every data set that it accepts ("dataset length must be <= 64").
LookupExact ==
  \A dataset \in DataSets :
    LET found == lookup(dataset)
        candidates == {s \in States(arena) \ {nil} : Carries(s, dataset)}
    IN  IF candidates = {} THEN found = NoState
        ELSE found \in candidates /\ \A s \in candidates : Precedes(found, s)

=============================================================================
