----------------------------- MODULE MCTaskScope -----------------------------
(***************************************************************************)
(* TaskScope for TLC: root, nil, `working' with a child, and `idle'.       *)
(***************************************************************************)
EXTENDS TaskScope

MCTree == <<0, 0, 1, 3, 1>>
MCTargets == 2 .. 5 \cup {1}
MCScoped == {3, 4}
MCArbiters == {PriorityArbiter}

=============================================================================
