------------------------------ MODULE MCMachine ------------------------------
(***************************************************************************)
(* Instances of Machine for TLC.                                           *)
(***************************************************************************)
EXTENDS Machine

OnlyDefault == {PriorityArbiter}

\* The default, "the first request stays" and "the last one wins".
ThreeArbiters == {PriorityArbiter, {}, Requests \X Requests}

=============================================================================
