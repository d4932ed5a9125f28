------------------------------ MODULE MCRegistry ------------------------------
(***************************************************************************)
(* ConsumerRegistry for TLC.  Two types as the machine's own operations    *)
(* with their consumers, one of which is routed a third type as well, as   *)
(* the two task consumers share StopTaskOp.                                *)
(***************************************************************************)
EXTENDS ConsumerRegistry

MCTypes == {"Event", "Start", "Stop"}
MCDefaults == << <<"Event">>, <<"Start", "Stop">> >>
MCLists == {<<t>> : t \in MCTypes} \cup
           {<<"Start", "Stop">>, <<"Stop", "Event">>, <<"Stop", "Stop">>}

\* Conversions without a circle.
MCConverts == {<<"Start", "Event">>, <<"Stop", "Start">>}

=============================================================================
