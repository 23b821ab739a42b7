---------------------------- MODULE StatusGraphs ----------------------------
(***************************************************************************)
(* The status enumerations and the four transition graphs of               *)
(* constants/status.go.  A graph is the set of its edges; a status without *)
(* an outgoing edge is terminal.                                           *)
(***************************************************************************)
ReservoirState    == {"normal", "warning", "critical", "restricted"}
GateState         == {"open", "closed", "moving", "locked"}
DirectiveState    == {"draft", "pending", "approved", "executing",
                      "completed", "aborted"}
ConfirmationState == {"pending", "confirmed", "failed", "cancelled"}

\* The gate positions a directive may ask for (dto: oneof=open closed locked).
GateGoal == {"open", "closed", "locked"}

ReservoirTransitions ==
    { <<"normal", "warning">>,      <<"normal", "critical">>,
      <<"warning", "critical">>,    <<"warning", "restricted">>,
      <<"warning", "normal">>,      <<"critical", "restricted">>,
      <<"critical", "warning">>,    <<"restricted", "critical">> }

GateUnitTransitions ==
    { <<"open", "moving">>,   <<"open", "locked">>,
      <<"closed", "moving">>, <<"closed", "locked">>,
      <<"moving", "open">>,   <<"moving", "closed">>, <<"moving", "locked">>,
      <<"locked", "closed">> }

OperationDirectiveTransitions ==
    { <<"draft", "pending">>,
      <<"pending", "approved">>,    <<"pending", "aborted">>,
      <<"approved", "executing">>,  <<"approved", "aborted">>,
      <<"executing", "completed">>, <<"executing", "aborted">> }

ExecutionConfirmationTransitions ==
    { <<"pending", "confirmed">>, <<"pending", "failed">>,
      <<"failed", "cancelled">> }

CanTransition(graph, from, to) == <<from, to>> \in graph
=============================================================================
