--------------------- MODULE ExecutionConfirmationService ---------------------
(***************************************************************************)
(* service/execution_confirmation.go: the receipt of an execution.  One    *)
(* transition settles the receipt, its directive and its gate.             *)
(***************************************************************************)
EXTENDS Store

ConfirmationEntity(c) == <<"ExecutionConfirmation", c>>
OnlyConfirmations == UNCHANGED <<reservoirs, gates, directives, approvals>>

\* requireExecutingDirective
Executing(directive) == Live(directive) /\ directive.status = "executing"

ReadDirectiveToCreateConfirmation(w, d) ==
    /\ IsIdle(w) /\ Editors # {} /\ Executing(directives[d])
    /\ Serve(w, [Idle EXCEPT !.pc = "conf_count", !.dir = directives[d]])
    /\ UNCHANGED <<tables, approvals, audit>>

\* CountByDirectiveCode sees live rows only.
CountConfirmations(w) ==
    /\ At(w, "conf_count")
    /\ \A c \in Confirmations :
           ~(Live(confirmations[c]) /\ confirmations[c].directive = req[w].dir.code)
    /\ Serve(w, [req[w] EXCEPT !.pc = "conf_create"])
    /\ UNCHANGED <<tables, approvals, audit>>

\* Faulty variant: no unique index on related_code, the count has to do.
CreateConfirmationUnindexed(w, c) ==
    /\ At(w, "conf_create") /\ confirmations[c] = NoRow
    /\ confirmations' = [confirmations EXCEPT ![c] =
           [code |-> c, status |-> "pending", version |-> 1, deleted |-> FALSE,
            directive |-> req[w].dir.code]]
    /\ audit' = Logged(audit, ConfirmationEntity(c), "", "pending")
    /\ Answer(w) /\ OnlyConfirmations

\* The unique index on related_code sees the soft-deleted rows as well.
CreateConfirmation(w, c) ==
    /\ At(w, "conf_create") /\ confirmations[c] = NoRow
    /\ \A other \in Confirmations :
           confirmations[other] # NoRow
               => confirmations[other].directive # req[w].dir.code
    /\ confirmations' = [confirmations EXCEPT ![c] =
           [code |-> c, status |-> "pending", version |-> 1, deleted |-> FALSE,
            directive |-> req[w].dir.code]]
    /\ audit' = Logged(audit, ConfirmationEntity(c), "", "pending")
    /\ Answer(w) /\ OnlyConfirmations

ReadConfirmationToUpdate(w, c) ==
    /\ IsIdle(w) /\ Editors # {}
    /\ Live(confirmations[c]) /\ confirmations[c].status = "pending"
    /\ \E e \in ExpectedVersions(confirmations[c]) :
           Serve(w, [Idle EXCEPT !.pc = "conf_update", !.expected = e,
                                 !.conf = confirmations[c]])
    /\ UNCHANGED <<tables, approvals, audit>>

ReadDirectiveToUpdateConfirmation(w) ==
    /\ At(w, "conf_update")
    /\ LET directive == directives[req[w].conf.directive] IN
       /\ Executing(directive)
       /\ Serve(w, [req[w] EXCEPT !.pc = "conf_update_commit", !.dir = directive])
    /\ UNCHANGED <<tables, approvals, audit>>

WithDirective(row, directive, version) ==
    [row EXCEPT !.directive = directive, !.version = version]

UpdateConfirmation(w) ==
    /\ At(w, "conf_update_commit")
    /\ LET item == req[w].conf  c == item.code IN
       /\ Matches(confirmations[c], req[w].expected)
       /\ confirmations' = [confirmations EXCEPT ![c] =
              WithDirective(item, req[w].dir.code, req[w].expected + 1)]
       /\ audit' = Logged(audit, ConfirmationEntity(c), item.status, item.status)
    /\ Answer(w) /\ OnlyConfirmations

-----------------------------------------------------------------------------

\* A pending receipt also needs its directive and the directive's gate.
ReadConfirmationToTransition(w, c) ==
    /\ IsIdle(w) /\ Editors # {} /\ Live(confirmations[c])
    /\ \E e \in ExpectedVersions(confirmations[c]), to \in ConfirmationState :
           /\ CanTransition(ExecutionConfirmationTransitions,
                            confirmations[c].status, to)
           /\ Serve(w, [Idle EXCEPT
                  !.pc = IF confirmations[c].status = "pending"
                         THEN "conf_dir" ELSE "conf_close",
                  !.expected = e, !.target = to, !.conf = confirmations[c]])
    /\ UNCHANGED <<tables, approvals, audit>>

ReadDirectiveForConfirmation(w) ==
    /\ At(w, "conf_dir")
    /\ LET directive == directives[req[w].conf.directive] IN
       /\ Executing(directive) /\ Bounded(directive)
       /\ Serve(w, [req[w] EXCEPT !.pc = "conf_gate", !.dir = directive])
    /\ UNCHANGED <<tables, approvals, audit>>

\* directiveTarget and gateTarget of an outcome.
DirectiveOutcome(target) == IF target = "confirmed" THEN "completed" ELSE "aborted"
GateOutcome(target, directive) ==
    IF target = "confirmed" THEN directive.goal ELSE "locked"

\* Faulty variant: the gate's own graph is not consulted.
ReadGateForConfirmationFreely(w) ==
    /\ At(w, "conf_gate")
    /\ LET gate == gates[req[w].dir.gate] IN
       /\ Live(gate) /\ Bounded(gate)
       /\ Serve(w, [req[w] EXCEPT !.pc = "conf_settle", !.gate = gate])
    /\ UNCHANGED <<tables, approvals, audit>>

ReadGateForConfirmation(w) ==
    /\ At(w, "conf_gate")
    /\ LET gate == gates[req[w].dir.gate]
           to == GateOutcome(req[w].target, req[w].dir) IN
       /\ Live(gate) /\ Bounded(gate)
       /\ gate.status = to \/ CanTransition(GateUnitTransitions, gate.status, to)
       /\ Serve(w, [req[w] EXCEPT !.pc = "conf_settle", !.gate = gate])
    /\ UNCHANGED <<tables, approvals, audit>>

\* Faulty variant: the error of the gate's update is dropped.
SettleConfirmationUnchecked(w) ==
    /\ At(w, "conf_settle")
    /\ LET item == req[w].conf   c == item.code   to == req[w].target
           directive == req[w].dir  d == directive.code
           gate == req[w].gate      g == gate.code
           position == GateOutcome(to, directive) IN
       /\ Matches(confirmations[c], req[w].expected)
       /\ Matches(directives[d], directive.version)
       /\ confirmations' = [confirmations EXCEPT ![c] =
              WithStatus(item, to, req[w].expected + 1)]
       /\ directives' = [directives EXCEPT ![d] =
              WithStatus(directive, DirectiveOutcome(to), directive.version + 1)]
       /\ gates' = IF gate.status # position /\ Matches(gates[g], gate.version)
                   THEN [gates EXCEPT ![g] = WithStatus(gate, position, gate.version + 1)]
                   ELSE gates
    /\ Answer(w) /\ UNCHANGED <<reservoirs, approvals, audit>>

\* The receipt on the client's version, the directive on the version that was
\* read, and the gate likewise unless the copy already shows its target.
SettleConfirmation(w) ==
    /\ At(w, "conf_settle")
    /\ LET item == req[w].conf   c == item.code   to == req[w].target
           directive == req[w].dir  d == directive.code
           gate == req[w].gate      g == gate.code
           outcome == DirectiveOutcome(to)
           position == GateOutcome(to, directive)
           log == Logged(Logged(audit, ConfirmationEntity(c), item.status, to),
                         <<"OperationDirective", d>>, directive.status, outcome) IN
       /\ Matches(confirmations[c], req[w].expected)
       /\ Matches(directives[d], directive.version)
       /\ confirmations' = [confirmations EXCEPT ![c] =
              WithStatus(item, to, req[w].expected + 1)]
       /\ directives' = [directives EXCEPT ![d] =
              WithStatus(directive, outcome, directive.version + 1)]
       /\ \/ gate.status = position /\ UNCHANGED gates /\ audit' = log
          \/ /\ gate.status # position
             /\ Matches(gates[g], gate.version)
             /\ gates' = [gates EXCEPT ![g] =
                    WithStatus(gate, position, gate.version + 1)]
             /\ audit' = Logged(log, <<"GateUnit", g>>, gate.status, position)
    /\ Answer(w) /\ UNCHANGED <<reservoirs, approvals>>

\* failed -> cancelled touches the receipt alone.
CloseConfirmation(w) ==
    /\ At(w, "conf_close")
    /\ LET item == req[w].conf  c == item.code IN
       /\ Matches(confirmations[c], req[w].expected)
       /\ confirmations' = [confirmations EXCEPT ![c] =
              WithStatus(item, req[w].target, req[w].expected + 1)]
       /\ audit' = Logged(audit, ConfirmationEntity(c), item.status, req[w].target)
    /\ Answer(w) /\ OnlyConfirmations

-----------------------------------------------------------------------------

ReadConfirmationToDelete(w, c) ==
    /\ IsIdle(w) /\ Admins # {}
    /\ Live(confirmations[c]) /\ confirmations[c].status = "pending"
    /\ Serve(w, [Idle EXCEPT !.pc = "conf_delete", !.conf = confirmations[c]])
    /\ UNCHANGED <<tables, approvals, audit>>

DeleteConfirmation(w) ==
    /\ At(w, "conf_delete")
    /\ LET item == req[w].conf  c == item.code IN
       /\ Live(confirmations[c])
       /\ confirmations' = [confirmations EXCEPT ![c] = SoftDeleted(@)]
       /\ audit' = Logged(audit, ConfirmationEntity(c), item.status, "deleted")
    /\ Answer(w) /\ OnlyConfirmations

ConfirmationNext(w) ==
    \/ \E d \in Directives : ReadDirectiveToCreateConfirmation(w, d)
    \/ CountConfirmations(w)
    \/ \E c \in Confirmations : \/ CreateConfirmation(w, c)
                                \/ ReadConfirmationToUpdate(w, c)
                                \/ ReadConfirmationToTransition(w, c)
                                \/ ReadConfirmationToDelete(w, c)
    \/ ReadDirectiveToUpdateConfirmation(w)
    \/ UpdateConfirmation(w)
    \/ ReadDirectiveForConfirmation(w)
    \/ ReadGateForConfirmation(w)
    \/ SettleConfirmation(w)
    \/ CloseConfirmation(w)
    \/ DeleteConfirmation(w)
=============================================================================
