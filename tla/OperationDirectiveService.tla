----------------------- MODULE OperationDirectiveService -----------------------
(***************************************************************************)
(* service/operation_directive.go: the dispatch permit.  Operators draft,  *)
(* submit and execute it, a second account approves it, and starting or    *)
(* aborting the execution moves or locks the gate in the same transaction. *)
(***************************************************************************)
EXTENDS Store

DirectiveFrame == UNCHANGED <<reservoirs, confirmations>>
DirectiveEntity(d) == <<"OperationDirective", d>>

\* Create: the linked gate must be live, unlocked and of input.Facility.
ReadGateToCreateDirective(w, g) ==
    /\ IsIdle(w) /\ Editors # {}
    /\ Live(gates[g]) /\ gates[g].status # "locked"
    /\ Serve(w, [Idle EXCEPT !.pc = "dir_create", !.gate = gates[g]])
    /\ UNCHANGED <<tables, approvals, audit>>

CreateDirective(w, d) ==
    /\ At(w, "dir_create") /\ directives[d] = NoRow
    /\ \E goal \in Goals :
           directives' = [directives EXCEPT ![d] =
               [code |-> d, status |-> "draft", version |-> 1, deleted |-> FALSE,
                gate |-> req[w].gate.code, goal |-> goal,
                facility |-> req[w].gate.facility,
                submittedBy |-> NoUser, approvedBy |-> NoUser]]
    /\ audit' = Logged(audit, DirectiveEntity(d), "", "draft")
    /\ Answer(w) /\ DirectiveFrame /\ UNCHANGED <<gates, approvals>>

\* Faulty variant: a directive is edited whatever its status.
ReadAnyDirectiveToUpdate(w, d) ==
    /\ IsIdle(w) /\ Editors # {} /\ Live(directives[d])
    /\ \E e \in ExpectedVersions(directives[d]) :
           Serve(w, [Idle EXCEPT !.pc = "dir_update", !.expected = e,
                                 !.dir = directives[d]])
    /\ UNCHANGED <<tables, approvals, audit>>

ReadDirectiveToUpdate(w, d) ==
    /\ IsIdle(w) /\ Editors # {}
    /\ Live(directives[d]) /\ directives[d].status = "draft"
    /\ \E e \in ExpectedVersions(directives[d]) :
           Serve(w, [Idle EXCEPT !.pc = "dir_update", !.expected = e,
                                 !.dir = directives[d]])
    /\ UNCHANGED <<tables, approvals, audit>>

ReadGateToUpdateDirective(w, g) ==
    /\ At(w, "dir_update")
    /\ Live(gates[g]) /\ gates[g].status # "locked"
    /\ Serve(w, [req[w] EXCEPT !.pc = "dir_update_commit", !.gate = gates[g]])
    /\ UNCHANGED <<tables, approvals, audit>>

\* The draft after the edit: on this gate, with this goal.
Edited(item, gate, goal, version) ==
    [item EXCEPT !.gate = gate.code, !.goal = goal, !.facility = gate.facility,
                 !.version = version]

\* Every column is written back from the copy, the status among them.
UpdateDirective(w) ==
    /\ At(w, "dir_update_commit")
    /\ LET item == req[w].dir  d == item.code IN
       /\ Matches(directives[d], req[w].expected)
       /\ \E goal \in Goals :
              directives' = [directives EXCEPT ![d] =
                  Edited(item, req[w].gate, goal, req[w].expected + 1)]
       /\ audit' = Logged(audit, DirectiveEntity(d), item.status, item.status)
    /\ Answer(w) /\ DirectiveFrame /\ UNCHANGED <<gates, approvals>>

-----------------------------------------------------------------------------

DirectiveRoleAllowed(target, role) ==
    \/ target = "pending"   /\ role \in {"operator", "admin"}
    \/ target = "approved"  /\ role \in {"reviewer", "admin"}
    \/ target = "executing" /\ role \in {"operator", "admin"}
    \/ target = "aborted"   /\ role \in {"operator", "reviewer", "admin"}

\* Faulty variant: the names are compared letter by letter.
TwoNamesRule(item, target, user) ==
    target = "approved" => item.submittedBy \notin {NoUser, user}

\* The account that submitted the directive may not approve it.
TwoPersonRule(item, target, user) ==
    target = "approved" => item.submittedBy # NoUser
                           /\ ~SameUser(item.submittedBy, user)

\* The targets for which the handler reads the linked gate as well.
NeedsGate(item, target) ==
    \/ target = "executing"
    \/ target = "aborted" /\ item.status = "executing"

ReadDirectiveToTransition(w, d) ==
    /\ IsIdle(w) /\ Live(directives[d])
    /\ \E p \in Principals, e \in ExpectedVersions(directives[d]),
          to \in DirectiveState \ {"completed"} :
           /\ CanTransition(OperationDirectiveTransitions, directives[d].status, to)
           /\ DirectiveRoleAllowed(to, p.role)
           /\ TwoPersonRule(directives[d], to, p.user)
           /\ Serve(w, [Idle EXCEPT
                  !.pc = IF NeedsGate(directives[d], to) THEN "dir_gate"
                                                         ELSE "dir_transition",
                  !.actor = p.user, !.expected = e, !.target = to,
                  !.dir = directives[d]])
    /\ UNCHANGED <<tables, approvals, audit>>

\* gateTarget: where the gate goes with the directive; "" leaves it alone.
GateTarget(item, target, gate) ==
    IF target = "aborted" THEN "locked"
    ELSE IF gate.status # item.goal THEN "moving" ELSE ""

ReadGateForDirective(w) ==
    /\ At(w, "dir_gate")
    /\ LET item == req[w].dir  gate == gates[item.gate]
           to == GateTarget(item, req[w].target, gate) IN
       /\ Live(gate)
       /\ req[w].target = "executing" => gate.status # "locked"
       /\ to \in {"", gate.status} \/ CanTransition(GateUnitTransitions, gate.status, to)
       /\ to # "" => Bounded(gate)
       /\ Serve(w, [req[w] EXCEPT !.pc = "dir_transition", !.gate = gate])
    /\ UNCHANGED <<tables, approvals, audit>>

\* Faulty variant: the version column is forgotten.
SignedKeepsVersion(item, target, user, version) ==
    LET moved == WithStatus(item, target, item.version) IN
    CASE target = "pending"  -> [moved EXCEPT !.submittedBy = user]
      [] target = "approved" -> [moved EXCEPT !.approvedBy = user]
      [] OTHER -> moved

\* The directive with its new status and, when it is signed, its signature.
Signed(item, target, user, version) ==
    LET moved == WithStatus(item, target, version) IN
    CASE target = "pending"  -> [moved EXCEPT !.submittedBy = user]
      [] target = "approved" -> [moved EXCEPT !.approvedBy = user]
      [] OTHER -> moved

\* The insert into directive_approvals; (directive_id, stage) is unique.
RecordApproval(d, target, user) ==
    CASE target = "pending" ->
             /\ approvals[d].submitted = NoUser
             /\ approvals' = [approvals EXCEPT ![d].submitted = user]
      [] target = "approved" ->
             /\ approvals[d].approved = NoUser
             /\ approvals' = [approvals EXCEPT ![d].approved = user]
      [] OTHER -> UNCHANGED approvals

\* Faulty variants: the gate is written although it has nowhere to go; its
\* version is not tested.
MoveGateAnyway(gate, to, log) ==
    IF gate = NoRow THEN UNCHANGED gates /\ audit' = log
    ELSE /\ Matches(gates[gate.code], gate.version)
         /\ gates' = [gates EXCEPT ![gate.code] =
                WithStatus(gate, to, gate.version + 1)]
         /\ audit' = log

MoveGateUntested(gate, to, log) ==
    IF gate = NoRow \/ to \in {"", gate.status}
    THEN UNCHANGED gates /\ audit' = log
    ELSE /\ Live(gates[gate.code])
         /\ gates' = [gates EXCEPT ![gate.code] =
                WithStatus(gate, to, gate.version + 1)]
         /\ audit' = Logged(log, <<"GateUnit", gate.code>>, gate.status, to)

\* The gate is updated on the version the handler read, and only when the
\* copy says it has to change.
MoveGate(gate, to, log) ==
    IF gate = NoRow \/ to \in {"", gate.status}
    THEN UNCHANGED gates /\ audit' = log
    ELSE /\ Matches(gates[gate.code], gate.version)
         /\ gates' = [gates EXCEPT ![gate.code] =
                WithStatus(gate, to, gate.version + 1)]
         /\ audit' = Logged(log, <<"GateUnit", gate.code>>, gate.status, to)

TransitionDirective(w) ==
    /\ At(w, "dir_transition")
    /\ LET item == req[w].dir  d == item.code
           to == req[w].target  gate == req[w].gate IN
       /\ Matches(directives[d], req[w].expected)
       /\ directives' = [directives EXCEPT ![d] =
              Signed(item, to, req[w].actor, req[w].expected + 1)]
       /\ RecordApproval(d, to, req[w].actor)
       /\ MoveGate(gate, IF gate = NoRow THEN "" ELSE GateTarget(item, to, gate),
                   Logged(audit, DirectiveEntity(d), item.status, to))
    /\ Answer(w) /\ DirectiveFrame

-----------------------------------------------------------------------------

ReadDirectiveToDelete(w, d) ==
    /\ IsIdle(w) /\ Admins # {}
    /\ Live(directives[d]) /\ directives[d].status = "draft"
    /\ Serve(w, [Idle EXCEPT !.pc = "dir_delete", !.dir = directives[d]])
    /\ UNCHANGED <<tables, approvals, audit>>

DeleteDirective(w) ==
    /\ At(w, "dir_delete")
    /\ LET item == req[w].dir  d == item.code IN
       /\ Live(directives[d])
       /\ directives' = [directives EXCEPT ![d] = SoftDeleted(@)]
       /\ audit' = Logged(audit, DirectiveEntity(d), item.status, "deleted")
    /\ Answer(w) /\ DirectiveFrame /\ UNCHANGED <<gates, approvals>>

DirectiveNext(w) ==
    \/ \E g \in Gates : \/ ReadGateToCreateDirective(w, g)
                        \/ ReadGateToUpdateDirective(w, g)
    \/ \E d \in Directives : \/ CreateDirective(w, d)
                             \/ ReadDirectiveToUpdate(w, d)
                             \/ ReadDirectiveToTransition(w, d)
                             \/ ReadDirectiveToDelete(w, d)
    \/ UpdateDirective(w)
    \/ ReadGateForDirective(w)
    \/ TransitionDirective(w)
    \/ DeleteDirective(w)
=============================================================================
