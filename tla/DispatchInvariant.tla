--------------------------- MODULE DispatchInvariant ---------------------------
(***************************************************************************)
(* The inductive strengthening behind the safety properties of Dispatch:   *)
(* what is true of the copies that requests carry while they interleave.   *)
(***************************************************************************)
EXTENDS Dispatch

\* The steps at which a request holds a copy of a row of each table, and those
\* that will update the row of the copy on the client's expectedVersion.
ResHeld  == {"res_update", "res_transition", "res_delete", "gate_create",
             "gate_update_commit"}
GateHeld == {"gate_update", "gate_update_commit", "gate_transition",
             "gate_delete", "dir_create", "dir_update_commit", "conf_settle"}
DirHeld  == {"dir_update", "dir_update_commit", "dir_gate", "dir_transition",
             "dir_delete", "conf_count", "conf_create", "conf_update_commit",
             "conf_gate", "conf_settle"}
ConfHeld == {"conf_update", "conf_update_commit", "conf_dir", "conf_gate",
             "conf_settle", "conf_close", "conf_delete"}
ResCAS  == {"res_update", "res_transition"}
GateCAS == {"gate_update", "gate_update_commit", "gate_transition"}
DirCAS  == {"dir_update", "dir_update_commit", "dir_gate", "dir_transition"}
ConfCAS == ConfHeld \ {"conf_delete"}

\* A copy and the row it was read from: the row's version never falls below
\* the copy's, and at the copy's version the row is the copy, deleted or not.
Faithful(copy, row) ==
    /\ row # NoRow /\ ~copy.deleted
    /\ copy.version <= row.version
    /\ copy.version = row.version => row \in {copy, SoftDeleted(copy)}

\* Each copy a request carries is faithful to the row of its table.
Copied(r, ReservoirTable, GateTable, DirectiveTable, ConfirmationTable) ==
    /\ r.res # NoRow => Faithful(r.res, ReservoirTable[r.res.code])
    /\ r.gate # NoRow => Faithful(r.gate, GateTable[r.gate.code])
    /\ r.dir # NoRow => Faithful(r.dir, DirectiveTable[r.dir.code])
    /\ r.conf # NoRow => Faithful(r.conf, ConfirmationTable[r.conf.code])

\* A handler that needs a copy has one, and the version its client sent is not
\* beyond the version of the copy it will write back.
Held(r) ==
    /\ r.pc \in ResHeld => r.res # NoRow
    /\ r.pc \in GateHeld => r.gate # NoRow
    /\ r.pc \in DirHeld => r.dir # NoRow
    /\ r.pc \in ConfHeld => r.conf # NoRow
    /\ r.pc \in ResCAS => r.expected <= r.res.version
    /\ r.pc \in GateCAS => r.expected <= r.gate.version
    /\ r.pc \in DirCAS => r.expected <= r.dir.version
    /\ r.pc \in ConfCAS => r.expected <= r.conf.version

\* The move of the gate that a directive or a receipt carries is legal for the
\* copy of the gate, which is the copy of the directive's gate.
LegalGateMove(item, gate, to) ==
    /\ gate.code = item.gate
    /\ to \in {"", gate.status} \/ CanTransition(GateUnitTransitions, gate.status, to)

\* What a handler checked of its copies stays true of the copies.
Checked(r) ==
    /\ r.pc = "res_transition" =>
           CanTransition(ReservoirTransitions, r.res.status, r.target)
    /\ r.pc = "gate_transition" =>
           CanTransition(GateUnitTransitions, r.gate.status, r.target)
    /\ r.pc \in {"dir_update", "dir_update_commit"} => r.dir.status = "draft"
    /\ r.pc \in {"dir_gate", "dir_transition"} =>
           /\ CanTransition(OperationDirectiveTransitions, r.dir.status, r.target)
           /\ r.target # "completed" /\ r.actor \in Users
           /\ TwoPersonRule(r.dir, r.target, r.actor)
    /\ r.pc \in {"dir_gate", "dir_transition"} /\ NeedsGate(r.dir, r.target)
       /\ r.gate # NoRow => LegalGateMove(r.dir, r.gate,
                                GateTarget(r.dir, r.target, r.gate))
    /\ r.pc = "dir_gate" => r.gate = NoRow /\ NeedsGate(r.dir, r.target)
    /\ r.pc = "dir_transition" =>
           (r.gate # NoRow <=> NeedsGate(r.dir, r.target))
    /\ r.pc \in {"conf_count", "conf_create"} => r.dir.status = "executing"
    /\ r.pc = "conf_update_commit" => r.dir.code = r.conf.directive
    /\ r.pc \in {"conf_dir", "conf_gate", "conf_settle"} =>
           r.conf.status = "pending" /\ r.target \in {"confirmed", "failed"}
    /\ r.pc \in {"conf_gate", "conf_settle"} =>
           r.dir.status = "executing" /\ r.dir.code = r.conf.directive
    /\ r.pc = "conf_settle" =>
           LegalGateMove(r.dir, r.gate, GateOutcome(r.target, r.dir))
    /\ r.pc = "conf_close" => r.conf.status = "failed" /\ r.target = "cancelled"

\* The core: types, and requests with faithful, complete and checked copies.
CoreInv ==
    /\ TypeOK
    /\ \A w \in Workers :
           /\ Copied(req[w], reservoirs, gates, directives, confirmations)
           /\ Held(req[w])
           /\ Checked(req[w])

\* What one step may do to one row: nothing, insert it, write it with a later
\* version and a status its graph allows, or soft-delete it.
RowStep(old, new, graph) ==
    \/ new = old
    \/ old = NoRow /\ new # NoRow /\ ~new.deleted
    \/ /\ Live(old) /\ new # NoRow /\ old.version < new.version
       /\ new.status = old.status \/ CanTransition(graph, old.status, new.status)
    \/ Live(old) /\ new = SoftDeleted(old)

\* Every row takes a row step, and what was signed is kept.
RowSteps ==
    /\ \A r \in Reservoirs :
           RowStep(reservoirs[r], reservoirs'[r], ReservoirTransitions)
    /\ \A g \in Gates : RowStep(gates[g], gates'[g], GateUnitTransitions)
    /\ \A d \in Directives :
           /\ RowStep(directives[d], directives'[d], OperationDirectiveTransitions)
           /\ SignedKept(directives[d], directives'[d])
    /\ \A c \in Confirmations :
           RowStep(confirmations[c], confirmations'[c], ExecutionConfirmationTransitions)

\* A directive and its approval rows carry the same signatures, as many as its
\* status needs; a code never used has no approval rows.
Signatures(row, approval) ==
    /\ row = NoRow => approval = NoApproval
    /\ row # NoRow =>
           /\ approval.submitted = row.submittedBy
           /\ approval.approved = row.approvedBy
           /\ row.status # "draft" => row.submittedBy # NoUser
           /\ row.status \in {"approved", "executing", "completed"} =>
                  /\ row.approvedBy # NoUser
                  /\ ~SameUser(row.submittedBy, row.approvedBy)

SignedInv == CoreInv /\ \A d \in Directives : Signatures(directives[d], approvals[d])

\* Once executing, a directive was never anything but executing or finished.
ExecutionKept ==
    \A w \in Workers :
        req[w].dir # NoRow /\ req[w].dir.status = "executing"
            => directives[req[w].dir.code].status \in {"executing", "completed", "aborted"}

OneReceipt ==
    \A b, c \in Confirmations :
        b # c /\ confirmations[b] # NoRow /\ confirmations[c] # NoRow
            => confirmations[b].directive # confirmations[c].directive

ReceiptInv == CoreInv /\ ExecutionKept /\ OneReceipt /\ ReceiptAgreement
=============================================================================
