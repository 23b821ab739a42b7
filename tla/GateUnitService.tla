--------------------------- MODULE GateUnitService ---------------------------
(* service/gate_unit.go: a gate hangs on a live reservoir of its facility. *)
EXTENDS Store

GateFrame == UNCHANGED <<reservoirs, directives, confirmations, approvals>>
GateEntity(g) == <<"GateUnit", g>>

ReadReservoirToCreateGate(w, r) ==
    /\ IsIdle(w) /\ Editors # {} /\ Live(reservoirs[r])
    /\ Serve(w, [Idle EXCEPT !.pc = "gate_create", !.res = reservoirs[r]])
    /\ UNCHANGED <<tables, approvals, audit>>

\* input.Facility must equal the facility the copy of the reservoir shows.
CreateGate(w, g) ==
    /\ At(w, "gate_create") /\ gates[g] = NoRow
    /\ gates' = [gates EXCEPT ![g] =
           [code |-> g, status |-> "open", version |-> 1, deleted |-> FALSE,
            reservoir |-> req[w].res.code, facility |-> req[w].res.facility]]
    /\ audit' = Logged(audit, GateEntity(g), "", "open")
    /\ Answer(w) /\ GateFrame

ReadGateToUpdate(w, g) ==
    /\ IsIdle(w) /\ Editors # {} /\ Live(gates[g])
    /\ \E e \in ExpectedVersions(gates[g]) :
           Serve(w, [Idle EXCEPT !.pc = "gate_update", !.expected = e,
                                 !.gate = gates[g]])
    /\ UNCHANGED <<tables, approvals, audit>>

ReadReservoirToUpdateGate(w) ==
    /\ At(w, "gate_update")
    /\ LET r == req[w].gate.reservoir IN
       /\ Live(reservoirs[r])
       /\ Serve(w, [req[w] EXCEPT !.pc = "gate_update_commit",
                                  !.res = reservoirs[r]])
    /\ UNCHANGED <<tables, approvals, audit>>

UpdateGate(w) ==
    /\ At(w, "gate_update_commit")
    /\ LET item == req[w].gate  g == item.code IN
       /\ Matches(gates[g], req[w].expected)
       /\ gates' = [gates EXCEPT ![g] =
              WithFacility(item, req[w].res.facility, req[w].expected + 1)]
       /\ audit' = Logged(audit, GateEntity(g), item.status, item.status)
    /\ Answer(w) /\ GateFrame

ReadGateToTransition(w, g) ==
    /\ IsIdle(w) /\ Editors # {} /\ Live(gates[g])
    /\ \E e \in ExpectedVersions(gates[g]), to \in GateState :
           /\ CanTransition(GateUnitTransitions, gates[g].status, to)
           /\ Serve(w, [Idle EXCEPT !.pc = "gate_transition", !.expected = e,
                                    !.target = to, !.gate = gates[g]])
    /\ UNCHANGED <<tables, approvals, audit>>

TransitionGate(w) ==
    /\ At(w, "gate_transition")
    /\ LET item == req[w].gate  g == item.code IN
       /\ Matches(gates[g], req[w].expected)
       /\ gates' = [gates EXCEPT ![g] =
              WithStatus(item, req[w].target, req[w].expected + 1)]
       /\ audit' = Logged(audit, GateEntity(g), item.status, req[w].target)
    /\ Answer(w) /\ GateFrame

ReadGateToDelete(w, g) ==
    /\ IsIdle(w) /\ Admins # {} /\ Live(gates[g])
    /\ Serve(w, [Idle EXCEPT !.pc = "gate_delete", !.gate = gates[g]])
    /\ UNCHANGED <<tables, approvals, audit>>

\* No directive is asked whether it still refers to the gate.
DeleteGate(w) ==
    /\ At(w, "gate_delete")
    /\ LET item == req[w].gate  g == item.code IN
       /\ Live(gates[g])
       /\ gates' = [gates EXCEPT ![g] = SoftDeleted(@)]
       /\ audit' = Logged(audit, GateEntity(g), item.status, "deleted")
    /\ Answer(w) /\ GateFrame

GateNext(w) ==
    \/ \E r \in Reservoirs : ReadReservoirToCreateGate(w, r)
    \/ \E g \in Gates : \/ CreateGate(w, g)
                        \/ ReadGateToUpdate(w, g)
                        \/ ReadGateToTransition(w, g)
                        \/ ReadGateToDelete(w, g)
    \/ ReadReservoirToUpdateGate(w)
    \/ UpdateGate(w)
    \/ TransitionGate(w)
    \/ DeleteGate(w)
=============================================================================
