--------------------------- MODULE ReservoirService ---------------------------
(* service/reservoir.go: create, update, transition and delete a reservoir. *)
EXTENDS Store

ReservoirFrame == UNCHANGED <<gates, directives, confirmations, approvals>>
ReservoirEntity(r) == <<"Reservoir", r>>

\* Create reads nothing: one insert and its audit entry.
CreateReservoir(w, r) ==
    /\ IsIdle(w) /\ Editors # {} /\ reservoirs[r] = NoRow
    /\ \E f \in Facilities :
           reservoirs' = [reservoirs EXCEPT ![r] =
               [code |-> r, status |-> "normal", version |-> 1,
                deleted |-> FALSE, facility |-> f]]
    /\ audit' = Logged(audit, ReservoirEntity(r), "", "normal")
    /\ UNCHANGED req /\ ReservoirFrame

ReadReservoirToUpdate(w, r) ==
    /\ IsIdle(w) /\ Editors # {} /\ Live(reservoirs[r])
    /\ \E e \in ExpectedVersions(reservoirs[r]) :
           Serve(w, [Idle EXCEPT !.pc = "res_update", !.expected = e,
                                 !.res = reservoirs[r]])
    /\ UNCHANGED <<tables, approvals, audit>>

\* Faulty variant: the edit leaves the version as it was.
UpdateReservoirKeepsVersion(w) ==
    /\ At(w, "res_update")
    /\ LET item == req[w].res  r == item.code IN
       /\ Matches(reservoirs[r], req[w].expected)
       /\ \E f \in Facilities :
              reservoirs' = [reservoirs EXCEPT ![r] = [item EXCEPT !.facility = f]]
       /\ audit' = Logged(audit, ReservoirEntity(r), item.status, item.status)
    /\ Answer(w) /\ ReservoirFrame

\* The facility is free text: the gates of the reservoir are not looked at.
UpdateReservoir(w) ==
    /\ At(w, "res_update")
    /\ LET item == req[w].res  r == item.code IN
       /\ Matches(reservoirs[r], req[w].expected)
       /\ \E f \in Facilities :
              reservoirs' = [reservoirs EXCEPT ![r] =
                  WithFacility(item, f, req[w].expected + 1)]
       /\ audit' = Logged(audit, ReservoirEntity(r), item.status, item.status)
    /\ Answer(w) /\ ReservoirFrame

\* Faulty variant: any status may follow any other.
ReadReservoirToTransitionFreely(w, r) ==
    /\ IsIdle(w) /\ Editors # {} /\ Live(reservoirs[r])
    /\ \E e \in ExpectedVersions(reservoirs[r]), to \in ReservoirState :
           Serve(w, [Idle EXCEPT !.pc = "res_transition", !.expected = e,
                                 !.target = to, !.res = reservoirs[r]])
    /\ UNCHANGED <<tables, approvals, audit>>

ReadReservoirToTransition(w, r) ==
    /\ IsIdle(w) /\ Editors # {} /\ Live(reservoirs[r])
    /\ \E e \in ExpectedVersions(reservoirs[r]), to \in ReservoirState :
           /\ CanTransition(ReservoirTransitions, reservoirs[r].status, to)
           /\ Serve(w, [Idle EXCEPT !.pc = "res_transition", !.expected = e,
                                    !.target = to, !.res = reservoirs[r]])
    /\ UNCHANGED <<tables, approvals, audit>>

\* Faulty variant: the update does not test the version.
TransitionReservoirUntested(w) ==
    /\ At(w, "res_transition")
    /\ LET item == req[w].res  r == item.code IN
       /\ Live(reservoirs[r])
       /\ reservoirs' = [reservoirs EXCEPT ![r] =
              WithStatus(item, req[w].target, req[w].expected + 1)]
       /\ audit' = Logged(audit, ReservoirEntity(r), item.status, req[w].target)
    /\ Answer(w) /\ ReservoirFrame

TransitionReservoir(w) ==
    /\ At(w, "res_transition")
    /\ LET item == req[w].res  r == item.code IN
       /\ Matches(reservoirs[r], req[w].expected)
       /\ reservoirs' = [reservoirs EXCEPT ![r] =
              WithStatus(item, req[w].target, req[w].expected + 1)]
       /\ audit' = Logged(audit, ReservoirEntity(r), item.status, req[w].target)
    /\ Answer(w) /\ ReservoirFrame

ReadReservoirToDelete(w, r) ==
    /\ IsIdle(w) /\ Admins # {} /\ Live(reservoirs[r])
    /\ Serve(w, [Idle EXCEPT !.pc = "res_delete", !.res = reservoirs[r]])
    /\ UNCHANGED <<tables, approvals, audit>>

\* No gate is asked whether it still refers to the reservoir.
DeleteReservoir(w) ==
    /\ At(w, "res_delete")
    /\ LET item == req[w].res  r == item.code IN
       /\ Live(reservoirs[r])
       /\ reservoirs' = [reservoirs EXCEPT ![r] = SoftDeleted(@)]
       /\ audit' = Logged(audit, ReservoirEntity(r), item.status, "deleted")
    /\ Answer(w) /\ ReservoirFrame

ReservoirNext(w) ==
    \/ \E r \in Reservoirs : \/ CreateReservoir(w, r)
                             \/ ReadReservoirToUpdate(w, r)
                             \/ ReadReservoirToTransition(w, r)
                             \/ ReadReservoirToDelete(w, r)
    \/ UpdateReservoir(w)
    \/ TransitionReservoir(w)
    \/ DeleteReservoir(w)
=============================================================================
