-------------------------------- MODULE Store --------------------------------
(***************************************************************************)
(* The database the four services share, as repository/ uses it, and the   *)
(* requests in flight.                                                     *)
(*                                                                         *)
(* A table is a function from codes to rows; NoRow is a code that was      *)
(* never inserted.  Codes carry a unique index that also counts the        *)
(* soft-deleted rows, so a deleted row stays in its table for ever.        *)
(*                                                                         *)
(* A handler reads its records first, each read a step of its own, checks  *)
(* the copies, and then commits everything it writes in ONE transaction.   *)
(* `req' holds, per worker, where its handler is and the copies it read.   *)
(***************************************************************************)
EXTENDS Integers, FiniteSets, StatusGraphs

CONSTANTS Reservoirs, Gates, Directives, Confirmations, \* codes, per table
          Facilities,   \* facility names, already folded by strings.EqualFold
          Users,        \* account names
          Fold,         \* case folding of an account name
          Principals,   \* the accounts with their roles
          Goals,        \* gate positions the directives of a run ask for
          Services,     \* the services that receive requests in a run
          Workers,      \* requests that may be in flight at once
          MaxVersion,   \* bound: no row is written beyond this version
          Lag,          \* bound: how far a client's expectedVersion is behind
          Lead,         \* 0: clients send versions they have read; 1: guesses
          NoRow, NoUser

VARIABLES reservoirs, gates, directives, confirmations,
          approvals,  \* directive -> who signed each stage (unique per stage)
          audit,      \* entity -> its latest audit entry
          req         \* worker -> the request it serves

tables == <<reservoirs, gates, directives, confirmations>>
vars   == <<reservoirs, gates, directives, confirmations, approvals, audit, req>>

-----------------------------------------------------------------------------
(* Rows: the columns the services read back or the properties talk about.  *)

ReservoirRow == [code : Reservoirs, status : ReservoirState, version : Nat,
                 deleted : BOOLEAN, facility : Facilities]
GateRow == [code : Gates, status : GateState, version : Nat,
            deleted : BOOLEAN, reservoir : Reservoirs, facility : Facilities]
DirectiveRow ==
    [code : Directives, status : DirectiveState, version : Nat,
     deleted : BOOLEAN, gate : Gates, goal : Goals, facility : Facilities,
     submittedBy : Users \cup {NoUser}, approvedBy : Users \cup {NoUser}]
ConfirmationRow ==
    [code : Confirmations, status : ConfirmationState, version : Nat,
     deleted : BOOLEAN, directive : Directives]

ASSUME StoreAssumption ==
    /\ Fold \in [Users -> Users]
    /\ \A p \in Principals :
           /\ p.user \in Users
           /\ p.role \in {"viewer", "operator", "reviewer", "admin"}
    /\ MaxVersion \in Nat /\ Lag \in Nat /\ Lead \in Nat
    /\ Goals \subseteq GateGoal
    /\ NoUser \notin Users
    /\ NoRow \notin ReservoirRow \cup GateRow \cup DirectiveRow \cup ConfirmationRow

\* The rows a query finds: gorm adds deleted_at IS NULL to every one.
Live(row) == row # NoRow /\ ~row.deleted

\* Faulty variant: the update finds its row by id alone.
MatchesById(row, version) == Live(row)

\* UPDATE ... WHERE id = ? AND version = ? hits its row.
Matches(row, version) == Live(row) /\ row.version = version

\* The copy as it is written back with a new status, or a new facility.
WithStatus(row, status, version) ==
    [row EXCEPT !.status = status, !.version = version]
WithFacility(row, facility, version) ==
    [row EXCEPT !.facility = facility, !.version = version]

\* DELETE of a soft-deleted model: no condition on version or status.
SoftDeleted(row) == [row EXCEPT !.deleted = TRUE]

-----------------------------------------------------------------------------
(* Evidence.                                                               *)

Entities == {<<"Reservoir", r>> : r \in Reservoirs}
            \cup {<<"GateUnit", g>> : g \in Gates}
            \cup {<<"OperationDirective", d>> : d \in Directives}
            \cup {<<"ExecutionConfirmation", c>> : c \in Confirmations}

AnyStatus == ReservoirState \cup GateState \cup DirectiveState
             \cup ConfirmationState \cup {"", "deleted"}

\* AppendAudit; the log is cut to the latest entry of each entity.
Logged(log, entity, from, to) ==
    [log EXCEPT ![entity] = [before |-> from, after |-> to]]

NoApproval == [submitted |-> NoUser, approved |-> NoUser]

-----------------------------------------------------------------------------
(* Requests.                                                               *)

SameUser(u, v) == Fold[u] = Fold[v]          \* strings.EqualFold
Editors == {p \in Principals : p.role \in {"operator", "admin"}}
Admins  == {p \in Principals : p.role = "admin"}

\* What a client may send as expectedVersion when the handler finds row.
\* With Lead = 0 it is a version the client has read; nothing in the handler
\* compares it with the version of the copy it works on.
ExpectedVersions(row) ==
    {e \in 1 .. (MaxVersion - 1) : e <= row.version + Lead /\ row.version <= e + Lag}

\* The bound on the rows whose version a handler increments itself.
Bounded(row) == row.version < MaxVersion

Idle == [pc |-> "idle", actor |-> NoUser, expected |-> 0, target |-> "",
         res |-> NoRow, gate |-> NoRow, dir |-> NoRow, conf |-> NoRow]

IsIdle(w) == req[w].pc = "idle"
At(w, pc) == req[w].pc = pc

\* The worker goes on with the request, or has answered it.
Serve(w, request) == req' = [req EXCEPT ![w] = request]
Answer(w)         == req' = [req EXCEPT ![w] = Idle]

\* A request ends without effect: a check fails, the row is gone or changed
\* (ErrVersionConflict), a unique index refuses the insert, the caller goes
\* away, or the process stops; the transaction, if one was open, rolls back.
Fail(w) == /\ ~IsIdle(w)
           /\ Answer(w)
           /\ UNCHANGED <<tables, approvals, audit>>
=============================================================================
