----------------------------- MODULE DispatchProofs -----------------------------
(***************************************************************************)
(* Theorems about Dispatch, for every set of codes, accounts and workers.  *)
(***************************************************************************)
EXTENDS DispatchPermit, TLAPS

AnyRow == ReservoirRow \cup GateRow \cup DirectiveRow \cup ConfirmationRow

\* A soft-deleted row is a row of the same table at the same version; deleting
\* it again changes nothing (repository/base.go 112-121).
LEMMA SoftDeletedRow ==
    ASSUME NEW row \in AnyRow
    PROVE  /\ SoftDeleted(row) \in AnyRow
           /\ SoftDeleted(row).deleted
           /\ SoftDeleted(row).version = row.version
           /\ SoftDeleted(row).code = row.code
           /\ SoftDeleted(row).status = row.status
           /\ SoftDeleted(SoftDeleted(row)) = SoftDeleted(row)
BY DEF AnyRow, ReservoirRow, GateRow, DirectiveRow, ConfirmationRow, SoftDeleted

\* A copy stays faithful to its row whatever one step does to the row.
LEMMA FaithfulKept ==
    ASSUME NEW copy \in AnyRow, NEW old \in AnyRow \cup {NoRow},
           NEW new \in AnyRow \cup {NoRow}, NEW graph,
           Faithful(copy, old), RowStep(old, new, graph)
    PROVE  Faithful(copy, new)
<1>1. copy.version \in Nat /\ (old # NoRow => old.version \in Nat)
      /\ (new # NoRow => new.version \in Nat)
  BY DEF AnyRow, ReservoirRow, GateRow, DirectiveRow, ConfirmationRow
<1>2. CASE new = old
  BY <1>2
<1>3. CASE Live(old) /\ new # NoRow /\ old.version < new.version
  BY <1>1, <1>3 DEF Faithful
<1>4. CASE Live(old) /\ new = SoftDeleted(old)
  <2>1. new # NoRow /\ new.version = old.version
    BY <1>4, SoftDeletedRow, StoreAssumption DEF Faithful, AnyRow
  <2>2. copy.version = old.version => old = copy
    BY <1>4, SoftDeletedRow DEF Faithful, Live
  <2>. QED
    BY <1>4, <2>1, <2>2 DEF Faithful
<1>. QED
  BY <1>2, <1>3, <1>4 DEF RowStep, Faithful

-----------------------------------------------------------------------------
(* Carrying the core invariant over a step of one worker.                  *)

\* An audit entry keeps the log typed.
LEMMA LoggedTyped ==
    ASSUME NEW log \in [Entities -> [before : AnyStatus, after : AnyStatus]],
           NEW entity, NEW from \in AnyStatus, NEW to \in AnyStatus
    PROVE  Logged(log, entity, from, to)
               \in [Entities -> [before : AnyStatus, after : AnyStatus]]
BY DEF Logged

\* The copies of any request stay faithful over row steps.
LEMMA CopiedKept ==
    ASSUME TablesOK, TablesOK', RowSteps, NEW q \in Request,
           Copied(q, reservoirs, gates, directives, confirmations)
    PROVE  Copied(q, reservoirs', gates', directives', confirmations')
<1>1. ASSUME q.res # NoRow
      PROVE  Faithful(q.res, reservoirs'[q.res.code])
  <2>. DEFINE r == q.res.code
  <2>1. q.res \in AnyRow /\ r \in Reservoirs
    BY <1>1 DEF Request, AnyRow, ReservoirRow
  <2>2. reservoirs[r] \in AnyRow \cup {NoRow} /\ reservoirs'[r] \in AnyRow \cup {NoRow}
    BY <2>1 DEF TablesOK, AnyRow
  <2>3. Faithful(q.res, reservoirs[r])
        /\ RowStep(reservoirs[r], reservoirs'[r], ReservoirTransitions)
    BY <1>1, <2>1 DEF Copied, RowSteps
  <2>. QED
    BY <2>1, <2>2, <2>3, FaithfulKept
<1>2. ASSUME q.gate # NoRow
      PROVE  Faithful(q.gate, gates'[q.gate.code])
  <2>. DEFINE g == q.gate.code
  <2>1. q.gate \in AnyRow /\ g \in Gates
    BY <1>2 DEF Request, AnyRow, GateRow
  <2>2. gates[g] \in AnyRow \cup {NoRow} /\ gates'[g] \in AnyRow \cup {NoRow}
    BY <2>1 DEF TablesOK, AnyRow
  <2>3. Faithful(q.gate, gates[g])
        /\ RowStep(gates[g], gates'[g], GateUnitTransitions)
    BY <1>2, <2>1 DEF Copied, RowSteps
  <2>. QED
    BY <2>1, <2>2, <2>3, FaithfulKept
<1>3. ASSUME q.dir # NoRow
      PROVE  Faithful(q.dir, directives'[q.dir.code])
  <2>. DEFINE d == q.dir.code
  <2>1. q.dir \in AnyRow /\ d \in Directives
    BY <1>3 DEF Request, AnyRow, DirectiveRow
  <2>2. directives[d] \in AnyRow \cup {NoRow} /\ directives'[d] \in AnyRow \cup {NoRow}
    BY <2>1 DEF TablesOK, AnyRow
  <2>3. Faithful(q.dir, directives[d])
        /\ RowStep(directives[d], directives'[d], OperationDirectiveTransitions)
    BY <1>3, <2>1 DEF Copied, RowSteps
  <2>. QED
    BY <2>1, <2>2, <2>3, FaithfulKept
<1>4. ASSUME q.conf # NoRow
      PROVE  Faithful(q.conf, confirmations'[q.conf.code])
  <2>. DEFINE c == q.conf.code
  <2>1. q.conf \in AnyRow /\ c \in Confirmations
    BY <1>4 DEF Request, AnyRow, ConfirmationRow
  <2>2. confirmations[c] \in AnyRow \cup {NoRow}
        /\ confirmations'[c] \in AnyRow \cup {NoRow}
    BY <2>1 DEF TablesOK, AnyRow
  <2>3. Faithful(q.conf, confirmations[c])
        /\ RowStep(confirmations[c], confirmations'[c], ExecutionConfirmationTransitions)
    BY <1>4, <2>1 DEF Copied, RowSteps
  <2>. QED
    BY <2>1, <2>2, <2>3, FaithfulKept
<1>. QED
  BY <1>1, <1>2, <1>3, <1>4 DEF Copied

\* An idle worker carries nothing.
LEMMA IdleGood ==
    /\ Idle \in Request /\ Held(Idle) /\ Checked(Idle)
    /\ \A R, G, D, C : Copied(Idle, R, G, D, C)
<1>1. Idle \in Request
  BY DEF Idle, Request, PC, AnyStatus
<1>2. Held(Idle) /\ Checked(Idle)
  BY DEF Idle, Held, Checked, ResHeld, GateHeld, DirHeld, ConfHeld, ResCAS,
         GateCAS, DirCAS, ConfCAS
<1>3. \A R, G, D, C : Copied(Idle, R, G, D, C)
  BY DEF Idle, Copied
<1>. QED
  BY <1>1, <1>2, <1>3

\* A step that commits (or fails) and leaves its worker idle.
LEMMA CommitCarries ==
    ASSUME CoreInv, NEW w \in Workers, Answer(w), TablesOK', RowSteps
    PROVE  CoreInv'
<1>1. req' = [req EXCEPT ![w] = Idle] /\ req \in [Workers -> Request] /\ TablesOK
  BY DEF Answer, CoreInv, TypeOK
<1>2. req' \in [Workers -> Request]
  BY <1>1, IdleGood
<1>3. ASSUME NEW v \in Workers
      PROVE  /\ Copied(req'[v], reservoirs', gates', directives', confirmations')
             /\ Held(req'[v]) /\ Checked(req'[v])
  <2>1. CASE v = w
    BY <1>1, <2>1, IdleGood
  <2>2. CASE v # w
    <3>1. req'[v] = req[v] /\ req[v] \in Request
      BY <1>1, <2>2
    <3>2. /\ Copied(req[v], reservoirs, gates, directives, confirmations)
          /\ Held(req[v]) /\ Checked(req[v])
      BY DEF CoreInv
    <3>3. Copied(req[v], reservoirs', gates', directives', confirmations')
      BY <1>1, <3>1, <3>2, CopiedKept
    <3>. QED
      BY <3>1, <3>2, <3>3
  <2>. QED
    BY <2>1, <2>2
<1>. QED
  BY <1>2, <1>3 DEF CoreInv, TypeOK

\* A step that only reads: the worker goes on with the request q.
LEMMA ReadCarries ==
    ASSUME CoreInv, NEW w \in Workers, NEW q, Serve(w, q),
           UNCHANGED <<tables, approvals, audit>>,
           q \in Request, Held(q), Checked(q),
           Copied(q, reservoirs, gates, directives, confirmations)
    PROVE  CoreInv'
<1>1. /\ req' = [req EXCEPT ![w] = q] /\ req \in [Workers -> Request] /\ TablesOK
      /\ reservoirs' = reservoirs /\ gates' = gates /\ directives' = directives
      /\ confirmations' = confirmations /\ approvals' = approvals /\ audit' = audit
  BY DEF Serve, CoreInv, TypeOK, tables
<1>2. TablesOK' /\ req' \in [Workers -> Request]
  BY <1>1 DEF TablesOK
<1>3. ASSUME NEW v \in Workers
      PROVE  /\ Copied(req'[v], reservoirs', gates', directives', confirmations')
             /\ Held(req'[v]) /\ Checked(req'[v])
  BY <1>1 DEF CoreInv
<1>. QED
  BY <1>2, <1>3 DEF CoreInv, TypeOK

\* The row a handler is about to update is the copy it holds, when the version
\* test of the update passes.
LEMMA CopyIsRow ==
    ASSUME NEW copy \in AnyRow, NEW row \in AnyRow \cup {NoRow}, NEW e \in Nat,
           Faithful(copy, row), e <= copy.version, Matches(row, e)
    PROVE  row = copy
<1>1. copy.version \in Nat /\ row.version \in Nat
  BY DEF AnyRow, ReservoirRow, GateRow, DirectiveRow, ConfirmationRow, Matches, Live
<1>2. copy.version = row.version
  BY <1>1 DEF Faithful, Matches
<1>. QED
  BY <1>2, SoftDeletedRow DEF Faithful, Matches, Live

\* A live row is a faithful copy of itself.
LEMMA LiveFaithful ==
    ASSUME NEW row \in AnyRow \cup {NoRow}, Live(row)
    PROVE  row \in AnyRow /\ Faithful(row, row)
<1>1. row \in AnyRow /\ row.version \in Nat
  BY DEF Live, AnyRow, ReservoirRow, GateRow, DirectiveRow, ConfirmationRow
<1>. QED
  BY <1>1 DEF Live, Faithful

-----------------------------------------------------------------------------
(* Rows written back from a copy are rows of their table.                  *)

\* An edit or a move of a reservoir row gives a row with the version the
\* update wrote and the status the request asked for.
LEMMA ReservoirRewritten ==
    ASSUME NEW item \in ReservoirRow, NEW v \in Nat
    PROVE  /\ \A f \in Facilities : LET new == WithFacility(item, f, v) IN
                  /\ new \in ReservoirRow /\ new.code = item.code
                  /\ new.status = item.status /\ new.version = v
           /\ \A s \in ReservoirState : LET new == WithStatus(item, s, v) IN
                  /\ new \in ReservoirRow /\ new.code = item.code
                  /\ new.status = s /\ new.version = v
BY DEF ReservoirRow, WithFacility, WithStatus

\* The same for a gate row: an edit keeps its status, a move sets it.
LEMMA GateRewritten ==
    ASSUME NEW item \in GateRow, NEW v \in Nat
    PROVE  /\ \A f \in Facilities : LET new == WithFacility(item, f, v) IN
                  /\ new \in GateRow /\ new.code = item.code
                  /\ new.status = item.status /\ new.version = v
           /\ \A s \in GateState : LET new == WithStatus(item, s, v) IN
                  /\ new \in GateRow /\ new.code = item.code
                  /\ new.status = s /\ new.version = v
BY DEF GateRow, WithFacility, WithStatus

\* The same for a receipt, which an edit ties to the directive it read.
LEMMA ConfirmationRewritten ==
    ASSUME NEW item \in ConfirmationRow, NEW v \in Nat
    PROVE  /\ \A d \in Directives : LET new == WithDirective(item, d, v) IN
                  /\ new \in ConfirmationRow /\ new.code = item.code
                  /\ new.status = item.status /\ new.version = v
                  /\ new.directive = d
           /\ \A s \in ConfirmationState : LET new == WithStatus(item, s, v) IN
                  /\ new \in ConfirmationRow /\ new.code = item.code
                  /\ new.status = s /\ new.version = v
                  /\ new.directive = item.directive
BY DEF ConfirmationRow, WithDirective, WithStatus

\* The edit of a draft gives a directive row that is as unsigned as the copy.
LEMMA DirectiveEdited ==
    ASSUME NEW item \in DirectiveRow, NEW v \in Nat, NEW gate \in GateRow,
           NEW goal \in Goals
    PROVE  LET new == Edited(item, gate, goal, v) IN
           /\ new \in DirectiveRow /\ new.code = item.code
           /\ new.status = item.status /\ new.version = v
           /\ new.submittedBy = item.submittedBy /\ new.approvedBy = item.approvedBy
<1>1. gate.code \in Gates /\ gate.facility \in Facilities
  BY DEF GateRow
<1>2. Edited(item, gate, goal, v) \in DirectiveRow
  BY <1>1 DEF DirectiveRow, Edited
<1>. QED
  BY <1>2 DEF DirectiveRow, Edited

\* A directive given a new status keeps its content and its signatures.
LEMMA DirectiveMoved ==
    ASSUME NEW item \in DirectiveRow, NEW v \in Nat, NEW s \in DirectiveState
    PROVE  LET new == WithStatus(item, s, v) IN
           /\ new \in DirectiveRow /\ new.code = item.code
           /\ new.status = s /\ new.version = v
           /\ new.gate = item.gate /\ new.goal = item.goal
           /\ new.facility = item.facility
           /\ new.submittedBy = item.submittedBy /\ new.approvedBy = item.approvedBy
<1>1. WithStatus(item, s, v) \in DirectiveRow
  BY DEF DirectiveRow, WithStatus
<1>. QED
  BY <1>1 DEF DirectiveRow, WithStatus

\* Signing a directive changes its status and version and the column of the
\* signature, nothing else (service/operation_directive.go 165-182).
LEMMA DirectiveSigned ==
    ASSUME NEW item \in DirectiveRow, NEW v \in Nat, NEW to \in DirectiveState,
           NEW user \in Users
    PROVE  LET new == Signed(item, to, user, v) IN
           /\ new \in DirectiveRow /\ new.code = item.code
           /\ new.status = to /\ new.version = v
           /\ new.gate = item.gate /\ new.goal = item.goal
           /\ new.facility = item.facility
           /\ new.submittedBy = IF to = "pending" THEN user ELSE item.submittedBy
           /\ new.approvedBy = IF to = "approved" THEN user ELSE item.approvedBy
<1>. DEFINE moved == WithStatus(item, to, v)
<1>1. /\ moved \in DirectiveRow /\ moved.code = item.code
      /\ moved.status = to /\ moved.version = v
      /\ moved.gate = item.gate /\ moved.goal = item.goal
      /\ moved.facility = item.facility
      /\ moved.submittedBy = item.submittedBy /\ moved.approvedBy = item.approvedBy
  BY DirectiveMoved
<1>2. CASE to = "pending"
  <2>1. Signed(item, to, user, v) = [moved EXCEPT !.submittedBy = user]
    BY <1>2 DEF Signed
  <2>. HIDE DEF moved
  <2>2. [moved EXCEPT !.submittedBy = user] \in DirectiveRow
    BY <1>1 DEF DirectiveRow
  <2>. QED
    BY <1>1, <1>2, <2>1, <2>2 DEF DirectiveRow
<1>3. CASE to = "approved"
  <2>1. Signed(item, to, user, v) = [moved EXCEPT !.approvedBy = user]
    BY <1>3 DEF Signed
  <2>. HIDE DEF moved
  <2>2. [moved EXCEPT !.approvedBy = user] \in DirectiveRow
    BY <1>1 DEF DirectiveRow
  <2>. QED
    BY <1>1, <1>3, <2>1, <2>2 DEF DirectiveRow
<1>4. CASE to \notin {"pending", "approved"}
  BY <1>1, <1>4 DEF Signed
<1>. QED
  BY <1>2, <1>3, <1>4

-----------------------------------------------------------------------------
(* The reservoir service.                                                  *)

\* The reads that begin a request of the reservoir service.
LEMMA ReservoirReads ==
    ASSUME CoreInv, Lead = 0, NEW w \in Workers, NEW r \in Reservoirs,
           \/ ReadReservoirToUpdate(w, r)
           \/ ReadReservoirToTransition(w, r)
           \/ ReadReservoirToDelete(w, r)
    PROVE  CoreInv'
<1>. DEFINE row == reservoirs[r]
<1>1. Live(row) /\ row \in ReservoirRow /\ row.code = r /\ Faithful(row, row)
  <2>1. row \in ReservoirRow \cup {NoRow} /\ Live(row) /\ (row # NoRow => row.code = r)
    BY DEF CoreInv, TypeOK, TablesOK, ReadReservoirToUpdate,
           ReadReservoirToTransition, ReadReservoirToDelete
  <2>. QED
    BY <2>1, LiveFaithful DEF Live, AnyRow
<1>2. CASE ReadReservoirToUpdate(w, r)
  <2>1. PICK e \in ExpectedVersions(row) :
            Serve(w, [Idle EXCEPT !.pc = "res_update", !.expected = e, !.res = row])
    BY <1>2 DEF ReadReservoirToUpdate
  <2>. DEFINE q == [Idle EXCEPT !.pc = "res_update", !.expected = e, !.res = row]
  <2>2. e \in Nat /\ e <= row.version
    BY <1>1, <2>1, StoreAssumption DEF ExpectedVersions, ReservoirRow
  <2>3. q \in Request /\ Held(q) /\ Checked(q)
        /\ Copied(q, reservoirs, gates, directives, confirmations)
    BY <1>1, <2>2 DEF Idle, Request, PC, AnyStatus, Live, Held, Checked, Copied, ResHeld,
       GateHeld, DirHeld, ConfHeld, ResCAS, GateCAS, DirCAS, ConfCAS
  <2>. HIDE DEF q
  <2>. QED
    BY <1>2, <2>1, <2>3, ReadCarries DEF ReadReservoirToUpdate, q
<1>3. CASE ReadReservoirToTransition(w, r)
  <2>1. PICK e \in ExpectedVersions(row), to \in ReservoirState :
            /\ CanTransition(ReservoirTransitions, row.status, to)
            /\ Serve(w, [Idle EXCEPT !.pc = "res_transition", !.expected = e,
                                     !.target = to, !.res = row])
    BY <1>3 DEF ReadReservoirToTransition
  <2>. DEFINE q == [Idle EXCEPT !.pc = "res_transition", !.expected = e,
                                !.target = to, !.res = row]
  <2>2. e \in Nat /\ e <= row.version
    BY <1>1, <2>1, StoreAssumption DEF ExpectedVersions, ReservoirRow
  <2>3. q \in Request /\ Held(q) /\ Checked(q)
        /\ Copied(q, reservoirs, gates, directives, confirmations)
    BY <1>1, <2>1, <2>2 DEF Idle, Request, PC, AnyStatus, Live, Held, Checked, Copied, ResHeld,
       GateHeld, DirHeld, ConfHeld, ResCAS, GateCAS, DirCAS, ConfCAS
  <2>. HIDE DEF q
  <2>. QED
    BY <1>3, <2>1, <2>3, ReadCarries DEF ReadReservoirToTransition, q
<1>4. CASE ReadReservoirToDelete(w, r)
  <2>. DEFINE q == [Idle EXCEPT !.pc = "res_delete", !.res = row]
  <2>1. q \in Request /\ Held(q) /\ Checked(q)
        /\ Copied(q, reservoirs, gates, directives, confirmations)
    BY <1>1 DEF Idle, Request, PC, AnyStatus, Live, Held, Checked, Copied, ResHeld,
       GateHeld, DirHeld, ConfHeld, ResCAS, GateCAS, DirCAS, ConfCAS
  <2>. HIDE DEF q
  <2>. QED
    BY <1>4, <2>1, ReadCarries DEF ReadReservoirToDelete, q
<1>. QED
  BY <1>2, <1>3, <1>4

\* What writes to the reservoirs leaves: TablesOK and RowSteps follow from what
\* happens to the one row written.
LEMMA ReservoirWrite ==
    ASSUME CoreInv, NEW r \in Reservoirs, NEW new \in ReservoirRow,
           reservoirs' = [reservoirs EXCEPT ![r] = new], new.code = r,
           RowStep(reservoirs[r], new, ReservoirTransitions),
           NEW from \in AnyStatus, NEW to \in AnyStatus,
           audit' = Logged(audit, ReservoirEntity(r), from, to), ReservoirFrame
    PROVE  TablesOK' /\ RowSteps
<1>1. audit' \in [Entities -> [before : AnyStatus, after : AnyStatus]]
  BY LoggedTyped DEF CoreInv, TypeOK, TablesOK
<1>2. TablesOK'
  BY <1>1 DEF CoreInv, TypeOK, TablesOK, ReservoirFrame
<1>3. RowSteps
  BY DEF CoreInv, TypeOK, TablesOK, RowSteps, RowStep, SignedKept, ReservoirFrame
<1>. QED
  BY <1>2, <1>3

\* The commits of the reservoir service: edit, move, delete.
LEMMA ReservoirCommits ==
    ASSUME CoreInv, NEW w \in Workers,
           \/ UpdateReservoir(w) \/ TransitionReservoir(w) \/ DeleteReservoir(w)
    PROVE  CoreInv' /\ RowSteps
<1>. DEFINE item == req[w].res
            r == item.code
            v == req[w].expected + 1
<1>1. /\ item \in ReservoirRow /\ r \in Reservoirs /\ Faithful(item, reservoirs[r])
      /\ req[w].expected \in Nat /\ reservoirs[r] \in ReservoirRow
      /\ reservoirs[r].code = r /\ Answer(w)
  <2>1. req[w] \in Request /\ item # NoRow
    BY DEF CoreInv, TypeOK, Held, ResHeld, UpdateReservoir, TransitionReservoir,
           DeleteReservoir, At
  <2>2. item \in ReservoirRow /\ r \in Reservoirs /\ req[w].expected \in Nat
    BY <2>1 DEF Request, ReservoirRow
  <2>3. Faithful(item, reservoirs[r])
    BY <2>1 DEF CoreInv, Copied
  <2>. QED
    BY <2>2, <2>3 DEF CoreInv, TypeOK, TablesOK, Faithful, UpdateReservoir,
       TransitionReservoir, DeleteReservoir
<1>2. ASSUME req[w].expected <= item.version, Matches(reservoirs[r], req[w].expected)
      PROVE  reservoirs[r] = item /\ Live(item) /\ v = item.version + 1
             /\ item.version \in Nat
  BY <1>1, <1>2, CopyIsRow DEF AnyRow, Matches
<1>3. CASE UpdateReservoir(w)
  <2>1. PICK f \in Facilities :
            reservoirs' = [reservoirs EXCEPT ![r] = WithFacility(item, f, v)]
    BY <1>3 DEF UpdateReservoir
  <2>. DEFINE new == WithFacility(item, f, v)
  <2>2. reservoirs[r] = item /\ Live(item) /\ v = item.version + 1 /\ item.version \in Nat
    BY <1>1, <1>2, <1>3 DEF UpdateReservoir, CoreInv, Held, ResCAS, At
  <2>3. /\ new \in ReservoirRow /\ new.code = r
        /\ RowStep(reservoirs[r], new, ReservoirTransitions)
    <3>1. /\ new \in ReservoirRow /\ new.code = r
          /\ new.status = item.status /\ new.version = v
      <4>. v \in Nat
        BY <1>1
      <4>. HIDE DEF item, v
      <4>. QED
        BY <1>1, ReservoirRewritten
    <3>. HIDE DEF new
    <3>. QED
      BY <2>2, <3>1, StoreAssumption DEF RowStep
  <2>4. TablesOK' /\ RowSteps
    BY <1>1, <1>3, <2>1, <2>3, ReservoirWrite DEF UpdateReservoir, ReservoirRow, AnyStatus
  <2>. QED
    BY <1>1, <2>4, CommitCarries
<1>4. CASE TransitionReservoir(w)
  <2>. DEFINE new == WithStatus(item, req[w].target, v)
  <2>1. CanTransition(ReservoirTransitions, item.status, req[w].target)
    BY <1>4 DEF TransitionReservoir, CoreInv, Checked, At
  <2>2. reservoirs[r] = item /\ Live(item) /\ v = item.version + 1 /\ item.version \in Nat
    BY <1>1, <1>2, <1>4 DEF TransitionReservoir, CoreInv, Held, ResCAS, At
  <2>3. req[w].target \in ReservoirState
    BY <2>1 DEF CanTransition, ReservoirTransitions, ReservoirState
  <2>4. /\ new \in ReservoirRow /\ new.code = r
        /\ RowStep(reservoirs[r], new, ReservoirTransitions)
    <3>1. /\ new \in ReservoirRow /\ new.code = r
          /\ new.status = req[w].target /\ new.version = v
      <4>. v \in Nat
        BY <1>1
      <4>. HIDE DEF item, v
      <4>. QED
        BY <1>1, <2>3, ReservoirRewritten
    <3>. HIDE DEF new
    <3>. QED
      BY <2>1, <2>2, <3>1, StoreAssumption DEF RowStep
  <2>5. TablesOK' /\ RowSteps
    BY <1>1, <1>4, <2>3, <2>4, ReservoirWrite
       DEF TransitionReservoir, ReservoirRow, AnyStatus
  <2>. QED
    BY <1>1, <2>5, CommitCarries
<1>5. CASE DeleteReservoir(w)
  <2>1. Live(reservoirs[r]) /\ SoftDeleted(reservoirs[r]) \in ReservoirRow
        /\ SoftDeleted(reservoirs[r]).code = r
    BY <1>1, <1>5 DEF DeleteReservoir, SoftDeleted, ReservoirRow
  <2>2. TablesOK' /\ RowSteps
    BY <1>1, <1>5, <2>1, ReservoirWrite
       DEF DeleteReservoir, ReservoirRow, AnyStatus, RowStep
  <2>. QED
    BY <1>1, <2>2, CommitCarries
<1>. QED
  BY <1>3, <1>4, <1>5

\* Creating a reservoir is one step and leaves the requests alone.
LEMMA ReservoirCreate ==
    ASSUME CoreInv, NEW w \in Workers, NEW r \in Reservoirs, CreateReservoir(w, r)
    PROVE  CoreInv' /\ RowSteps
<1>1. PICK f \in Facilities :
          reservoirs' = [reservoirs EXCEPT ![r] =
              [code |-> r, status |-> "normal", version |-> 1,
               deleted |-> FALSE, facility |-> f]]
  BY DEF CreateReservoir
<1>. DEFINE new == [code |-> r, status |-> "normal", version |-> 1,
                    deleted |-> FALSE, facility |-> f]
<1>2. /\ new \in ReservoirRow /\ new.code = r
      /\ RowStep(reservoirs[r], new, ReservoirTransitions)
  BY <1>1, StoreAssumption DEF CreateReservoir, ReservoirRow, ReservoirState, RowStep
<1>3. TablesOK' /\ RowSteps
  BY <1>1, <1>2, ReservoirWrite DEF CreateReservoir, AnyStatus, ReservoirState
<1>4. req' = req
  BY DEF CreateReservoir
<1>5. ASSUME NEW v \in Workers
      PROVE  Copied(req'[v], reservoirs', gates', directives', confirmations')
  BY <1>3, <1>4, CopiedKept DEF CoreInv, TypeOK
<1>. QED
  BY <1>3, <1>4, <1>5 DEF CoreInv, TypeOK

-----------------------------------------------------------------------------
(* The gate service.                                                       *)

\* What one write to a table leaves of the table's part of TablesOK and
\* RowSteps; the commits below combine these.
LEMMA GateWrite ==
    ASSUME CoreInv, NEW g \in Gates, NEW new \in GateRow,
           gates' = [gates EXCEPT ![g] = new], new.code = g,
           RowStep(gates[g], new, GateUnitTransitions)
    PROVE  /\ gates' \in [Gates -> GateRow \cup {NoRow}]
           /\ \A x \in Gates : gates'[x] # NoRow => gates'[x].code = x
           /\ \A x \in Gates : RowStep(gates[x], gates'[x], GateUnitTransitions)
BY DEF CoreInv, TypeOK, TablesOK, RowStep

\* The reads of a gate that begin a request of the gate service.
LEMMA GateReads ==
    ASSUME CoreInv, Lead = 0, NEW w \in Workers, NEW g \in Gates,
           \/ ReadGateToUpdate(w, g)
           \/ ReadGateToTransition(w, g)
           \/ ReadGateToDelete(w, g)
    PROVE  CoreInv'
<1>. DEFINE row == gates[g]
<1>1. Live(row) /\ row \in GateRow /\ row.code = g /\ Faithful(row, row)
  <2>1. row \in GateRow \cup {NoRow} /\ Live(row) /\ (row # NoRow => row.code = g)
    BY DEF CoreInv, TypeOK, TablesOK, ReadGateToUpdate, ReadGateToTransition,
           ReadGateToDelete
  <2>. QED
    BY <2>1, LiveFaithful DEF Live, AnyRow
<1>2. CASE ReadGateToUpdate(w, g)
  <2>1. PICK e \in ExpectedVersions(row) :
            Serve(w, [Idle EXCEPT !.pc = "gate_update", !.expected = e, !.gate = row])
    BY <1>2 DEF ReadGateToUpdate
  <2>. DEFINE q == [Idle EXCEPT !.pc = "gate_update", !.expected = e, !.gate = row]
  <2>2. e \in Nat /\ e <= row.version
    BY <1>1, <2>1, StoreAssumption DEF ExpectedVersions, GateRow
  <2>3. q \in Request /\ Held(q) /\ Checked(q)
        /\ Copied(q, reservoirs, gates, directives, confirmations)
    BY <1>1, <2>2 DEF Idle, Request, PC, AnyStatus, Live, Held, Checked, Copied, ResHeld,
       GateHeld, DirHeld, ConfHeld, ResCAS, GateCAS, DirCAS, ConfCAS
  <2>. HIDE DEF q
  <2>. QED
    BY <1>2, <2>1, <2>3, ReadCarries DEF ReadGateToUpdate, q
<1>3. CASE ReadGateToTransition(w, g)
  <2>1. PICK e \in ExpectedVersions(row), to \in GateState :
            /\ CanTransition(GateUnitTransitions, row.status, to)
            /\ Serve(w, [Idle EXCEPT !.pc = "gate_transition", !.expected = e,
                                     !.target = to, !.gate = row])
    BY <1>3 DEF ReadGateToTransition
  <2>. DEFINE q == [Idle EXCEPT !.pc = "gate_transition", !.expected = e,
                                !.target = to, !.gate = row]
  <2>2. e \in Nat /\ e <= row.version
    BY <1>1, <2>1, StoreAssumption DEF ExpectedVersions, GateRow
  <2>3. q \in Request /\ Held(q) /\ Checked(q)
        /\ Copied(q, reservoirs, gates, directives, confirmations)
    BY <1>1, <2>1, <2>2 DEF Idle, Request, PC, AnyStatus, Live, Held, Checked, Copied, ResHeld,
       GateHeld, DirHeld, ConfHeld, ResCAS, GateCAS, DirCAS, ConfCAS
  <2>. HIDE DEF q
  <2>. QED
    BY <1>3, <2>1, <2>3, ReadCarries DEF ReadGateToTransition, q
<1>4. CASE ReadGateToDelete(w, g)
  <2>. DEFINE q == [Idle EXCEPT !.pc = "gate_delete", !.gate = row]
  <2>1. q \in Request /\ Held(q) /\ Checked(q)
        /\ Copied(q, reservoirs, gates, directives, confirmations)
    BY <1>1 DEF Idle, Request, PC, AnyStatus, Live, Held, Checked, Copied, ResHeld,
       GateHeld, DirHeld, ConfHeld, ResCAS, GateCAS, DirCAS, ConfCAS
  <2>. HIDE DEF q
  <2>. QED
    BY <1>4, <2>1, ReadCarries DEF ReadGateToDelete, q
<1>. QED
  BY <1>2, <1>3, <1>4

\* The reads of a gate's reservoir, before a create and within an edit.
LEMMA GateReservoirReads ==
    ASSUME CoreInv, NEW w \in Workers,
           \/ \E r \in Reservoirs : ReadReservoirToCreateGate(w, r)
           \/ ReadReservoirToUpdateGate(w)
    PROVE  CoreInv'
<1>1. ASSUME NEW r \in Reservoirs, Live(reservoirs[r])
      PROVE  reservoirs[r] \in ReservoirRow /\ reservoirs[r].code = r
             /\ Faithful(reservoirs[r], reservoirs[r])
  BY <1>1, LiveFaithful DEF CoreInv, TypeOK, TablesOK, Live, AnyRow
<1>2. ASSUME NEW r \in Reservoirs, ReadReservoirToCreateGate(w, r)
      PROVE  CoreInv'
  <2>. DEFINE q == [Idle EXCEPT !.pc = "gate_create", !.res = reservoirs[r]]
  <2>1. q \in Request /\ Held(q) /\ Checked(q)
        /\ Copied(q, reservoirs, gates, directives, confirmations)
    BY <1>1, <1>2 DEF ReadReservoirToCreateGate, Idle, Request, PC, AnyStatus, Live, Held, Checked, Copied, ResHeld,
       GateHeld, DirHeld, ConfHeld, ResCAS, GateCAS, DirCAS, ConfCAS
  <2>. HIDE DEF q
  <2>. QED
    BY <1>2, <2>1, ReadCarries DEF ReadReservoirToCreateGate, q
<1>3. CASE ReadReservoirToUpdateGate(w)
  <2>. DEFINE r == req[w].gate.reservoir
              q == [req[w] EXCEPT !.pc = "gate_update_commit", !.res = reservoirs[r]]
  <2>1. /\ req[w] \in Request /\ req[w].pc = "gate_update" /\ Held(req[w])
        /\ Checked(req[w]) /\ Copied(req[w], reservoirs, gates, directives, confirmations)
        /\ Live(reservoirs[r])
    BY <1>3 DEF ReadReservoirToUpdateGate, CoreInv, TypeOK, At
  <2>2. r \in Reservoirs
    BY <2>1 DEF Held, GateHeld, Request, GateRow
  <2>3. reservoirs[r] \in ReservoirRow /\ reservoirs[r].code = r
        /\ Faithful(reservoirs[r], reservoirs[r])
    BY <1>1, <2>1, <2>2
  <2>. HIDE DEF r
  <2>4. q \in Request /\ Held(q) /\ Checked(q)
        /\ Copied(q, reservoirs, gates, directives, confirmations)
    BY <2>1, <2>2, <2>3 DEF Request, PC, Live, Held, Checked, Copied, ResHeld,
       GateHeld, DirHeld, ConfHeld, ResCAS, GateCAS, DirCAS, ConfCAS
  <2>. HIDE DEF q
  <2>. QED
    BY <1>3, <2>4, ReadCarries DEF ReadReservoirToUpdateGate, q, r
<1>. QED
  BY <1>2, <1>3

\* A new gate hangs on the reservoir of the copy that was read.
LEMMA GateCreate ==
    ASSUME CoreInv, NEW w \in Workers, NEW g \in Gates, CreateGate(w, g)
    PROVE  CoreInv' /\ RowSteps
<1>. DEFINE from == req[w].res
            new == [code |-> g, status |-> "open", version |-> 1, deleted |-> FALSE,
                    reservoir |-> from.code, facility |-> from.facility]
<1>1. from.code \in Reservoirs /\ from.facility \in Facilities
  BY DEF CreateGate, CoreInv, TypeOK, Request, Held, ResHeld, At, ReservoirRow
<1>. HIDE DEF from
<1>2. /\ new \in GateRow /\ new.code = g
      /\ RowStep(gates[g], new, GateUnitTransitions)
  BY <1>1, StoreAssumption DEF CreateGate, GateRow, GateState, RowStep
<1>3. gates' = [gates EXCEPT ![g] = new]
  BY DEF CreateGate, from
<1>4. audit' \in [Entities -> [before : AnyStatus, after : AnyStatus]]
  BY LoggedTyped DEF CreateGate, CoreInv, TypeOK, TablesOK, AnyStatus, GateState
<1>. HIDE DEF new
<1>5. TablesOK' /\ RowSteps
  BY <1>2, <1>3, <1>4, GateWrite
     DEF CoreInv, TypeOK, TablesOK, RowSteps, RowStep, SignedKept, CreateGate, GateFrame
<1>. QED
  BY <1>5, CommitCarries DEF CreateGate

\* The commits of the gate service: edit, move, delete.
LEMMA GateCommits ==
    ASSUME CoreInv, NEW w \in Workers,
           \/ UpdateGate(w) \/ TransitionGate(w) \/ DeleteGate(w)
    PROVE  CoreInv' /\ RowSteps
<1>. DEFINE item == req[w].gate
            g == item.code
            v == req[w].expected + 1
<1>1. /\ item \in GateRow /\ g \in Gates /\ Faithful(item, gates[g])
      /\ req[w].expected \in Nat /\ gates[g] \in GateRow
      /\ gates[g].code = g /\ Answer(w) /\ GateFrame
  <2>1. req[w] \in Request /\ item # NoRow
    BY DEF CoreInv, TypeOK, Held, GateHeld, UpdateGate, TransitionGate, DeleteGate, At
  <2>2. item \in GateRow /\ g \in Gates /\ req[w].expected \in Nat
    BY <2>1 DEF Request, GateRow
  <2>3. Faithful(item, gates[g])
    BY <2>1 DEF CoreInv, Copied
  <2>. QED
    BY <2>2, <2>3 DEF CoreInv, TypeOK, TablesOK, Faithful, UpdateGate,
       TransitionGate, DeleteGate
<1>2. ASSUME req[w].expected <= item.version, Matches(gates[g], req[w].expected)
      PROVE  gates[g] = item /\ Live(item) /\ v = item.version + 1
             /\ item.version \in Nat
  BY <1>1, <1>2, CopyIsRow DEF AnyRow, Matches
<1>3. ASSUME NEW new \in GateRow, new.code = g, gates' = [gates EXCEPT ![g] = new],
             RowStep(gates[g], new, GateUnitTransitions),
             NEW from \in AnyStatus, NEW to \in AnyStatus,
             audit' = Logged(audit, GateEntity(g), from, to)
      PROVE  CoreInv' /\ RowSteps
  <2>1. audit' \in [Entities -> [before : AnyStatus, after : AnyStatus]]
    BY <1>3, LoggedTyped DEF CoreInv, TypeOK, TablesOK
  <2>2. TablesOK' /\ RowSteps
    BY <1>1, <1>3, <2>1, GateWrite
       DEF CoreInv, TypeOK, TablesOK, RowSteps, RowStep, SignedKept, GateFrame
  <2>. QED
    BY <1>1, <2>2, CommitCarries
<1>4. CASE UpdateGate(w)
  <2>. DEFINE f == req[w].res.facility
              new == WithFacility(item, f, v)
  <2>1. f \in Facilities
    BY <1>4 DEF UpdateGate, CoreInv, TypeOK, Request, Held, ResHeld, At, ReservoirRow
  <2>2. gates[g] = item /\ Live(item) /\ v = item.version + 1 /\ item.version \in Nat
    BY <1>2, <1>4 DEF UpdateGate, CoreInv, Held, GateCAS, At
  <2>3. /\ new \in GateRow /\ new.code = g
        /\ new.status = item.status /\ new.version = v
    <3>. v \in Nat
      BY <1>1
    <3>. HIDE DEF item, v, f
    <3>. QED
      BY <1>1, <2>1, GateRewritten
  <2>4. gates' = [gates EXCEPT ![g] = new]
        /\ audit' = Logged(audit, GateEntity(g), item.status, item.status)
    BY <1>4 DEF UpdateGate
  <2>. HIDE DEF new
  <2>5. item.status \in AnyStatus
    BY <1>1 DEF GateRow, AnyStatus
  <2>6. RowStep(gates[g], new, GateUnitTransitions)
    BY <2>2, <2>3, StoreAssumption DEF RowStep
  <2>. QED
    BY <1>3, <2>3, <2>4, <2>5, <2>6
<1>5. CASE TransitionGate(w)
  <2>. DEFINE to == req[w].target
              new == WithStatus(item, to, v)
  <2>1. CanTransition(GateUnitTransitions, item.status, to)
    BY <1>5 DEF TransitionGate, CoreInv, Checked, At
  <2>2. gates[g] = item /\ Live(item) /\ v = item.version + 1 /\ item.version \in Nat
    BY <1>2, <1>5 DEF TransitionGate, CoreInv, Held, GateCAS, At
  <2>3. to \in GateState
    BY <2>1 DEF CanTransition, GateUnitTransitions, GateState
  <2>4. /\ new \in GateRow /\ new.code = g /\ new.status = to /\ new.version = v
    <3>. v \in Nat
      BY <1>1
    <3>. HIDE DEF item, v, to
    <3>. QED
      BY <1>1, <2>3, GateRewritten
  <2>5. gates' = [gates EXCEPT ![g] = new]
        /\ audit' = Logged(audit, GateEntity(g), item.status, to)
    BY <1>5 DEF TransitionGate
  <2>. HIDE DEF new
  <2>6. item.status \in AnyStatus /\ to \in AnyStatus
    BY <1>1, <2>3 DEF GateRow, AnyStatus
  <2>7. RowStep(gates[g], new, GateUnitTransitions)
    BY <2>1, <2>2, <2>4, StoreAssumption DEF RowStep
  <2>. QED
    BY <1>3, <2>4, <2>5, <2>6, <2>7
<1>6. CASE DeleteGate(w)
  <2>. DEFINE new == SoftDeleted(gates[g])
  <2>1. new \in GateRow /\ new.code = g
    BY <1>1 DEF SoftDeleted, GateRow
  <2>2. gates' = [gates EXCEPT ![g] = new] /\ Live(gates[g])
        /\ audit' = Logged(audit, GateEntity(g), item.status, "deleted")
    BY <1>6 DEF DeleteGate
  <2>3. RowStep(gates[g], new, GateUnitTransitions)
    BY <2>2 DEF RowStep
  <2>4. item.status \in AnyStatus /\ "deleted" \in AnyStatus
    BY <1>1 DEF GateRow, AnyStatus
  <2>. QED
    BY <1>3, <2>1, <2>2, <2>3, <2>4
<1>. QED
  BY <1>4, <1>5, <1>6

-----------------------------------------------------------------------------
(* The directive service.                                                  *)

\* A live row a handler reads is a row of its table under its own code, and
\* the copy taken of it is faithful.
LEMMA LiveRows ==
    ASSUME CoreInv
    PROVE  /\ \A g \in Gates : Live(gates[g]) =>
                  /\ gates[g] \in GateRow /\ gates[g].code = g
                  /\ Faithful(gates[g], gates[g])
           /\ \A d \in Directives : Live(directives[d]) =>
                  /\ directives[d] \in DirectiveRow /\ directives[d].code = d
                  /\ Faithful(directives[d], directives[d])
           /\ \A c \in Confirmations : Live(confirmations[c]) =>
                  /\ confirmations[c] \in ConfirmationRow
                  /\ confirmations[c].code = c
                  /\ Faithful(confirmations[c], confirmations[c])
<1>1. ASSUME NEW g \in Gates, Live(gates[g])
      PROVE  /\ gates[g] \in GateRow /\ gates[g].code = g
             /\ Faithful(gates[g], gates[g])
  BY <1>1, LiveFaithful DEF CoreInv, TypeOK, TablesOK, Live, AnyRow
<1>2. ASSUME NEW d \in Directives, Live(directives[d])
      PROVE  /\ directives[d] \in DirectiveRow /\ directives[d].code = d
             /\ Faithful(directives[d], directives[d])
  BY <1>2, LiveFaithful DEF CoreInv, TypeOK, TablesOK, Live, AnyRow
<1>3. ASSUME NEW c \in Confirmations, Live(confirmations[c])
      PROVE  /\ confirmations[c] \in ConfirmationRow /\ confirmations[c].code = c
             /\ Faithful(confirmations[c], confirmations[c])
  BY <1>3, LiveFaithful DEF CoreInv, TypeOK, TablesOK, Live, AnyRow
<1>. QED
  BY <1>1, <1>2, <1>3

\* A client that guesses no version sends one the handler's copy has reached.
LEMMA ExpectedSeen ==
    ASSUME Lead = 0, NEW row, row.version \in Nat, NEW e \in ExpectedVersions(row)
    PROVE  e \in Nat /\ e <= row.version
BY StoreAssumption DEF ExpectedVersions

\* The reads that begin a request of the directive service.
LEMMA DirectiveFirstReads ==
    ASSUME CoreInv, Lead = 0, NEW w \in Workers,
           \/ \E g \in Gates : ReadGateToCreateDirective(w, g)
           \/ \E d \in Directives : \/ ReadDirectiveToUpdate(w, d)
                                    \/ ReadDirectiveToTransition(w, d)
                                    \/ ReadDirectiveToDelete(w, d)
    PROVE  CoreInv'
<1>1. ASSUME NEW g \in Gates, ReadGateToCreateDirective(w, g)
      PROVE  CoreInv'
  <2>. DEFINE row == gates[g]
              q == [Idle EXCEPT !.pc = "dir_create", !.gate = row]
  <2>1. row \in GateRow /\ row.code = g /\ Faithful(row, row) /\ row # NoRow
    BY <1>1, LiveRows DEF ReadGateToCreateDirective, Live
  <2>2. q \in Request /\ Held(q) /\ Checked(q)
        /\ Copied(q, reservoirs, gates, directives, confirmations)
    BY <2>1 DEF Idle, Request, PC, AnyStatus, Held, Checked, Copied, ResHeld,
       GateHeld, DirHeld, ConfHeld, ResCAS, GateCAS, DirCAS, ConfCAS
  <2>. HIDE DEF q
  <2>. QED
    BY <1>1, <2>2, ReadCarries DEF ReadGateToCreateDirective, q
<1>2. ASSUME NEW d \in Directives, ReadDirectiveToUpdate(w, d)
      PROVE  CoreInv'
  <2>. DEFINE row == directives[d]
  <2>1. PICK e \in ExpectedVersions(row) :
            Serve(w, [Idle EXCEPT !.pc = "dir_update", !.expected = e, !.dir = row])
    BY <1>2 DEF ReadDirectiveToUpdate
  <2>. DEFINE q == [Idle EXCEPT !.pc = "dir_update", !.expected = e, !.dir = row]
  <2>2. row \in DirectiveRow /\ row.code = d /\ Faithful(row, row) /\ row # NoRow
        /\ row.status = "draft"
    BY <1>2, LiveRows DEF ReadDirectiveToUpdate, Live
  <2>3. row.version \in Nat
    BY <2>2 DEF DirectiveRow
  <2>4. e \in Nat /\ e <= row.version
    BY <2>1, <2>3, ExpectedSeen
  <2>5. q \in Request /\ Held(q) /\ Checked(q)
        /\ Copied(q, reservoirs, gates, directives, confirmations)
    BY <2>2, <2>4 DEF Idle, Request, PC, AnyStatus, Held, Checked, Copied, ResHeld,
       GateHeld, DirHeld, ConfHeld, ResCAS, GateCAS, DirCAS, ConfCAS
  <2>. HIDE DEF q
  <2>. QED
    BY <1>2, <2>1, <2>5, ReadCarries DEF ReadDirectiveToUpdate, q
<1>3. ASSUME NEW d \in Directives, ReadDirectiveToTransition(w, d)
      PROVE  CoreInv'
  <2>. DEFINE row == directives[d]
              pc(to) == IF NeedsGate(row, to) THEN "dir_gate" ELSE "dir_transition"
              q(e, to, user) ==
                  [Idle EXCEPT !.pc = pc(to), !.actor = user, !.expected = e,
                               !.target = to, !.dir = row]
  <2>1. PICK p \in Principals, e \in ExpectedVersions(row),
             to \in DirectiveState \ {"completed"} :
            /\ CanTransition(OperationDirectiveTransitions, row.status, to)
            /\ TwoPersonRule(row, to, p.user)
            /\ Serve(w, q(e, to, p.user))
    BY <1>3 DEF ReadDirectiveToTransition
  <2>2. row \in DirectiveRow /\ row.code = d /\ Faithful(row, row) /\ row # NoRow
    BY <1>3, LiveRows DEF ReadDirectiveToTransition, Live
  <2>3. row.version \in Nat
    BY <2>2 DEF DirectiveRow
  <2>4. e \in Nat /\ e <= row.version
    BY <2>1, <2>3, ExpectedSeen
  <2>5. p.user \in Users
    BY StoreAssumption
  <2>. DEFINE user == p.user
  <2>. HIDE DEF user
  <2>6. /\ user \in Users /\ TwoPersonRule(row, to, user)
        /\ Serve(w, q(e, to, user))
    BY <2>1, <2>5 DEF user
  <2>7. CASE NeedsGate(row, to)
    <3>1. q(e, to, user) = [Idle EXCEPT !.pc = "dir_gate", !.actor = user,
                                !.expected = e, !.target = to, !.dir = row]
      BY <2>7
    <3>2. q(e, to, user) \in Request /\ Held(q(e, to, user)) /\ Checked(q(e, to, user))
          /\ Copied(q(e, to, user), reservoirs, gates, directives, confirmations)
      BY <2>1, <2>2, <2>4, <2>6, <2>7, <3>1
         DEF Idle, Request, PC, AnyStatus, Held, Checked, Copied, ResHeld,
         GateHeld, DirHeld, ConfHeld, ResCAS, GateCAS, DirCAS, ConfCAS
    <3>. HIDE DEF q
    <3>. QED
      BY <1>3, <2>6, <3>2, ReadCarries DEF ReadDirectiveToTransition
  <2>8. CASE ~NeedsGate(row, to)
    <3>1. q(e, to, user) = [Idle EXCEPT !.pc = "dir_transition", !.actor = user,
                                !.expected = e, !.target = to, !.dir = row]
      BY <2>8
    <3>2. q(e, to, user) \in Request /\ Held(q(e, to, user)) /\ Checked(q(e, to, user))
          /\ Copied(q(e, to, user), reservoirs, gates, directives, confirmations)
      BY <2>1, <2>2, <2>4, <2>6, <2>8, <3>1
         DEF Idle, Request, PC, AnyStatus, Held, Checked, Copied, ResHeld,
         GateHeld, DirHeld, ConfHeld, ResCAS, GateCAS, DirCAS, ConfCAS
    <3>. HIDE DEF q
    <3>. QED
      BY <1>3, <2>6, <3>2, ReadCarries DEF ReadDirectiveToTransition
  <2>. QED
    BY <2>7, <2>8
<1>4. ASSUME NEW d \in Directives, ReadDirectiveToDelete(w, d)
      PROVE  CoreInv'
  <2>. DEFINE row == directives[d]
              q == [Idle EXCEPT !.pc = "dir_delete", !.dir = row]
  <2>1. row \in DirectiveRow /\ row.code = d /\ Faithful(row, row) /\ row # NoRow
    BY <1>4, LiveRows DEF ReadDirectiveToDelete, Live
  <2>2. q \in Request /\ Held(q) /\ Checked(q)
        /\ Copied(q, reservoirs, gates, directives, confirmations)
    BY <2>1 DEF Idle, Request, PC, AnyStatus, Held, Checked, Copied, ResHeld,
       GateHeld, DirHeld, ConfHeld, ResCAS, GateCAS, DirCAS, ConfCAS
  <2>. HIDE DEF q
  <2>. QED
    BY <1>4, <2>2, ReadCarries DEF ReadDirectiveToDelete, q
<1>. QED
  BY <1>1, <1>2, <1>3, <1>4

\* The gates a request of the directive service reads after its directive.
LEMMA DirectiveGateReads ==
    ASSUME CoreInv, NEW w \in Workers,
           \/ \E g \in Gates : ReadGateToUpdateDirective(w, g)
           \/ ReadGateForDirective(w)
    PROVE  CoreInv'
<1>. DEFINE r == req[w]
<1>1. /\ r \in Request /\ Held(r) /\ Checked(r)
      /\ Copied(r, reservoirs, gates, directives, confirmations)
  BY DEF CoreInv, TypeOK
<1>. HIDE DEF r
<1>2. ASSUME NEW g \in Gates, ReadGateToUpdateDirective(w, g)
      PROVE  CoreInv'
  <2>. DEFINE row == gates[g]
              q == [r EXCEPT !.pc = "dir_update_commit", !.gate = row]
  <2>1. /\ row \in GateRow /\ row.code = g /\ Faithful(row, row) /\ row # NoRow
        /\ r.pc = "dir_update"
    BY <1>2, LiveRows DEF ReadGateToUpdateDirective, Live, At, r
  <2>2. q \in Request /\ Held(q) /\ Checked(q)
        /\ Copied(q, reservoirs, gates, directives, confirmations)
    BY <1>1, <2>1 DEF Request, PC, Held, Checked, Copied, ResHeld,
       GateHeld, DirHeld, ConfHeld, ResCAS, GateCAS, DirCAS, ConfCAS
  <2>. HIDE DEF q
  <2>. QED
    BY <1>2, <2>2, ReadCarries DEF ReadGateToUpdateDirective, q, r
<1>3. CASE ReadGateForDirective(w)
  <2>. DEFINE item == r.dir
              row == gates[item.gate]
              q == [r EXCEPT !.pc = "dir_transition", !.gate = row]
  <2>1. /\ r.pc = "dir_gate" /\ item # NoRow /\ item \in DirectiveRow
        /\ NeedsGate(item, r.target) /\ Live(row)
    BY <1>1, <1>3 DEF ReadGateForDirective, At, r, Checked, Held, DirHeld, Request
  <2>2. item.gate \in Gates
    BY <2>1 DEF DirectiveRow
  <2>3. row \in GateRow /\ row.code = item.gate /\ Faithful(row, row) /\ row # NoRow
    BY <2>1, <2>2, LiveRows DEF Live
  <2>4. LegalGateMove(item, row, GateTarget(item, r.target, row))
    BY <1>3, <2>3 DEF ReadGateForDirective, LegalGateMove, r
  <2>5. /\ CanTransition(OperationDirectiveTransitions, item.status, r.target)
        /\ r.target # "completed" /\ r.actor \in Users
        /\ TwoPersonRule(item, r.target, r.actor)
    BY <1>1, <2>1 DEF Checked
  <2>6. Serve(w, q) /\ UNCHANGED <<tables, approvals, audit>>
    BY <1>3 DEF ReadGateForDirective, r
  <2>7. q \in Request
    BY <1>1, <2>3 DEF Request, PC
  <2>8. Held(q) /\ Checked(q)
        /\ Copied(q, reservoirs, gates, directives, confirmations)
    <3>1. /\ q.pc = "dir_transition" /\ q.gate = row /\ q.dir = item
          /\ q.res = r.res /\ q.conf = r.conf /\ q.expected = r.expected
          /\ q.target = r.target /\ q.actor = r.actor
      BY <1>1 DEF Request
    <3>. HIDE DEF q, item, row
    <3>2. Held(q)
      BY <1>1, <2>1, <2>3, <3>1 DEF item, Held, ResHeld, GateHeld, DirHeld, ConfHeld,
         ResCAS, GateCAS, DirCAS, ConfCAS
    <3>3. Checked(q)
      BY <2>1, <2>3, <2>4, <2>5, <3>1 DEF Checked
    <3>4. Copied(q, reservoirs, gates, directives, confirmations)
      BY <1>1, <2>2, <2>3, <3>1 DEF item, row, Copied
    <3>. QED
      BY <3>2, <3>3, <3>4
  <2>. HIDE DEF q
  <2>. QED
    BY <2>6, <2>7, <2>8, ReadCarries
<1>. QED
  BY <1>2, <1>3

\* One write to the directives, and one to the gates by whoever moves a gate on
\* the copy it read.
LEMMA DirectiveWrite ==
    ASSUME CoreInv, NEW d \in Directives, NEW new \in DirectiveRow,
           directives' = [directives EXCEPT ![d] = new], new.code = d,
           RowStep(directives[d], new, OperationDirectiveTransitions),
           SignedKept(directives[d], new)
    PROVE  /\ directives' \in [Directives -> DirectiveRow \cup {NoRow}]
           /\ \A x \in Directives : directives'[x] # NoRow => directives'[x].code = x
           /\ \A x \in Directives :
                  /\ RowStep(directives[x], directives'[x], OperationDirectiveTransitions)
                  /\ SignedKept(directives[x], directives'[x])
BY DEF CoreInv, TypeOK, TablesOK, RowStep, SignedKept

\* A directive or a receipt moves its gate along the gate's own graph, on the
\* version of the copy, or leaves the gates alone.
LEMMA GateMoved ==
    ASSUME CoreInv, NEW gate \in GateRow, Faithful(gate, gates[gate.code]),
           NEW to, CanTransition(GateUnitTransitions, gate.status, to),
           Matches(gates[gate.code], gate.version),
           gates' = [gates EXCEPT ![gate.code] = WithStatus(gate, to, gate.version + 1)]
    PROVE  /\ gates' \in [Gates -> GateRow \cup {NoRow}]
           /\ \A x \in Gates : gates'[x] # NoRow => gates'[x].code = x
           /\ \A x \in Gates : RowStep(gates[x], gates'[x], GateUnitTransitions)
           /\ to \in AnyStatus /\ gate.status \in AnyStatus
<1>. DEFINE g == gate.code
            v == gate.version + 1
            new == WithStatus(gate, to, v)
<1>1. g \in Gates /\ gate.version \in Nat /\ gate.status \in GateState
  BY DEF GateRow
<1>2. gates[g] \in GateRow \cup {NoRow}
  BY <1>1 DEF CoreInv, TypeOK, TablesOK
<1>3. gates[g] = gate /\ Live(gate)
  BY <1>1, <1>2, CopyIsRow DEF AnyRow, Matches
<1>4. to \in GateState
  BY DEF CanTransition, GateUnitTransitions, GateState
<1>5. v \in Nat /\ gate.version < v
  BY <1>1
<1>. HIDE DEF v
<1>6. new \in GateRow /\ new.code = g /\ new.status = to /\ new.version = v
  BY <1>4, <1>5, GateRewritten
<1>7. gates' = [gates EXCEPT ![g] = new]
  BY DEF v
<1>. HIDE DEF new
<1>8. RowStep(gates[g], new, GateUnitTransitions)
  BY <1>3, <1>5, <1>6, StoreAssumption DEF RowStep
<1>9. to \in AnyStatus /\ gate.status \in AnyStatus
  BY <1>1, <1>4 DEF AnyStatus
<1>. QED
  BY <1>1, <1>6, <1>7, <1>8, <1>9, GateWrite

\* A new directive is a draft on the gate of the copy, signed by nobody.
LEMMA DirectiveCreate ==
    ASSUME CoreInv, NEW w \in Workers, NEW d \in Directives, CreateDirective(w, d)
    PROVE  CoreInv' /\ RowSteps
<1>. DEFINE gate == req[w].gate
            new(goal) ==
                [code |-> d, status |-> "draft", version |-> 1, deleted |-> FALSE,
                 gate |-> gate.code, goal |-> goal, facility |-> gate.facility,
                 submittedBy |-> NoUser, approvedBy |-> NoUser]
<1>1. gate.code \in Gates /\ gate.facility \in Facilities
  BY DEF CreateDirective, CoreInv, TypeOK, Request, Held, GateHeld, At, GateRow
<1>2. PICK goal \in Goals : directives' = [directives EXCEPT ![d] = new(goal)]
  BY DEF CreateDirective
<1>. HIDE DEF gate
<1>3. /\ new(goal) \in DirectiveRow /\ new(goal).code = d /\ ~new(goal).deleted
      /\ directives[d] = NoRow
  BY <1>1, StoreAssumption DEF CreateDirective, DirectiveRow, DirectiveState
<1>. HIDE DEF new
<1>4. /\ RowStep(directives[d], new(goal), OperationDirectiveTransitions)
      /\ SignedKept(directives[d], new(goal))
  BY <1>3, StoreAssumption DEF RowStep, SignedKept
<1>5. audit' \in [Entities -> [before : AnyStatus, after : AnyStatus]]
  BY LoggedTyped DEF CreateDirective, CoreInv, TypeOK, TablesOK, AnyStatus, DirectiveState
<1>6. TablesOK' /\ RowSteps
  BY <1>2, <1>3, <1>4, <1>5, DirectiveWrite
     DEF CoreInv, TypeOK, TablesOK, RowSteps, RowStep, CreateDirective, DirectiveFrame
<1>. QED
  BY <1>6, CommitCarries DEF CreateDirective

\* The commits of the directive service and the settlement of a receipt write
\* over the very row they read, so what was checked of the copy is true of it.
LEMMA UpdateOnCopy ==
    ASSUME CoreInv, NEW w \in Workers, UpdateDirective(w)
    PROVE  LET item == req[w].dir  d == item.code IN
           /\ item \in DirectiveRow /\ d \in Directives /\ directives[d] = item
           /\ Live(item) /\ item.status = "draft" /\ req[w].gate \in GateRow
           /\ req[w].expected \in Nat /\ item.version = req[w].expected
<1>. DEFINE item == req[w].dir
            d == item.code
<1>1. /\ req[w] \in Request /\ req[w].pc = "dir_update_commit"
      /\ Held(req[w]) /\ Checked(req[w])
      /\ Copied(req[w], reservoirs, gates, directives, confirmations)
  BY DEF CoreInv, TypeOK, UpdateDirective, At
<1>2. /\ item \in DirectiveRow /\ req[w].gate \in GateRow /\ item.status = "draft"
      /\ req[w].expected \in Nat /\ req[w].expected <= item.version
      /\ Faithful(item, directives[d])
  BY <1>1 DEF Request, Held, DirHeld, GateHeld, DirCAS, Checked, Copied
<1>3. d \in Directives
  BY <1>2 DEF DirectiveRow
<1>4. directives[d] \in DirectiveRow \cup {NoRow}
  BY <1>3 DEF CoreInv, TypeOK, TablesOK
<1>5. directives[d] = item /\ Live(item) /\ item.version = req[w].expected
  BY <1>2, <1>4, CopyIsRow DEF UpdateDirective, AnyRow, Matches
<1>. QED
  BY <1>2, <1>3, <1>5

\* An edit that passes the version test writes over the draft it read.
LEMMA DirectiveUpdate ==
    ASSUME CoreInv, NEW w \in Workers, UpdateDirective(w)
    PROVE  CoreInv' /\ RowSteps
<1>. DEFINE item == req[w].dir
            d == item.code
            gate == req[w].gate
            v == req[w].expected + 1
<1>1. /\ item \in DirectiveRow /\ d \in Directives /\ directives[d] = item
      /\ Live(item) /\ item.status = "draft" /\ gate \in GateRow
      /\ req[w].expected \in Nat /\ item.version = req[w].expected
  BY UpdateOnCopy
<1>2. v \in Nat /\ item.version < v
  BY <1>1
<1>3. PICK goal \in Goals :
          directives' = [directives EXCEPT ![d] = Edited(item, gate, goal, v)]
  BY DEF UpdateDirective
<1>4. audit' = Logged(audit, DirectiveEntity(d), item.status, item.status)
  BY DEF UpdateDirective
<1>. DEFINE new == Edited(item, gate, goal, v)
<1>5. /\ new \in DirectiveRow /\ new.code = d
      /\ new.status = item.status /\ new.version = v
  <2>. HIDE DEF item, gate, v
  <2>. QED
    BY <1>1, <1>2, DirectiveEdited
<1>. HIDE DEF new, item, v
<1>6. /\ RowStep(directives[d], new, OperationDirectiveTransitions)
       /\ SignedKept(directives[d], new)
  BY <1>1, <1>2, <1>5, StoreAssumption DEF RowStep, SignedKept
<1>7. audit' \in [Entities -> [before : AnyStatus, after : AnyStatus]]
  BY <1>1, <1>4, LoggedTyped DEF CoreInv, TypeOK, TablesOK, AnyStatus, DirectiveState
<1>8. TablesOK' /\ RowSteps
  BY <1>1, <1>3, <1>5, <1>6, <1>7, DirectiveWrite
     DEF new, CoreInv, TypeOK, TablesOK, RowSteps, RowStep, UpdateDirective, DirectiveFrame
<1>. QED
  BY <1>8, CommitCarries DEF UpdateDirective

\* Deleting a directive changes no column but the deletion mark.
LEMMA DirectiveDelete ==
    ASSUME CoreInv, NEW w \in Workers, DeleteDirective(w)
    PROVE  CoreInv' /\ RowSteps
<1>. DEFINE item == req[w].dir
            d == item.code
            old == directives[d]
            new == SoftDeleted(old)
<1>1. item \in DirectiveRow
  BY DEF CoreInv, TypeOK, DeleteDirective, At, Request, Held, DirHeld
<1>2. d \in Directives /\ item.status \in AnyStatus /\ "deleted" \in AnyStatus
  BY <1>1 DEF DirectiveRow, AnyStatus
<1>3. old \in DirectiveRow /\ old.code = d /\ Live(old)
  BY <1>2 DEF CoreInv, TypeOK, TablesOK, DeleteDirective, Live
<1>4. /\ new \in DirectiveRow /\ new.code = d /\ new.status = old.status
      /\ new.gate = old.gate /\ new.goal = old.goal /\ new.facility = old.facility
      /\ new.submittedBy = old.submittedBy /\ new.approvedBy = old.approvedBy
  BY <1>3 DEF DirectiveRow, SoftDeleted
<1>5. directives' = [directives EXCEPT ![d] = new]
      /\ audit' = Logged(audit, DirectiveEntity(d), item.status, "deleted")
  BY DEF DeleteDirective
<1>6. RowStep(old, new, OperationDirectiveTransitions)
  BY <1>3 DEF RowStep
<1>. HIDE DEF new
<1>7. SignedKept(old, new)
  BY <1>4, StoreAssumption DEF SignedKept
<1>8. audit' \in [Entities -> [before : AnyStatus, after : AnyStatus]]
  BY <1>2, <1>5, LoggedTyped DEF CoreInv, TypeOK, TablesOK
<1>9. TablesOK' /\ RowSteps
  BY <1>2, <1>4, <1>5, <1>6, <1>7, <1>8, DirectiveWrite
     DEF CoreInv, TypeOK, TablesOK, RowSteps, RowStep, DeleteDirective, DirectiveFrame
<1>. QED
  BY <1>9, CommitCarries DEF DeleteDirective

\* A signature changes an approval row of a typed table, or none.
LEMMA ApprovalTyped ==
    ASSUME CoreInv, NEW d \in Directives, NEW to, NEW user \in Users,
           RecordApproval(d, to, user)
    PROVE  approvals' \in [Directives -> [submitted : Users \cup {NoUser},
                                          approved : Users \cup {NoUser}]]
<1>1. approvals \in [Directives -> [submitted : Users \cup {NoUser},
                                    approved : Users \cup {NoUser}]]
  BY DEF CoreInv, TypeOK, TablesOK
<1>2. CASE to = "pending"
  BY <1>1, <1>2 DEF RecordApproval
<1>3. CASE to = "approved"
  BY <1>1, <1>3 DEF RecordApproval
<1>4. CASE to \notin {"pending", "approved"}
  BY <1>1, <1>4 DEF RecordApproval
<1>. QED
  BY <1>2, <1>3, <1>4

\* A transition that passes the version test writes over the very directive
\* the checks were made on, so the new status follows the graph.
LEMMA TransitionOnCopy ==
    ASSUME CoreInv, NEW w \in Workers, TransitionDirective(w)
    PROVE  LET r == req[w]  item == r.dir  d == item.code  gate == r.gate IN
           /\ item \in DirectiveRow /\ d \in Directives /\ directives[d] = item
           /\ Live(item) /\ r.expected \in Nat /\ item.version = r.expected
           /\ r.actor \in Users /\ r.target \in DirectiveState
           /\ CanTransition(OperationDirectiveTransitions, item.status, r.target)
           /\ TwoPersonRule(item, r.target, r.actor)
           /\ gate # NoRow =>
                  /\ gate \in GateRow /\ Faithful(gate, gates[gate.code])
                  /\ LegalGateMove(item, gate, GateTarget(item, r.target, gate))
<1>. DEFINE r == req[w]
            item == r.dir
            d == item.code
            to == r.target
            gate == r.gate
<1>1. /\ r \in Request /\ r.pc = "dir_transition" /\ Held(r) /\ Checked(r)
      /\ Copied(r, reservoirs, gates, directives, confirmations)
  BY DEF CoreInv, TypeOK, TransitionDirective, At
<1>2. /\ item # NoRow /\ item \in DirectiveRow /\ r.expected \in Nat
      /\ gate # NoRow => gate \in GateRow
  BY <1>1 DEF Request, Held, DirHeld
<1>3. r.expected <= item.version
  BY <1>1 DEF Held, DirCAS
<1>4. Faithful(item, directives[d])
      /\ (gate # NoRow => Faithful(gate, gates[gate.code]))
  BY <1>1, <1>2 DEF Copied
<1>5. /\ r.actor \in Users /\ TwoPersonRule(item, to, r.actor)
      /\ CanTransition(OperationDirectiveTransitions, item.status, to)
      /\ gate # NoRow => LegalGateMove(item, gate, GateTarget(item, to, gate))
  BY <1>1 DEF Checked
<1>6. d \in Directives /\ to \in DirectiveState
  BY <1>2, <1>5 DEF DirectiveRow, CanTransition, OperationDirectiveTransitions,
                    DirectiveState
<1>7. directives[d] \in DirectiveRow \cup {NoRow}
  BY <1>6 DEF CoreInv, TypeOK, TablesOK
<1>8. directives[d] = item /\ Live(item) /\ item.version = r.expected
  BY <1>2, <1>3, <1>4, <1>7, CopyIsRow DEF TransitionDirective, AnyRow, Matches
<1>. QED
  BY <1>2, <1>4, <1>5, <1>6, <1>8

\* The commit of a directive's transition, its signature and its gate.
LEMMA DirectiveTransition ==
    ASSUME CoreInv, NEW w \in Workers, TransitionDirective(w)
    PROVE  CoreInv' /\ RowSteps
<1>. DEFINE r == req[w]
            item == r.dir
            d == item.code
            to == r.target
            user == r.actor
            gate == r.gate
            v == r.expected + 1
            position == IF gate = NoRow THEN "" ELSE GateTarget(item, to, gate)
            log == Logged(audit, DirectiveEntity(d), item.status, to)
            new == Signed(item, to, user, v)
<1>1. /\ item \in DirectiveRow /\ user \in Users
      /\ CanTransition(OperationDirectiveTransitions, item.status, to)
      /\ gate # NoRow => /\ gate \in GateRow /\ Faithful(gate, gates[gate.code])
                         /\ LegalGateMove(item, gate, GateTarget(item, to, gate))
  BY TransitionOnCopy
<1>2. d \in Directives /\ to \in DirectiveState
  BY TransitionOnCopy
<1>3. /\ directives[d] = item /\ Live(item)
      /\ r.expected \in Nat /\ item.version = r.expected
  BY TransitionOnCopy
<1>4. v \in Nat /\ item.version < v
  BY <1>3
<1>5. /\ directives' = [directives EXCEPT ![d] = new]
      /\ RecordApproval(d, to, user) /\ MoveGate(gate, position, log)
      /\ Answer(w) /\ DirectiveFrame
  BY DEF TransitionDirective
<1>. HIDE DEF v, to, user, item, r, position
<1>6. /\ new \in DirectiveRow /\ new.code = d /\ new.status = to /\ new.version = v
      /\ new.gate = item.gate /\ new.goal = item.goal /\ new.facility = item.facility
      /\ new.submittedBy = IF to = "pending" THEN user ELSE item.submittedBy
      /\ new.approvedBy = IF to = "approved" THEN user ELSE item.approvedBy
  BY <1>1, <1>2, <1>4, DirectiveSigned
<1>. HIDE DEF new
<1>7. RowStep(directives[d], new, OperationDirectiveTransitions)
  BY <1>1, <1>3, <1>4, <1>6, StoreAssumption DEF RowStep
<1>8. SignedKept(directives[d], new)
  BY <1>1, <1>3, <1>6, StoreAssumption
     DEF SignedKept, CanTransition, OperationDirectiveTransitions
<1>9. log \in [Entities -> [before : AnyStatus, after : AnyStatus]]
  <2>1. item.status \in AnyStatus /\ to \in AnyStatus
    BY <1>1, <1>2 DEF DirectiveRow, AnyStatus
  <2>. QED
    BY <2>1, LoggedTyped DEF CoreInv, TypeOK, TablesOK
<1>. HIDE DEF log
<1>10. /\ audit' \in [Entities -> [before : AnyStatus, after : AnyStatus]]
       /\ gates' \in [Gates -> GateRow \cup {NoRow}]
       /\ \A x \in Gates : gates'[x] # NoRow => gates'[x].code = x
       /\ \A x \in Gates : RowStep(gates[x], gates'[x], GateUnitTransitions)
  <2>1. CASE gate = NoRow \/ position \in {"", gate.status}
    <3>1. UNCHANGED gates /\ audit' = log
      BY <1>5, <2>1 DEF MoveGate
    <3>. QED
      BY <1>9, <3>1 DEF CoreInv, TypeOK, TablesOK, RowStep
  <2>2. CASE ~(gate = NoRow \/ position \in {"", gate.status})
    <3>1. /\ Matches(gates[gate.code], gate.version)
          /\ gates' = [gates EXCEPT ![gate.code] =
                 WithStatus(gate, position, gate.version + 1)]
          /\ audit' = Logged(log, <<"GateUnit", gate.code>>, gate.status, position)
      BY <1>5, <2>2 DEF MoveGate
    <3>2. /\ gate \in GateRow /\ Faithful(gate, gates[gate.code])
          /\ CanTransition(GateUnitTransitions, gate.status, position)
      BY <1>1, <2>2 DEF LegalGateMove, position
    <3>. HIDE DEF gate
    <3>3. position \in AnyStatus /\ gate.status \in AnyStatus
      BY <3>1, <3>2, GateMoved
    <3>4. audit' \in [Entities -> [before : AnyStatus, after : AnyStatus]]
      BY <1>9, <3>1, <3>3, LoggedTyped
    <3>. QED
      BY <3>1, <3>2, <3>4, GateMoved
  <2>. QED
    BY <2>1, <2>2
<1>11. approvals' \in [Directives -> [submitted : Users \cup {NoUser},
                                      approved : Users \cup {NoUser}]]
  BY <1>1, <1>2, <1>5, ApprovalTyped
<1>12. TablesOK' /\ RowSteps
  <2>. HIDE DEF d
  <2>1. /\ directives' \in [Directives -> DirectiveRow \cup {NoRow}]
        /\ \A x \in Directives : directives'[x] # NoRow => directives'[x].code = x
        /\ \A x \in Directives :
               /\ RowStep(directives[x], directives'[x], OperationDirectiveTransitions)
               /\ SignedKept(directives[x], directives'[x])
    BY <1>2, <1>5, <1>6, <1>7, <1>8, DirectiveWrite
  <2>2. reservoirs' = reservoirs /\ confirmations' = confirmations
    BY <1>5 DEF DirectiveFrame
  <2>. QED
    BY <1>10, <1>11, <2>1, <2>2 DEF CoreInv, TypeOK, TablesOK, RowSteps, RowStep
<1>. QED
  BY <1>5, <1>12, CommitCarries

-----------------------------------------------------------------------------
(* The confirmation service.                                               *)

\* The reads that begin a request of the confirmation service.
LEMMA ConfirmationFirstReads ==
    ASSUME CoreInv, Lead = 0, NEW w \in Workers,
           \/ \E d \in Directives : ReadDirectiveToCreateConfirmation(w, d)
           \/ \E c \in Confirmations : \/ ReadConfirmationToUpdate(w, c)
                                       \/ ReadConfirmationToTransition(w, c)
                                       \/ ReadConfirmationToDelete(w, c)
    PROVE  CoreInv'
<1>1. ASSUME NEW d \in Directives, ReadDirectiveToCreateConfirmation(w, d)
      PROVE  CoreInv'
  <2>. DEFINE row == directives[d]
              q == [Idle EXCEPT !.pc = "conf_count", !.dir = row]
  <2>1. /\ row \in DirectiveRow /\ row.code = d /\ Faithful(row, row) /\ row # NoRow
        /\ row.status = "executing"
    BY <1>1, LiveRows DEF ReadDirectiveToCreateConfirmation, Executing, Live
  <2>2. q \in Request /\ Held(q) /\ Checked(q)
        /\ Copied(q, reservoirs, gates, directives, confirmations)
    BY <2>1 DEF Idle, Request, PC, AnyStatus, Held, Checked, Copied, ResHeld,
       GateHeld, DirHeld, ConfHeld, ResCAS, GateCAS, DirCAS, ConfCAS
  <2>. HIDE DEF q
  <2>. QED
    BY <1>1, <2>2, ReadCarries DEF ReadDirectiveToCreateConfirmation, q
<1>2. ASSUME NEW c \in Confirmations, ReadConfirmationToUpdate(w, c)
      PROVE  CoreInv'
  <2>. DEFINE row == confirmations[c]
  <2>1. PICK e \in ExpectedVersions(row) :
            Serve(w, [Idle EXCEPT !.pc = "conf_update", !.expected = e, !.conf = row])
    BY <1>2 DEF ReadConfirmationToUpdate
  <2>. DEFINE q == [Idle EXCEPT !.pc = "conf_update", !.expected = e, !.conf = row]
  <2>2. row \in ConfirmationRow /\ row.code = c /\ Faithful(row, row) /\ row # NoRow
    BY <1>2, LiveRows DEF ReadConfirmationToUpdate, Live
  <2>3. row.version \in Nat
    BY <2>2 DEF ConfirmationRow
  <2>4. e \in Nat /\ e <= row.version
    BY <2>1, <2>3, ExpectedSeen
  <2>5. q \in Request /\ Held(q) /\ Checked(q)
        /\ Copied(q, reservoirs, gates, directives, confirmations)
    BY <2>2, <2>4 DEF Idle, Request, PC, AnyStatus, Held, Checked, Copied, ResHeld,
       GateHeld, DirHeld, ConfHeld, ResCAS, GateCAS, DirCAS, ConfCAS
  <2>. HIDE DEF q
  <2>. QED
    BY <1>2, <2>1, <2>5, ReadCarries DEF ReadConfirmationToUpdate, q
<1>3. ASSUME NEW c \in Confirmations, ReadConfirmationToTransition(w, c)
      PROVE  CoreInv'
  <2>. DEFINE row == confirmations[c]
              pc == IF row.status = "pending" THEN "conf_dir" ELSE "conf_close"
              q(e, to) == [Idle EXCEPT !.pc = pc, !.expected = e, !.target = to,
                                       !.conf = row]
  <2>1. PICK e \in ExpectedVersions(row), to \in ConfirmationState :
            /\ CanTransition(ExecutionConfirmationTransitions, row.status, to)
            /\ Serve(w, q(e, to))
    BY <1>3 DEF ReadConfirmationToTransition
  <2>2. row \in ConfirmationRow /\ row.code = c /\ Faithful(row, row) /\ row # NoRow
    BY <1>3, LiveRows DEF ReadConfirmationToTransition, Live
  <2>3. row.version \in Nat
    BY <2>2 DEF ConfirmationRow
  <2>4. e \in Nat /\ e <= row.version
    BY <2>1, <2>3, ExpectedSeen
  <2>5. \/ row.status = "pending" /\ to \in {"confirmed", "failed"}
        \/ row.status = "failed" /\ to = "cancelled"
    BY <2>1 DEF CanTransition, ExecutionConfirmationTransitions
  <2>6. pc = "conf_dir" \/ pc = "conf_close"
    OBVIOUS
  <2>7. pc = "conf_dir" => row.status = "pending" /\ to \in {"confirmed", "failed"}
    BY <2>5
  <2>8. pc = "conf_close" => row.status = "failed" /\ to = "cancelled"
    BY <2>5
  <2>. HIDE DEF pc
  <2>9. q(e, to) \in Request /\ Held(q(e, to)) /\ Checked(q(e, to))
        /\ Copied(q(e, to), reservoirs, gates, directives, confirmations)
    BY <2>1, <2>2, <2>4, <2>6, <2>7, <2>8
       DEF Idle, Request, PC, AnyStatus, Held, Checked, Copied, ResHeld,
       GateHeld, DirHeld, ConfHeld, ResCAS, GateCAS, DirCAS, ConfCAS
  <2>. HIDE DEF q
  <2>. QED
    BY <1>3, <2>1, <2>9, ReadCarries DEF ReadConfirmationToTransition
<1>4. ASSUME NEW c \in Confirmations, ReadConfirmationToDelete(w, c)
      PROVE  CoreInv'
  <2>. DEFINE row == confirmations[c]
              q == [Idle EXCEPT !.pc = "conf_delete", !.conf = row]
  <2>1. row \in ConfirmationRow /\ row.code = c /\ Faithful(row, row) /\ row # NoRow
    BY <1>4, LiveRows DEF ReadConfirmationToDelete, Live
  <2>2. q \in Request /\ Held(q) /\ Checked(q)
        /\ Copied(q, reservoirs, gates, directives, confirmations)
    BY <2>1 DEF Idle, Request, PC, AnyStatus, Held, Checked, Copied, ResHeld,
       GateHeld, DirHeld, ConfHeld, ResCAS, GateCAS, DirCAS, ConfCAS
  <2>. HIDE DEF q
  <2>. QED
    BY <1>4, <2>2, ReadCarries DEF ReadConfirmationToDelete, q
<1>. QED
  BY <1>1, <1>2, <1>3, <1>4

\* The reads and the count of a request that has begun.
LEMMA ConfirmationNextReads ==
    ASSUME CoreInv, NEW w \in Workers,
           \/ CountConfirmations(w)
           \/ ReadDirectiveToUpdateConfirmation(w)
           \/ ReadDirectiveForConfirmation(w)
           \/ ReadGateForConfirmation(w)
    PROVE  CoreInv'
<1>. DEFINE r == req[w]
<1>1. /\ r \in Request /\ Held(r) /\ Checked(r)
      /\ Copied(r, reservoirs, gates, directives, confirmations)
  BY DEF CoreInv, TypeOK
<1>. HIDE DEF r
<1>2. CASE CountConfirmations(w)
  <2>. DEFINE q == [r EXCEPT !.pc = "conf_create"]
  <2>1. r.pc = "conf_count"
    BY <1>2 DEF CountConfirmations, At, r
  <2>2. q \in Request /\ Held(q) /\ Checked(q)
        /\ Copied(q, reservoirs, gates, directives, confirmations)
    BY <1>1, <2>1 DEF Request, PC, Held, Checked, Copied, ResHeld,
       GateHeld, DirHeld, ConfHeld, ResCAS, GateCAS, DirCAS, ConfCAS
  <2>. HIDE DEF q
  <2>. QED
    BY <1>2, <2>2, ReadCarries DEF CountConfirmations, q, r
<1>3. ASSUME r.pc \in {"conf_update", "conf_dir"}
      PROVE  r.conf \in ConfirmationRow /\ r.conf # NoRow /\ r.conf.directive \in Directives
             /\ r.expected <= r.conf.version
  BY <1>1, <1>3 DEF Request, Held, ConfHeld, ConfCAS, ConfirmationRow
<1>4. CASE ReadDirectiveToUpdateConfirmation(w)
  <2>. DEFINE row == directives[r.conf.directive]
              q == [r EXCEPT !.pc = "conf_update_commit", !.dir = row]
  <2>1. r.pc = "conf_update" /\ Executing(row) /\ Serve(w, q)
        /\ UNCHANGED <<tables, approvals, audit>>
    BY <1>4 DEF ReadDirectiveToUpdateConfirmation, At, r
  <2>2. /\ row \in DirectiveRow /\ row.code = r.conf.directive
        /\ Faithful(row, row) /\ row # NoRow
    BY <1>3, <2>1, LiveRows DEF Executing, Live
  <2>. HIDE DEF row
  <2>3. q \in Request
    BY <1>1, <2>2 DEF Request, PC
  <2>4. Held(q)
    BY <1>1, <1>3, <2>1, <2>2 DEF Request, Held, ResHeld,
       GateHeld, DirHeld, ConfHeld, ResCAS, GateCAS, DirCAS, ConfCAS
  <2>5. Checked(q)
    BY <1>1, <2>1, <2>2 DEF Request, Checked
  <2>6. Copied(q, reservoirs, gates, directives, confirmations)
    BY <1>1, <2>2 DEF row, Request, Copied
  <2>. HIDE DEF q
  <2>. QED
    BY <2>1, <2>3, <2>4, <2>5, <2>6, ReadCarries
<1>5. CASE ReadDirectiveForConfirmation(w)
  <2>. DEFINE row == directives[r.conf.directive]
              q == [r EXCEPT !.pc = "conf_gate", !.dir = row]
  <2>1. r.pc = "conf_dir" /\ Executing(row) /\ Serve(w, q)
        /\ UNCHANGED <<tables, approvals, audit>>
    BY <1>5 DEF ReadDirectiveForConfirmation, At, r
  <2>2. /\ row \in DirectiveRow /\ row.code = r.conf.directive
        /\ Faithful(row, row) /\ row # NoRow /\ row.status = "executing"
    BY <1>3, <2>1, LiveRows DEF Executing, Live
  <2>. HIDE DEF row
  <2>3. q \in Request
    BY <1>1, <2>2 DEF Request, PC
  <2>4. Held(q)
    BY <1>1, <1>3, <2>1, <2>2 DEF Request, Held, ResHeld,
       GateHeld, DirHeld, ConfHeld, ResCAS, GateCAS, DirCAS, ConfCAS
  <2>5. Checked(q)
    BY <1>1, <2>1, <2>2 DEF Request, Checked
  <2>6. Copied(q, reservoirs, gates, directives, confirmations)
    BY <1>1, <2>2 DEF row, Request, Copied
  <2>. HIDE DEF q
  <2>. QED
    BY <2>1, <2>3, <2>4, <2>5, <2>6, ReadCarries
<1>6. CASE ReadGateForConfirmation(w)
  <2>. DEFINE row == gates[r.dir.gate]
              q == [r EXCEPT !.pc = "conf_settle", !.gate = row]
  <2>1. /\ r.pc = "conf_gate" /\ Live(row) /\ Serve(w, q)
        /\ LET to == GateOutcome(r.target, r.dir) IN
           row.status = to \/ CanTransition(GateUnitTransitions, row.status, to)
        /\ UNCHANGED <<tables, approvals, audit>>
    BY <1>6 DEF ReadGateForConfirmation, At, r
  <2>2. /\ r.dir \in DirectiveRow /\ r.dir # NoRow /\ r.dir.gate \in Gates
        /\ r.conf # NoRow /\ r.expected <= r.conf.version
    BY <1>1, <2>1 DEF Request, Held, DirHeld, ConfHeld, ConfCAS, DirectiveRow
  <2>3. row \in GateRow /\ row.code = r.dir.gate /\ Faithful(row, row) /\ row # NoRow
    BY <2>1, <2>2, LiveRows DEF Live
  <2>4. LegalGateMove(r.dir, row, GateOutcome(r.target, r.dir))
    BY <2>1, <2>3 DEF LegalGateMove
  <2>. HIDE DEF row
  <2>5. q \in Request
    BY <1>1, <2>3 DEF Request, PC
  <2>6. Held(q)
    BY <1>1, <2>1, <2>2, <2>3 DEF Request, Held, ResHeld,
       GateHeld, DirHeld, ConfHeld, ResCAS, GateCAS, DirCAS, ConfCAS
  <2>7. Checked(q)
    BY <1>1, <2>1, <2>4 DEF Request, Checked
  <2>8. Copied(q, reservoirs, gates, directives, confirmations)
    BY <1>1, <2>3 DEF row, Request, Copied
  <2>. HIDE DEF q
  <2>. QED
    BY <2>1, <2>5, <2>6, <2>7, <2>8, ReadCarries
<1>. QED
  BY <1>2, <1>4, <1>5, <1>6

\* A receipt written in one row: what happens to the table.
LEMMA ConfirmationWrite ==
    ASSUME CoreInv, NEW c \in Confirmations, NEW new \in ConfirmationRow,
           confirmations' = [confirmations EXCEPT ![c] = new], new.code = c,
           RowStep(confirmations[c], new, ExecutionConfirmationTransitions)
    PROVE  /\ confirmations' \in [Confirmations -> ConfirmationRow \cup {NoRow}]
           /\ \A x \in Confirmations :
                  confirmations'[x] # NoRow => confirmations'[x].code = x
           /\ \A x \in Confirmations :
                  RowStep(confirmations[x], confirmations'[x],
                          ExecutionConfirmationTransitions)
BY DEF CoreInv, TypeOK, TablesOK, RowStep

\* A step that writes one confirmation, its audit entry and nothing else.
LEMMA OnlyConfirmationWritten ==
    ASSUME CoreInv, NEW w \in Workers, NEW c \in Confirmations,
           NEW new \in ConfirmationRow, new.code = c,
           confirmations' = [confirmations EXCEPT ![c] = new],
           RowStep(confirmations[c], new, ExecutionConfirmationTransitions),
           NEW from \in AnyStatus, NEW to \in AnyStatus,
           audit' = Logged(audit, ConfirmationEntity(c), from, to),
           OnlyConfirmations, Answer(w)
    PROVE  CoreInv' /\ RowSteps
<1>1. audit' \in [Entities -> [before : AnyStatus, after : AnyStatus]]
  BY LoggedTyped DEF CoreInv, TypeOK, TablesOK
<1>2. /\ confirmations' \in [Confirmations -> ConfirmationRow \cup {NoRow}]
      /\ \A x \in Confirmations :
             confirmations'[x] # NoRow => confirmations'[x].code = x
      /\ \A x \in Confirmations :
             RowStep(confirmations[x], confirmations'[x],
                     ExecutionConfirmationTransitions)
  BY ConfirmationWrite
<1>3. TablesOK' /\ RowSteps
  BY <1>1, <1>2
     DEF CoreInv, TypeOK, TablesOK, RowSteps, RowStep, SignedKept, OnlyConfirmations
<1>. QED
  BY <1>3, CommitCarries

\* A new receipt waits for the directive the request read in execution.
LEMMA ConfirmationCreate ==
    ASSUME CoreInv, NEW w \in Workers, NEW c \in Confirmations,
           CreateConfirmation(w, c)
    PROVE  CoreInv' /\ RowSteps
<1>. DEFINE d == req[w].dir.code
            new == [code |-> c, status |-> "pending", version |-> 1,
                    deleted |-> FALSE, directive |-> d]
<1>1. d \in Directives
  BY DEF CreateConfirmation, CoreInv, TypeOK, Request, Held, DirHeld, At, DirectiveRow
<1>2. /\ confirmations[c] = NoRow /\ OnlyConfirmations /\ Answer(w)
      /\ confirmations' = [confirmations EXCEPT ![c] = new]
      /\ audit' = Logged(audit, ConfirmationEntity(c), "", "pending")
  BY DEF CreateConfirmation
<1>. HIDE DEF d
<1>3. new \in ConfirmationRow /\ new.code = c /\ ~new.deleted
  BY <1>1 DEF ConfirmationRow, ConfirmationState
<1>. HIDE DEF new
<1>4. RowStep(confirmations[c], new, ExecutionConfirmationTransitions)
  BY <1>2, <1>3, StoreAssumption DEF RowStep
<1>5. "" \in AnyStatus /\ "pending" \in AnyStatus
  BY DEF AnyStatus, ConfirmationState
<1>. QED
  BY <1>2, <1>3, <1>4, <1>5, OnlyConfirmationWritten

\* The commits that touch a receipt alone: edit, close, delete.
LEMMA ConfirmationCommits ==
    ASSUME CoreInv, NEW w \in Workers,
           \/ UpdateConfirmation(w) \/ CloseConfirmation(w) \/ DeleteConfirmation(w)
    PROVE  CoreInv' /\ RowSteps
<1>. DEFINE r == req[w]
            item == r.conf
            c == item.code
            v == r.expected + 1
<1>1. /\ r \in Request /\ Held(r) /\ Checked(r)
      /\ Copied(r, reservoirs, gates, directives, confirmations)
      /\ item # NoRow /\ item \in ConfirmationRow
      /\ OnlyConfirmations /\ Answer(w)
  <2>1. r \in Request /\ Held(r) /\ Checked(r)
        /\ Copied(r, reservoirs, gates, directives, confirmations)
    BY DEF CoreInv, TypeOK
  <2>2. item # NoRow /\ item \in ConfirmationRow
    BY <2>1 DEF Request, Held, ConfHeld, UpdateConfirmation, CloseConfirmation,
                DeleteConfirmation, At
  <2>. QED
    BY <2>1, <2>2 DEF UpdateConfirmation, CloseConfirmation, DeleteConfirmation
<1>2. /\ c \in Confirmations /\ item.status \in AnyStatus /\ item.version \in Nat
      /\ Faithful(item, confirmations[c]) /\ r.expected \in Nat /\ v \in Nat
  <2>1. c \in Confirmations /\ item.status \in AnyStatus /\ item.version \in Nat
    BY <1>1 DEF ConfirmationRow, AnyStatus
  <2>2. Faithful(item, confirmations[c])
    BY <1>1 DEF Copied
  <2>3. r.expected \in Nat /\ v \in Nat
    BY <1>1 DEF Request
  <2>. QED
    BY <2>1, <2>2, <2>3
<1>3. confirmations[c] \in ConfirmationRow /\ confirmations[c].code = c
  BY <1>2 DEF CoreInv, TypeOK, TablesOK, Faithful
<1>4. ASSUME r.expected <= item.version, Matches(confirmations[c], r.expected)
      PROVE  confirmations[c] = item /\ Live(item) /\ item.version < v
  BY <1>1, <1>2, <1>3, <1>4, CopyIsRow DEF AnyRow, Matches
<1>5. CASE UpdateConfirmation(w)
  <2>. DEFINE d == r.dir.code
              new == WithDirective(item, d, v)
  <2>1. d \in Directives /\ r.expected <= item.version
    BY <1>1, <1>5 DEF UpdateConfirmation, At, Held, DirHeld, ConfCAS, ConfHeld,
                      Request, DirectiveRow
  <2>2. /\ Matches(confirmations[c], r.expected)
        /\ confirmations' = [confirmations EXCEPT ![c] = new]
        /\ audit' = Logged(audit, ConfirmationEntity(c), item.status, item.status)
    BY <1>5 DEF UpdateConfirmation
  <2>3. confirmations[c] = item /\ Live(item) /\ item.version < v
    BY <1>4, <2>1, <2>2
  <2>. HIDE DEF d, v, r
  <2>4. /\ new \in ConfirmationRow /\ new.code = c
        /\ new.status = item.status /\ new.version = v
    BY <1>1, <1>2, <2>1, ConfirmationRewritten
  <2>. HIDE DEF new
  <2>5. RowStep(confirmations[c], new, ExecutionConfirmationTransitions)
    BY <2>3, <2>4, StoreAssumption DEF RowStep
  <2>. QED
    BY <1>1, <1>2, <2>2, <2>4, <2>5, OnlyConfirmationWritten
<1>6. CASE CloseConfirmation(w)
  <2>. DEFINE to == r.target
              new == WithStatus(item, to, v)
  <2>1. /\ r.expected <= item.version /\ to = "cancelled" /\ item.status = "failed"
    BY <1>1, <1>6 DEF CloseConfirmation, At, Held, ConfCAS, ConfHeld, Checked
  <2>2. /\ Matches(confirmations[c], r.expected)
        /\ confirmations' = [confirmations EXCEPT ![c] = new]
        /\ audit' = Logged(audit, ConfirmationEntity(c), item.status, to)
    BY <1>6 DEF CloseConfirmation
  <2>3. confirmations[c] = item /\ Live(item) /\ item.version < v
    BY <1>4, <2>1, <2>2
  <2>4. /\ to \in ConfirmationState /\ to \in AnyStatus
        /\ CanTransition(ExecutionConfirmationTransitions, item.status, to)
    BY <2>1 DEF ConfirmationState, AnyStatus, CanTransition,
                ExecutionConfirmationTransitions
  <2>. HIDE DEF to, v, r
  <2>5. /\ new \in ConfirmationRow /\ new.code = c /\ new.status = to /\ new.version = v
    BY <1>1, <1>2, <2>4, ConfirmationRewritten
  <2>. HIDE DEF new
  <2>6. RowStep(confirmations[c], new, ExecutionConfirmationTransitions)
    BY <2>3, <2>4, <2>5, StoreAssumption DEF RowStep
  <2>. QED
    BY <1>1, <1>2, <2>2, <2>4, <2>5, <2>6, OnlyConfirmationWritten
<1>7. CASE DeleteConfirmation(w)
  <2>. DEFINE new == SoftDeleted(confirmations[c])
  <2>1. new \in ConfirmationRow /\ new.code = c
    BY <1>3 DEF SoftDeleted, ConfirmationRow
  <2>2. /\ Live(confirmations[c])
        /\ confirmations' = [confirmations EXCEPT ![c] = new]
        /\ audit' = Logged(audit, ConfirmationEntity(c), item.status, "deleted")
    BY <1>7 DEF DeleteConfirmation
  <2>3. RowStep(confirmations[c], new, ExecutionConfirmationTransitions)
    BY <2>2 DEF RowStep
  <2>4. "deleted" \in AnyStatus
    BY DEF AnyStatus
  <2>. QED
    BY <1>1, <1>2, <2>1, <2>2, <2>3, <2>4, OnlyConfirmationWritten
<1>. QED
  BY <1>5, <1>6, <1>7

\* A settlement that passes its version tests writes over the very receipt and
\* directive it read.
LEMMA SettleOnCopy ==
    ASSUME CoreInv, NEW w \in Workers, SettleConfirmation(w)
    PROVE  LET r == req[w]  item == r.conf  directive == r.dir  gate == r.gate
               position == GateOutcome(r.target, directive) IN
           /\ item \in ConfirmationRow /\ item.code \in Confirmations
           /\ confirmations[item.code] = item /\ Live(item)
           /\ r.expected \in Nat /\ item.version = r.expected
           /\ item.status = "pending" /\ r.target \in {"confirmed", "failed"}
           /\ directive \in DirectiveRow /\ directive.code \in Directives
           /\ directives[directive.code] = directive /\ Live(directive)
           /\ directive.version \in Nat /\ directive.status = "executing"
           /\ directive.code = item.directive
           /\ gate \in GateRow /\ Faithful(gate, gates[gate.code])
           /\ position = gate.status
              \/ CanTransition(GateUnitTransitions, gate.status, position)
<1>. DEFINE r == req[w]
            item == r.conf
            c == item.code
            directive == r.dir
            d == directive.code
            gate == r.gate
            position == GateOutcome(r.target, directive)
<1>1. /\ r \in Request /\ r.pc = "conf_settle" /\ Held(r) /\ Checked(r)
      /\ Copied(r, reservoirs, gates, directives, confirmations)
  BY DEF CoreInv, TypeOK, SettleConfirmation, At
<1>2. /\ item # NoRow /\ item \in ConfirmationRow /\ r.expected \in Nat
      /\ directive # NoRow /\ directive \in DirectiveRow
      /\ gate # NoRow /\ gate \in GateRow
  BY <1>1 DEF Request, Held, ConfHeld, DirHeld, GateHeld
<1>3. /\ Faithful(item, confirmations[c]) /\ Faithful(directive, directives[d])
      /\ Faithful(gate, gates[gate.code]) /\ r.expected <= item.version
  BY <1>1, <1>2 DEF Copied, Held, ConfCAS, ConfHeld
<1>4. /\ item.status = "pending" /\ r.target \in {"confirmed", "failed"}
      /\ directive.status = "executing" /\ directive.code = item.directive
      /\ position \in {"", gate.status}
         \/ CanTransition(GateUnitTransitions, gate.status, position)
  BY <1>1 DEF Checked, LegalGateMove
<1>5. position # ""
  BY <1>2, StoreAssumption DEF GateOutcome, DirectiveRow, GateGoal
<1>6. Matches(confirmations[c], r.expected) /\ Matches(directives[d], directive.version)
  BY DEF SettleConfirmation
<1>7. /\ c \in Confirmations /\ d \in Directives /\ directive.version \in Nat
      /\ directive.version <= directive.version
  BY <1>2 DEF ConfirmationRow, DirectiveRow
<1>8. /\ confirmations[c] \in ConfirmationRow \cup {NoRow}
      /\ directives[d] \in DirectiveRow \cup {NoRow}
  BY <1>7 DEF CoreInv, TypeOK, TablesOK
<1>9. confirmations[c] = item /\ Live(item) /\ item.version = r.expected
  BY <1>2, <1>3, <1>6, <1>8, CopyIsRow DEF AnyRow, Matches
<1>10. directives[d] = directive /\ Live(directive)
  BY <1>2, <1>3, <1>6, <1>7, <1>8, CopyIsRow DEF AnyRow, Matches
<1>. QED
  BY <1>2, <1>3, <1>4, <1>5, <1>7, <1>9, <1>10

\* The settlement writes its receipt, its directive and, when the gate is not
\* yet where it should be, the gate.
LEMMA ConfirmationSettles ==
    ASSUME CoreInv, NEW w \in Workers, SettleConfirmation(w)
    PROVE  CoreInv' /\ RowSteps
<1>. DEFINE r == req[w]
            item == r.conf
            c == item.code
            to == r.target
            directive == r.dir
            d == directive.code
            gate == r.gate
            g == gate.code
            outcome == DirectiveOutcome(to)
            position == GateOutcome(to, directive)
            log == Logged(Logged(audit, ConfirmationEntity(c), item.status, to),
                          <<"OperationDirective", d>>, directive.status, outcome)
            v == r.expected + 1
            dv == directive.version + 1
            newConf == WithStatus(item, to, v)
            newDir == WithStatus(directive, outcome, dv)
<1>1. /\ item \in ConfirmationRow /\ c \in Confirmations
      /\ confirmations[c] = item /\ Live(item)
      /\ r.expected \in Nat /\ item.version = r.expected
      /\ item.status = "pending" /\ to \in {"confirmed", "failed"}
  BY SettleOnCopy
<1>2. /\ directive \in DirectiveRow /\ d \in Directives
      /\ directives[d] = directive /\ Live(directive)
      /\ directive.version \in Nat /\ directive.status = "executing"
  BY SettleOnCopy
<1>3. /\ gate \in GateRow /\ Faithful(gate, gates[g])
      /\ position = gate.status \/ CanTransition(GateUnitTransitions, gate.status, position)
  BY SettleOnCopy
<1>4. /\ confirmations' = [confirmations EXCEPT ![c] = newConf]
      /\ directives' = [directives EXCEPT ![d] = newDir]
      /\ \/ gate.status = position /\ UNCHANGED gates /\ audit' = log
         \/ /\ gate.status # position
            /\ Matches(gates[g], gate.version)
            /\ gates' = [gates EXCEPT ![g] =
                   WithStatus(gate, position, gate.version + 1)]
            /\ audit' = Logged(log, <<"GateUnit", g>>, gate.status, position)
      /\ Answer(w) /\ reservoirs' = reservoirs /\ approvals' = approvals
  BY DEF SettleConfirmation
<1>5. /\ v \in Nat /\ item.version < v /\ dv \in Nat /\ directive.version < dv
  BY <1>1, <1>2
<1>6. /\ to \in ConfirmationState /\ outcome \in DirectiveState
      /\ CanTransition(ExecutionConfirmationTransitions, item.status, to)
      /\ CanTransition(OperationDirectiveTransitions, directive.status, outcome)
      /\ to \in AnyStatus /\ outcome \in AnyStatus
      /\ item.status \in AnyStatus /\ directive.status \in AnyStatus
  BY <1>1, <1>2 DEF DirectiveOutcome, ConfirmationState, DirectiveState, CanTransition,
     ExecutionConfirmationTransitions, OperationDirectiveTransitions, AnyStatus
<1>7. log \in [Entities -> [before : AnyStatus, after : AnyStatus]]
  BY <1>6, LoggedTyped DEF CoreInv, TypeOK, TablesOK
<1>. HIDE DEF r, item, to, directive, gate, outcome, position, log, v, dv
<1>8. /\ newConf \in ConfirmationRow /\ newConf.code = c
      /\ newConf.status = to /\ newConf.version = v
  <2>1. item \in ConfirmationRow /\ to \in ConfirmationState /\ v \in Nat
    BY <1>1, <1>5, <1>6
  <2>. QED
    BY <2>1, ConfirmationRewritten
<1>9. /\ newDir \in DirectiveRow /\ newDir.code = d
      /\ newDir.status = outcome /\ newDir.version = dv
      /\ newDir.gate = directive.gate /\ newDir.goal = directive.goal
      /\ newDir.facility = directive.facility
      /\ newDir.submittedBy = directive.submittedBy
      /\ newDir.approvedBy = directive.approvedBy
  BY <1>2, <1>5, <1>6, DirectiveMoved
<1>. HIDE DEF newConf, newDir
<1>10. RowStep(confirmations[c], newConf, ExecutionConfirmationTransitions)
  BY <1>1, <1>5, <1>6, <1>8, StoreAssumption DEF RowStep
<1>11. RowStep(directives[d], newDir, OperationDirectiveTransitions)
  BY <1>2, <1>5, <1>6, <1>9, StoreAssumption DEF RowStep
<1>12. SignedKept(directives[d], newDir)
  BY <1>2, <1>5, <1>9, StoreAssumption DEF SignedKept
<1>13. /\ audit' \in [Entities -> [before : AnyStatus, after : AnyStatus]]
       /\ gates' \in [Gates -> GateRow \cup {NoRow}]
       /\ \A x \in Gates : gates'[x] # NoRow => gates'[x].code = x
       /\ \A x \in Gates : RowStep(gates[x], gates'[x], GateUnitTransitions)
  <2>1. CASE gate.status = position
    <3>1. UNCHANGED gates /\ audit' = log
      BY <1>4, <2>1
    <3>. QED
      BY <1>7, <3>1 DEF CoreInv, TypeOK, TablesOK, RowStep
  <2>2. CASE gate.status # position
    <3>1. /\ Matches(gates[g], gate.version)
          /\ gates' = [gates EXCEPT ![g] =
                 WithStatus(gate, position, gate.version + 1)]
          /\ audit' = Logged(log, <<"GateUnit", g>>, gate.status, position)
          /\ CanTransition(GateUnitTransitions, gate.status, position)
      BY <1>3, <1>4, <2>2
    <3>2. position \in AnyStatus /\ gate.status \in AnyStatus
      BY <1>3, <3>1, GateMoved
    <3>3. audit' \in [Entities -> [before : AnyStatus, after : AnyStatus]]
      BY <1>7, <3>1, <3>2, LoggedTyped
    <3>. QED
      BY <1>3, <3>1, <3>3, GateMoved
  <2>. QED
    BY <2>1, <2>2
<1>14. TablesOK' /\ RowSteps
  <2>. HIDE DEF c, d, g
  <2>1. /\ directives' \in [Directives -> DirectiveRow \cup {NoRow}]
        /\ \A x \in Directives : directives'[x] # NoRow => directives'[x].code = x
        /\ \A x \in Directives :
               /\ RowStep(directives[x], directives'[x], OperationDirectiveTransitions)
               /\ SignedKept(directives[x], directives'[x])
    BY <1>1, <1>2, <1>4, <1>9, <1>11, <1>12, DirectiveWrite
  <2>2. /\ confirmations' \in [Confirmations -> ConfirmationRow \cup {NoRow}]
        /\ \A x \in Confirmations :
               confirmations'[x] # NoRow => confirmations'[x].code = x
        /\ \A x \in Confirmations :
               RowStep(confirmations[x], confirmations'[x],
                       ExecutionConfirmationTransitions)
    BY <1>1, <1>2, <1>4, <1>8, <1>10, ConfirmationWrite
  <2>. QED
    BY <1>4, <1>13, <2>1, <2>2 DEF CoreInv, TypeOK, TablesOK, RowSteps, RowStep
<1>. QED
  BY <1>4, <1>14, CommitCarries

-----------------------------------------------------------------------------
(* Every step of the system.                                               *)

\* The rows database.Seed inserts are typed, and no request is in flight.
LEMMA InitGood == Init => CoreInv
<1>. SUFFICES ASSUME Init PROVE CoreInv
  OBVIOUS
<1>1. /\ reservoirs \in [Reservoirs -> ReservoirRow \cup {NoRow}]
      /\ \A r \in Reservoirs : reservoirs[r] # NoRow => reservoirs[r].code = r
  <2>. DEFINE S == UNION {SeedReservoirs(x) : x \in Reservoirs}
  <2>1. /\ \A r \in Reservoirs : reservoirs[r] \in SeedReservoirs(r)
        /\ reservoirs \in [Reservoirs -> S]
    BY DEF Init
  <2>. HIDE DEF S
  <2>2. ASSUME NEW r \in Reservoirs, NEW row \in SeedReservoirs(r), row # NoRow
        PROVE  row \in ReservoirRow /\ row.code = r
    <3>1. \E s \in {"normal", "warning", "critical"}, f \in Facilities :
              row = [code |-> r, status |-> s, version |-> 1, deleted |-> FALSE,
                     facility |-> f]
      BY <2>2 DEF SeedReservoirs
    <3>. QED
      BY <3>1 DEF ReservoirRow, ReservoirState
  <2>. QED
    BY <2>1, <2>2
<1>2. /\ gates \in [Gates -> GateRow \cup {NoRow}]
      /\ \A g \in Gates : gates[g] # NoRow => gates[g].code = g
  <2>. DEFINE S == UNION {SeedGates(x) : x \in Gates}
  <2>1. /\ \A g \in Gates : gates[g] \in SeedGates(g)
        /\ gates \in [Gates -> S]
    BY DEF Init
  <2>. HIDE DEF S
  <2>2. \A r \in Reservoirs : reservoirs[r] # NoRow => reservoirs[r].facility \in Facilities
    BY <1>1 DEF ReservoirRow
  <2>3. ASSUME NEW g \in Gates, NEW row \in SeedGates(g), row # NoRow
        PROVE  row \in GateRow /\ row.code = g
    <3>1. \E s \in {"open", "closed", "moving"},
             r \in {x \in Reservoirs : reservoirs[x] # NoRow} :
              row = [code |-> g, status |-> s, version |-> 1, deleted |-> FALSE,
                     reservoir |-> r, facility |-> reservoirs[r].facility]
      BY <2>3 DEF SeedGates
    <3>. QED
      BY <2>2, <3>1 DEF GateRow, GateState
  <2>. QED
    BY <2>1, <2>3
<1>3. /\ directives \in [Directives -> DirectiveRow \cup {NoRow}]
      /\ \A d \in Directives : directives[d] # NoRow => directives[d].code = d
  <2>. DEFINE S == UNION {SeedDirectives(x) : x \in Directives}
  <2>1. /\ \A d \in Directives : directives[d] \in SeedDirectives(d)
        /\ directives \in [Directives -> S]
    BY DEF Init
  <2>. HIDE DEF S
  <2>2. ASSUME NEW d \in Directives, NEW row \in SeedDirectives(d), row # NoRow
        PROVE  row \in DirectiveRow /\ row.code = d
    <3>1. PICK g \in Gates, status \in {"draft", "pending", "executing"},
               goal \in Goals, s \in Users \cup {NoUser}, a \in Users \cup {NoUser} :
              row = SeedDirective(d, g, status, goal, s, a) /\ gates[g] # NoRow
      BY <2>2, StoreAssumption DEF SeedDirectives
    <3>2. gates[g].facility \in Facilities
      BY <1>2, <3>1 DEF GateRow
    <3>. QED
      BY <3>1, <3>2 DEF SeedDirective, DirectiveRow, DirectiveState
  <2>. QED
    BY <2>1, <2>2
<1>4. /\ confirmations \in [Confirmations -> ConfirmationRow \cup {NoRow}]
      /\ \A c \in Confirmations : confirmations[c] # NoRow => confirmations[c].code = c
  <2>. DEFINE S == UNION {SeedConfirmations(x) : x \in Confirmations}
  <2>1. /\ \A c \in Confirmations : confirmations[c] \in SeedConfirmations(c)
        /\ confirmations \in [Confirmations -> S]
    BY DEF Init
  <2>. HIDE DEF S
  <2>2. ASSUME NEW c \in Confirmations, NEW row \in SeedConfirmations(c), row # NoRow
        PROVE  row \in ConfirmationRow /\ row.code = c
    <3>1. \E d \in {x \in Directives : Executing(directives[x])} :
              row = [code |-> c, status |-> "pending", version |-> 1,
                     deleted |-> FALSE, directive |-> d]
      BY <2>2 DEF SeedConfirmations
    <3>. QED
      BY <3>1 DEF ConfirmationRow, ConfirmationState
  <2>. QED
    BY <2>1, <2>2
<1>5. approvals \in [Directives -> [submitted : Users \cup {NoUser},
                                    approved : Users \cup {NoUser}]]
  <2>1. \A d \in Directives : directives[d] # NoRow =>
            directives[d].submittedBy \in Users \cup {NoUser}
            /\ directives[d].approvedBy \in Users \cup {NoUser}
    BY <1>3 DEF DirectiveRow
  <2>. QED
    BY <2>1 DEF Init, NoApproval
<1>6. audit \in [Entities -> [before : AnyStatus, after : AnyStatus]]
  BY DEF Init, AnyStatus
<1>7. req = [w \in Workers |-> Idle]
  BY DEF Init
<1>8. TypeOK
  BY <1>1, <1>2, <1>3, <1>4, <1>5, <1>6, <1>7, IdleGood DEF TypeOK, TablesOK
<1>. QED
  BY <1>7, <1>8, IdleGood DEF CoreInv

\* A step that leaves the tables alone is a row step of every row.
LEMMA UntouchedRows ==
    ASSUME UNCHANGED tables
    PROVE  RowSteps
BY DEF tables, RowSteps, RowStep, SignedKept

\* The steps of each service, and a request that ends without effect.
LEMMA ReservoirCarries ==
    ASSUME CoreInv, Lead = 0, NEW w \in Workers, ReservoirNext(w)
    PROVE  CoreInv' /\ RowSteps
<1>1. ASSUME NEW r \in Reservoirs,
             \/ ReadReservoirToUpdate(w, r) \/ ReadReservoirToTransition(w, r)
             \/ ReadReservoirToDelete(w, r)
      PROVE  CoreInv' /\ RowSteps
  BY <1>1, ReservoirReads, UntouchedRows
     DEF ReadReservoirToUpdate, ReadReservoirToTransition, ReadReservoirToDelete
<1>. QED
  BY <1>1, ReservoirCreate, ReservoirCommits DEF ReservoirNext

\* Every step of the gate service keeps the core invariant, row by row.
LEMMA GateCarries ==
    ASSUME CoreInv, Lead = 0, NEW w \in Workers, GateNext(w)
    PROVE  CoreInv' /\ RowSteps
<1>1. ASSUME NEW g \in Gates,
             \/ ReadGateToUpdate(w, g) \/ ReadGateToTransition(w, g)
             \/ ReadGateToDelete(w, g)
      PROVE  CoreInv' /\ RowSteps
  BY <1>1, GateReads, UntouchedRows
     DEF ReadGateToUpdate, ReadGateToTransition, ReadGateToDelete
<1>2. ASSUME \/ \E r \in Reservoirs : ReadReservoirToCreateGate(w, r)
             \/ ReadReservoirToUpdateGate(w)
      PROVE  CoreInv' /\ RowSteps
  BY <1>2, GateReservoirReads, UntouchedRows
     DEF ReadReservoirToCreateGate, ReadReservoirToUpdateGate
<1>. QED
  BY <1>1, <1>2, GateCreate, GateCommits DEF GateNext

\* Every step of the directive service does.
LEMMA DirectiveCarries ==
    ASSUME CoreInv, Lead = 0, NEW w \in Workers, DirectiveNext(w)
    PROVE  CoreInv' /\ RowSteps
<1>1. ASSUME \/ \E g \in Gates : ReadGateToCreateDirective(w, g)
             \/ \E d \in Directives : \/ ReadDirectiveToUpdate(w, d)
                                      \/ ReadDirectiveToTransition(w, d)
                                      \/ ReadDirectiveToDelete(w, d)
      PROVE  CoreInv' /\ RowSteps
  BY <1>1, DirectiveFirstReads, UntouchedRows
     DEF ReadGateToCreateDirective, ReadDirectiveToUpdate,
         ReadDirectiveToTransition, ReadDirectiveToDelete
<1>2. ASSUME \/ \E g \in Gates : ReadGateToUpdateDirective(w, g)
             \/ ReadGateForDirective(w)
      PROVE  CoreInv' /\ RowSteps
  BY <1>2, DirectiveGateReads, UntouchedRows
     DEF ReadGateToUpdateDirective, ReadGateForDirective
<1>. QED
  BY <1>1, <1>2, DirectiveCreate, DirectiveUpdate, DirectiveTransition,
     DirectiveDelete DEF DirectiveNext

\* Every step of the confirmation service does.
LEMMA ConfirmationCarries ==
    ASSUME CoreInv, Lead = 0, NEW w \in Workers, ConfirmationNext(w)
    PROVE  CoreInv' /\ RowSteps
<1>1. ASSUME \/ \E d \in Directives : ReadDirectiveToCreateConfirmation(w, d)
             \/ \E c \in Confirmations : \/ ReadConfirmationToUpdate(w, c)
                                         \/ ReadConfirmationToTransition(w, c)
                                         \/ ReadConfirmationToDelete(w, c)
      PROVE  CoreInv' /\ RowSteps
  BY <1>1, ConfirmationFirstReads, UntouchedRows
     DEF ReadDirectiveToCreateConfirmation, ReadConfirmationToUpdate,
         ReadConfirmationToTransition, ReadConfirmationToDelete
<1>2. ASSUME \/ CountConfirmations(w) \/ ReadDirectiveToUpdateConfirmation(w)
             \/ ReadDirectiveForConfirmation(w) \/ ReadGateForConfirmation(w)
      PROVE  CoreInv' /\ RowSteps
  BY <1>2, ConfirmationNextReads, UntouchedRows
     DEF CountConfirmations, ReadDirectiveToUpdateConfirmation,
         ReadDirectiveForConfirmation, ReadGateForConfirmation
<1>. QED
  BY <1>1, <1>2, ConfirmationCreate, ConfirmationCommits, ConfirmationSettles
     DEF ConfirmationNext

\* So does every step of the system: the inductive step of all that follows.
LEMMA NextCarries ==
    ASSUME CoreInv, Lead = 0, [Next]_vars
    PROVE  CoreInv' /\ RowSteps
<1>1. CASE UNCHANGED vars
  <2>1. UNCHANGED tables /\ approvals' = approvals /\ audit' = audit /\ req' = req
    BY <1>1 DEF vars, tables
  <2>2. CoreInv'
    BY <2>1 DEF CoreInv, TypeOK, TablesOK, tables
  <2>. QED
    BY <2>1, <2>2, UntouchedRows
<1>2. ASSUME NEW w \in Workers, Fail(w)
      PROVE  CoreInv' /\ RowSteps
  <2>1. UNCHANGED tables /\ approvals' = approvals /\ audit' = audit /\ Answer(w)
    BY <1>2 DEF Fail
  <2>2. RowSteps
    BY <2>1, UntouchedRows
  <2>3. TablesOK'
    BY <2>1 DEF CoreInv, TypeOK, TablesOK, tables
  <2>. QED
    BY <2>1, <2>2, <2>3, CommitCarries
<1>. QED
  BY <1>1, <1>2, ReservoirCarries, GateCarries, DirectiveCarries,
     ConfirmationCarries DEF Next

-----------------------------------------------------------------------------

\* While no client guesses a version, the core invariant holds for ever.
THEOREM CoreInvariance ==
    ASSUME Lead = 0
    PROVE  Spec => []CoreInv
<1>1. Init => CoreInv
  BY InitGood
<1>2. CoreInv /\ [Next]_vars => CoreInv'
  BY NextCarries
<1>. QED
  BY <1>1, <1>2, PTL DEF Spec

\* repository/base.go 84-121: whatever interleaves, a row is inserted once, then
\* only gets later versions and statuses along its graph, or its deletion mark,
\* and a deleted row is never written again.
THEOREM RowsMoveOn ==
    ASSUME Lead = 0
    PROVE  Spec => [][RowSteps]_vars
<1>1. CoreInv /\ [Next]_vars => RowSteps
  BY NextCarries
<1>. QED
  BY <1>1, CoreInvariance, PTL DEF Spec

\* Rows keep the columns and codes of their tables, and requests carry copies
\* of rows of the tables their handlers read, whatever interleaves.
THEOREM TypeCorrectness ==
    ASSUME Lead = 0
    PROVE  Spec => []TypeOK
<1>1. CoreInv => TypeOK
  BY DEF CoreInv
<1>. QED
  BY <1>1, CoreInvariance, PTL

\* Optimistic locking works (repository/base.go 84-99): an update whose version
\* test passes writes over exactly the row its handler read, for any number of
\* concurrent requests, although the handler never compares the version the
\* client sent with that of its copy.
THEOREM NothingLost ==
    ASSUME Lead = 0
    PROVE  Spec => []NoLostUpdate
<1>1. ASSUME CoreInv PROVE NoLostUpdate
  <2>. SUFFICES ASSUME NEW w \in Workers
                PROVE  LET r == req[w] IN
        /\ r.pc \in {"res_update", "res_transition"}
           /\ Matches(reservoirs[r.res.code], r.expected)
               => reservoirs[r.res.code] = r.res
        /\ r.pc \in {"gate_update", "gate_update_commit", "gate_transition"}
           /\ Matches(gates[r.gate.code], r.expected)
               => gates[r.gate.code] = r.gate
        /\ r.pc \in {"dir_update", "dir_update_commit", "dir_gate", "dir_transition"}
           /\ Matches(directives[r.dir.code], r.expected)
               => directives[r.dir.code] = r.dir
        /\ r.pc \in {"conf_update", "conf_update_commit", "conf_dir",
                     "conf_gate", "conf_settle", "conf_close"}
           /\ Matches(confirmations[r.conf.code], r.expected)
               => confirmations[r.conf.code] = r.conf
        /\ r.pc \in {"conf_gate", "conf_settle"}
           /\ Matches(directives[r.dir.code], r.dir.version)
               => directives[r.dir.code] = r.dir
        /\ r.pc \in {"dir_transition", "conf_settle"} /\ r.gate # NoRow
           /\ Matches(gates[r.gate.code], r.gate.version)
               => gates[r.gate.code] = r.gate
    BY DEF NoLostUpdate
  <2>. DEFINE r == req[w]
  <2>1. /\ r \in Request /\ Held(r)
        /\ Copied(r, reservoirs, gates, directives, confirmations)
    BY <1>1 DEF CoreInv, TypeOK
  <2>. HIDE DEF r
  <2>2. r.expected \in Nat
    BY <2>1 DEF Request
  <2>3. ASSUME r.res # NoRow, NEW e \in Nat, e <= r.res.version,
               Matches(reservoirs[r.res.code], e)
        PROVE  reservoirs[r.res.code] = r.res
    <3>1. r.res \in AnyRow /\ r.res.code \in Reservoirs
      BY <2>1, <2>3 DEF Request, AnyRow, ReservoirRow
    <3>2. reservoirs[r.res.code] \in AnyRow \cup {NoRow}
      BY <1>1, <3>1 DEF CoreInv, TypeOK, TablesOK, AnyRow
    <3>. QED
      BY <2>1, <2>3, <3>1, <3>2, CopyIsRow DEF Copied
  <2>4. ASSUME r.gate # NoRow, NEW e \in Nat, e <= r.gate.version,
               Matches(gates[r.gate.code], e)
        PROVE  gates[r.gate.code] = r.gate
    <3>1. r.gate \in AnyRow /\ r.gate.code \in Gates
      BY <2>1, <2>4 DEF Request, AnyRow, GateRow
    <3>2. gates[r.gate.code] \in AnyRow \cup {NoRow}
      BY <1>1, <3>1 DEF CoreInv, TypeOK, TablesOK, AnyRow
    <3>. QED
      BY <2>1, <2>4, <3>1, <3>2, CopyIsRow DEF Copied
  <2>5. ASSUME r.dir # NoRow, NEW e \in Nat, e <= r.dir.version,
               Matches(directives[r.dir.code], e)
        PROVE  directives[r.dir.code] = r.dir
    <3>1. r.dir \in AnyRow /\ r.dir.code \in Directives
      BY <2>1, <2>5 DEF Request, AnyRow, DirectiveRow
    <3>2. directives[r.dir.code] \in AnyRow \cup {NoRow}
      BY <1>1, <3>1 DEF CoreInv, TypeOK, TablesOK, AnyRow
    <3>. QED
      BY <2>1, <2>5, <3>1, <3>2, CopyIsRow DEF Copied
  <2>6. ASSUME r.conf # NoRow, NEW e \in Nat, e <= r.conf.version,
               Matches(confirmations[r.conf.code], e)
        PROVE  confirmations[r.conf.code] = r.conf
    <3>1. r.conf \in AnyRow /\ r.conf.code \in Confirmations
      BY <2>1, <2>6 DEF Request, AnyRow, ConfirmationRow
    <3>2. confirmations[r.conf.code] \in AnyRow \cup {NoRow}
      BY <1>1, <3>1 DEF CoreInv, TypeOK, TablesOK, AnyRow
    <3>. QED
      BY <2>1, <2>6, <3>1, <3>2, CopyIsRow DEF Copied
  <2>7. /\ r.pc \in ResCAS => r.res # NoRow /\ r.expected <= r.res.version
        /\ r.pc \in GateCAS => r.gate # NoRow /\ r.expected <= r.gate.version
        /\ r.pc \in DirCAS => r.dir # NoRow /\ r.expected <= r.dir.version
        /\ r.pc \in ConfCAS => r.conf # NoRow /\ r.expected <= r.conf.version
        /\ r.pc \in {"conf_gate", "conf_settle"} => r.dir # NoRow
    BY <2>1 DEF Held, ResHeld, GateHeld, DirHeld, ConfHeld, ResCAS, GateCAS,
                DirCAS, ConfCAS
  <2>8. r.dir # NoRow => r.dir.version \in Nat /\ r.dir.version <= r.dir.version
    BY <2>1 DEF Request, DirectiveRow
  <2>9. r.gate # NoRow => r.gate.version \in Nat /\ r.gate.version <= r.gate.version
    BY <2>1 DEF Request, GateRow
  <2>. QED
    BY <2>2, <2>3, <2>4, <2>5, <2>6, <2>7, <2>8, <2>9
       DEF r, ResCAS, GateCAS, DirCAS, ConfCAS, ConfHeld
<1>. QED
  BY <1>1, CoreInvariance, PTL

\* A directive only moves along its graph (README 44), under any interleaving.
THEOREM DirectivesFollowGraph ==
    ASSUME Lead = 0
    PROVE  Spec => DirectiveFollowsGraph
<1>1. ASSUME CoreInv, [Next]_vars
      PROVE  \A d \in Directives :
                 Follows(directives[d], directives'[d], OperationDirectiveTransitions)
  <2>1. ASSUME NEW d \in Directives
        PROVE  Follows(directives[d], directives'[d], OperationDirectiveTransitions)
    <3>1. RowStep(directives[d], directives'[d], OperationDirectiveTransitions)
      BY <1>1, NextCarries DEF RowSteps
    <3>2. directives[d] \in AnyRow \cup {NoRow}
      BY <1>1 DEF CoreInv, TypeOK, TablesOK, AnyRow
    <3>. QED
      BY <3>1, <3>2, SoftDeletedRow DEF RowStep, Follows
  <2>. QED
    BY <2>1
<1>. QED
  BY <1>1, CoreInvariance, PTL DEF Spec, DirectiveFollowsGraph

\* A gate only moves along its graph, whichever service moves it.
THEOREM GatesFollowGraph ==
    ASSUME Lead = 0
    PROVE  Spec => GateFollowsGraph
<1>1. ASSUME CoreInv, [Next]_vars
      PROVE  \A g \in Gates : Follows(gates[g], gates'[g], GateUnitTransitions)
  <2>1. ASSUME NEW g \in Gates
        PROVE  Follows(gates[g], gates'[g], GateUnitTransitions)
    <3>1. RowStep(gates[g], gates'[g], GateUnitTransitions)
      BY <1>1, NextCarries DEF RowSteps
    <3>2. gates[g] \in AnyRow \cup {NoRow}
      BY <1>1 DEF CoreInv, TypeOK, TablesOK, AnyRow
    <3>. QED
      BY <3>1, <3>2, SoftDeletedRow DEF RowStep, Follows
  <2>. QED
    BY <2>1
<1>. QED
  BY <1>1, CoreInvariance, PTL DEF Spec, GateFollowsGraph

\* A reservoir only moves along its graph, edited and moved at the same time.
THEOREM ReservoirsFollowGraph ==
    ASSUME Lead = 0
    PROVE  Spec => ReservoirFollowsGraph
<1>1. ASSUME CoreInv, [Next]_vars
      PROVE  \A r \in Reservoirs :
                 Follows(reservoirs[r], reservoirs'[r], ReservoirTransitions)
  <2>1. ASSUME NEW r \in Reservoirs
        PROVE  Follows(reservoirs[r], reservoirs'[r], ReservoirTransitions)
    <3>1. RowStep(reservoirs[r], reservoirs'[r], ReservoirTransitions)
      BY <1>1, NextCarries DEF RowSteps
    <3>2. reservoirs[r] \in AnyRow \cup {NoRow}
      BY <1>1 DEF CoreInv, TypeOK, TablesOK, AnyRow
    <3>. QED
      BY <3>1, <3>2, SoftDeletedRow DEF RowStep, Follows
  <2>. QED
    BY <2>1
<1>. QED
  BY <1>1, CoreInvariance, PTL DEF Spec, ReservoirFollowsGraph

\* What was signed stays what it was, under any interleaving.
THEOREM SignedContentFrozen ==
    ASSUME Lead = 0
    PROVE  Spec => ApprovedContentFrozen
<1>1. ASSUME CoreInv, [Next]_vars
      PROVE  \A d \in Directives : SignedKept(directives[d], directives'[d])
  BY <1>1, NextCarries DEF RowSteps
<1>. QED
  BY <1>1, CoreInvariance, PTL DEF Spec, ApprovedContentFrozen

-----------------------------------------------------------------------------
(* Two people sign every permit.                                           *)

\* A seeded directive carries the signatures of its status.
LEMMA InitSigned ==
    ASSUME Init, NEW d \in Directives
    PROVE  Signatures(directives[d], approvals[d])
<1>1. directives[d] \in SeedDirectives(d)
      /\ approvals[d] = IF directives[d] = NoRow THEN NoApproval
                        ELSE [submitted |-> directives[d].submittedBy,
                              approved |-> directives[d].approvedBy]
  BY DEF Init
<1>2. CASE directives[d] = NoRow
  BY <1>1, <1>2 DEF Signatures
<1>3. CASE directives[d] # NoRow
  <2>1. PICK g \in Gates, status \in {"draft", "pending", "executing"},
             goal \in Goals, s \in Users \cup {NoUser}, a \in Users \cup {NoUser} :
            /\ directives[d] = SeedDirective(d, g, status, goal, s, a)
            /\ status # "draft" => s # NoUser
            /\ status = "executing" => a # NoUser /\ ~SameUser(s, a)
    BY <1>1, <1>3, StoreAssumption DEF SeedDirectives
  <2>. QED
    BY <1>1, <1>3, <2>1 DEF Signatures, SeedDirective
<1>. QED
  BY <1>2, <1>3

\* Who wrote what of a signed directive: the copy's signatures go with the row.
LEMMA NextSigned ==
    ASSUME SignedInv, Lead = 0, [Next]_vars, NEW d \in Directives
    PROVE  Signatures(directives'[d], approvals'[d])
<1>. DEFINE old == directives[d]
<1>1. /\ CoreInv /\ Signatures(old, approvals[d])
      /\ directives \in [Directives -> DirectiveRow \cup {NoRow}]
      /\ approvals \in [Directives -> [submitted : Users \cup {NoUser},
                                       approved : Users \cup {NoUser}]]
  BY DEF SignedInv, CoreInv, TypeOK, TablesOK
<1>2. CASE UNCHANGED <<directives, approvals>>
  BY <1>1, <1>2
<1>3. ASSUME NEW w \in Workers, NEW x \in Directives, CreateDirective(w, x)
      PROVE  Signatures(directives'[d], approvals'[d])
  <2>. DEFINE row(goal) ==
                  [code |-> x, status |-> "draft", version |-> 1, deleted |-> FALSE,
                   gate |-> req[w].gate.code, goal |-> goal,
                   facility |-> req[w].gate.facility,
                   submittedBy |-> NoUser, approvedBy |-> NoUser]
  <2>1. PICK goal \in Goals : directives' = [directives EXCEPT ![x] = row(goal)]
    BY <1>3 DEF CreateDirective
  <2>2. approvals' = approvals /\ approvals[x] = NoApproval
    BY <1>3 DEF CreateDirective, SignedInv, Signatures
  <2>3. Signatures(row(goal), approvals[x])
    BY <2>2 DEF Signatures, NoApproval
  <2>. HIDE DEF row
  <2>. QED
    BY <1>1, <2>1, <2>2, <2>3
<1>4. ASSUME NEW w \in Workers, UpdateDirective(w)
      PROVE  Signatures(directives'[d], approvals'[d])
  <2>. DEFINE item == req[w].dir
              gate == req[w].gate
              v == req[w].expected + 1
  <2>1. /\ item \in DirectiveRow /\ item.code \in Directives
        /\ directives[item.code] = item /\ Live(item) /\ gate \in GateRow
        /\ req[w].expected \in Nat
    BY <1>1, <1>4, UpdateOnCopy
  <2>2. v \in Nat
    BY <2>1
  <2>3. PICK goal \in Goals :
            directives' = [directives EXCEPT ![item.code] = Edited(item, gate, goal, v)]
    BY <1>4 DEF UpdateDirective
  <2>4. approvals' = approvals
    BY <1>4 DEF UpdateDirective
  <2>. DEFINE new == Edited(item, gate, goal, v)
  <2>. HIDE DEF item, gate, v
  <2>5. /\ new \in DirectiveRow /\ new.status = item.status
        /\ new.submittedBy = item.submittedBy /\ new.approvedBy = item.approvedBy
    BY <2>1, <2>2, DirectiveEdited
  <2>. HIDE DEF new
  <2>6. Signatures(item, approvals[item.code])
    BY <2>1 DEF SignedInv
  <2>7. Signatures(new, approvals[item.code])
    BY <2>1, <2>5, <2>6, StoreAssumption DEF Signatures, Live
  <2>8. directives' = [directives EXCEPT ![item.code] = new]
    BY <2>3 DEF new
  <2>. QED
    BY <1>1, <2>1, <2>4, <2>7, <2>8
<1>5. ASSUME NEW w \in Workers, TransitionDirective(w)
      PROVE  Signatures(directives'[d], approvals'[d])
  <2>. DEFINE item == req[w].dir
              x == item.code
              to == req[w].target
              user == req[w].actor
              v == req[w].expected + 1
              new == Signed(item, to, user, v)
  <2>1. /\ item \in DirectiveRow /\ x \in Directives
        /\ directives[x] = item /\ Live(item) /\ req[w].expected \in Nat
        /\ user \in Users /\ to \in DirectiveState
        /\ CanTransition(OperationDirectiveTransitions, item.status, to)
        /\ TwoPersonRule(item, to, user)
    BY <1>1, <1>5, TransitionOnCopy
  <2>2. v \in Nat /\ user # NoUser
    BY <2>1, StoreAssumption
  <2>3. /\ directives' = [directives EXCEPT ![x] = new]
        /\ RecordApproval(x, to, user)
    BY <1>5 DEF TransitionDirective
  <2>4. Signatures(item, approvals[x])
    BY <2>1 DEF SignedInv
  <2>. HIDE DEF item, to, user, v
  <2>5. /\ new \in DirectiveRow /\ new.status = to
        /\ new.submittedBy = IF to = "pending" THEN user ELSE item.submittedBy
        /\ new.approvedBy = IF to = "approved" THEN user ELSE item.approvedBy
    BY <2>1, <2>2, DirectiveSigned
  <2>. HIDE DEF new, x
  <2>6. new # NoRow /\ item # NoRow
    BY <2>1, <2>5, StoreAssumption
  <2>7. \/ to = "pending" /\ item.status = "draft"
        \/ to = "approved" /\ item.status = "pending"
        \/ to \notin {"pending", "approved"} /\ item.status # "draft"
           /\ (to \in {"executing", "completed"} =>
                  item.status \in {"approved", "executing"})
    BY <2>1 DEF CanTransition, OperationDirectiveTransitions
  <2>8. Signatures(new, approvals'[x]) /\ \A y \in Directives \ {x} : approvals'[y] = approvals[y]
    <3>1. CASE to = "pending"
      <4>1. approvals' = [approvals EXCEPT ![x].submitted = user]
        BY <2>3, <3>1 DEF RecordApproval
      <4>. QED
        BY <1>1, <2>1, <2>2, <2>4, <2>5, <2>6, <3>1, <4>1 DEF Signatures
    <3>2. CASE to = "approved"
      <4>1. approvals' = [approvals EXCEPT ![x].approved = user]
        BY <2>3, <3>2 DEF RecordApproval
      <4>2. item.submittedBy # NoUser /\ ~SameUser(item.submittedBy, user)
        BY <2>1, <3>2 DEF TwoPersonRule
      <4>. QED
        BY <1>1, <2>1, <2>2, <2>4, <2>5, <2>6, <3>2, <4>1, <4>2 DEF Signatures
    <3>3. CASE to \notin {"pending", "approved"}
      <4>1. approvals' = approvals
        BY <2>3, <3>3 DEF RecordApproval
      <4>. QED
        BY <2>1, <2>4, <2>5, <2>6, <2>7, <3>3, <4>1 DEF Signatures
    <3>. QED
      BY <3>1, <3>2, <3>3
  <2>. QED
    BY <1>1, <2>1, <2>3, <2>8
<1>6. ASSUME NEW w \in Workers, DeleteDirective(w)
      PROVE  Signatures(directives'[d], approvals'[d])
  <2>. DEFINE x == req[w].dir.code
              row == directives[x]
              new == SoftDeleted(row)
  <2>1. /\ Live(row) /\ directives' = [directives EXCEPT ![x] = new]
        /\ approvals' = approvals
    BY <1>6 DEF DeleteDirective
  <2>2. x \in Directives
    BY <1>1, <1>6 DEF CoreInv, TypeOK, DeleteDirective, At, Request, Held, DirHeld,
                      DirectiveRow
  <2>3. row \in DirectiveRow
    BY <1>1, <2>1, <2>2 DEF Live
  <2>4. Signatures(row, approvals[x])
    BY <2>2 DEF SignedInv
  <2>5. /\ new.status = row.status /\ new.submittedBy = row.submittedBy
        /\ new.approvedBy = row.approvedBy /\ new \in DirectiveRow
    BY <2>3 DEF SoftDeleted, DirectiveRow
  <2>. HIDE DEF new
  <2>6. Signatures(new, approvals[x])
    BY <2>1, <2>4, <2>5, StoreAssumption DEF Signatures, Live
  <2>. QED
    BY <1>1, <2>1, <2>2, <2>6
<1>7. ASSUME NEW w \in Workers, SettleConfirmation(w)
      PROVE  Signatures(directives'[d], approvals'[d])
  <2>. DEFINE item == req[w].dir
              x == item.code
              to == DirectiveOutcome(req[w].target)
              v == item.version + 1
              new == WithStatus(item, to, v)
  <2>1. /\ item \in DirectiveRow /\ x \in Directives
        /\ directives[x] = item /\ Live(item) /\ item.version \in Nat
        /\ item.status = "executing"
    BY <1>1, <1>7, SettleOnCopy
  <2>2. v \in Nat /\ to \in DirectiveState
    BY <2>1 DEF DirectiveOutcome, DirectiveState
  <2>3. directives' = [directives EXCEPT ![x] = new] /\ approvals' = approvals
    BY <1>7 DEF SettleConfirmation
  <2>4. Signatures(item, approvals[x])
    BY <2>1 DEF SignedInv
  <2>. HIDE DEF item, to, v
  <2>5. /\ new \in DirectiveRow /\ new.submittedBy = item.submittedBy
        /\ new.approvedBy = item.approvedBy
    BY <2>1, <2>2, DirectiveMoved
  <2>. HIDE DEF new, x
  <2>6. Signatures(new, approvals[x])
    BY <2>1, <2>4, <2>5, StoreAssumption DEF Signatures, Live
  <2>. QED
    BY <1>1, <2>1, <2>3, <2>6
<1>8. ASSUME NEW w \in Workers, DirectiveNext(w)
      PROVE  Signatures(directives'[d], approvals'[d])
  BY <1>2, <1>3, <1>4, <1>5, <1>6, <1>8
     DEF DirectiveNext, tables, ReadGateToCreateDirective, ReadGateToUpdateDirective,
         ReadDirectiveToUpdate, ReadDirectiveToTransition, ReadDirectiveToDelete,
         ReadGateForDirective
<1>9. ASSUME NEW w \in Workers, ConfirmationNext(w)
      PROVE  Signatures(directives'[d], approvals'[d])
  BY <1>2, <1>7, <1>9
     DEF ConfirmationNext, tables, OnlyConfirmations, ReadDirectiveToCreateConfirmation,
         CountConfirmations, CreateConfirmation, ReadConfirmationToUpdate,
         ReadDirectiveToUpdateConfirmation, UpdateConfirmation,
         ReadConfirmationToTransition, ReadDirectiveForConfirmation,
         ReadGateForConfirmation, CloseConfirmation, ReadConfirmationToDelete,
         DeleteConfirmation
<1>10. ASSUME NEW w \in Workers, ReservoirNext(w) \/ GateNext(w) \/ Fail(w)
       PROVE  UNCHANGED <<directives, approvals>>
  BY <1>10
     DEF ReservoirNext, GateNext, Fail, tables, ReservoirFrame, GateFrame,
         CreateReservoir, ReadReservoirToUpdate, ReadReservoirToTransition,
         ReadReservoirToDelete, UpdateReservoir, TransitionReservoir, DeleteReservoir,
         ReadReservoirToCreateGate, CreateGate, ReadGateToUpdate, ReadGateToTransition,
         ReadGateToDelete, ReadReservoirToUpdateGate, UpdateGate, TransitionGate,
         DeleteGate
<1>11. CASE UNCHANGED vars
  BY <1>2, <1>11 DEF vars
<1>. QED
  BY <1>2, <1>8, <1>9, <1>10, <1>11 DEF Next

\* The two-person rule (README 45) for every set of accounts and every case
\* folding of their names: a directive past its approval has two signatures of
\* different accounts, and the approval rows agree with the directive.
THEOREM TwoPeopleSign ==
    ASSUME Lead = 0
    PROVE  Spec => []TwoPersonApproval
<1>1. ASSUME Init PROVE SignedInv
  BY <1>1, InitGood, InitSigned DEF SignedInv
<1>2. ASSUME SignedInv, [Next]_vars PROVE SignedInv'
  <2>1. CoreInv'
    BY <1>2, NextCarries DEF SignedInv
  <2>2. \A d \in Directives : Signatures(directives'[d], approvals'[d])
    BY <1>2, NextSigned
  <2>. QED
    BY <2>1, <2>2 DEF SignedInv
<1>3. SignedInv => TwoPersonApproval
  BY DEF SignedInv, Signatures, TwoPersonApproval
<1>. QED
  BY <1>1, <1>2, <1>3, PTL DEF Spec

-----------------------------------------------------------------------------
(***************************************************************************)
(* No status changes without the entry that says so: the audit entry each  *)
(* commit appends comes from the copy the handler read, and still tells    *)
(* the truth about the row, because the row is the copy when the version   *)
(* test of the update passes.                                              *)
(***************************************************************************)

\* What EvidenceMatchesStep says of one step.
EvidenceStep ==
    /\ \A r \in Reservoirs : Evidenced(reservoirs[r], reservoirs'[r],
                                       audit'[<<"Reservoir", r>>])
    /\ \A g \in Gates : Evidenced(gates[g], gates'[g], audit'[<<"GateUnit", g>>])
    /\ \A d \in Directives : Evidenced(directives[d], directives'[d],
                                       audit'[<<"OperationDirective", d>>])
    /\ \A c \in Confirmations : Evidenced(confirmations[c], confirmations'[c],
                                          audit'[<<"ExecutionConfirmation", c>>])

\* The entry of a status change, as an update that found its copy leaves it.
Entry(from, to) == [before |-> from, after |-> to]

-----------------------------------------------------------------------------
(* The log and the rows a step leaves alone.                               *)

\* AppendAudit adds the entry of its entity and keeps those of all others.
LEMMA LoggedEntry ==
    ASSUME NEW log \in [Entities -> [before : AnyStatus, after : AnyStatus]],
           NEW entity \in Entities, NEW from, NEW to
    PROVE  /\ Logged(log, entity, from, to)[entity] = Entry(from, to)
           /\ \A other \in Entities \ {entity} :
                  Logged(log, entity, from, to)[other] = log[other]
BY DEF Logged, Entry

\* A row that stays as it is needs no entry.
LEMMA StillRow ==
    ASSUME NEW row, NEW entry
    PROVE  Evidenced(row, row, entry)
BY DEF Evidenced

\* A step that leaves all four tables alone needs none.
LEMMA QuietStep ==
    ASSUME UNCHANGED tables
    PROVE  EvidenceStep
BY StillRow DEF tables, EvidenceStep

\* A row rewritten with another status by an update that found its copy, or
\* kept, or inserted, or soft-deleted, matches the entry of that change.
LEMMA RowEvidenced ==
    ASSUME NEW old, NEW new, NEW from, NEW to
    PROVE  /\ old # NoRow /\ old.status = from /\ new.status = to
                  => Evidenced(old, new, Entry(from, to))
           /\ old # NoRow /\ new.status = old.status
                  => Evidenced(old, new, Entry(from, to))
           /\ old = NoRow /\ from = "" /\ new.status = to
                  => Evidenced(old, new, Entry(from, to))
BY DEF Evidenced, Entry

-----------------------------------------------------------------------------
(* Commits that write one row and append one entry.                        *)

\* A commit of the reservoir service that leaves a true entry of its row is
\* evidenced, for the other tables stay as they are.
LEMMA ReservoirEntered ==
    ASSUME CoreInv, NEW r \in Reservoirs, NEW new, NEW from, NEW to,
           reservoirs' = [reservoirs EXCEPT ![r] = new],
           audit' = Logged(audit, ReservoirEntity(r), from, to),
           Evidenced(reservoirs[r], new, Entry(from, to)),
           ReservoirFrame
    PROVE  EvidenceStep
<1>1. audit \in [Entities -> [before : AnyStatus, after : AnyStatus]]
      /\ reservoirs \in [Reservoirs -> ReservoirRow \cup {NoRow}]
  BY DEF CoreInv, TypeOK, TablesOK
<1>2. <<"Reservoir", r>> \in Entities
  BY DEF Entities
<1>3. audit'[<<"Reservoir", r>>] = Entry(from, to)
  BY <1>1, <1>2, LoggedEntry DEF ReservoirEntity
<1>4. ASSUME NEW x \in Reservoirs
      PROVE  Evidenced(reservoirs[x], reservoirs'[x], audit'[<<"Reservoir", x>>])
  <2>1. CASE x = r
    <3>1. reservoirs'[x] = new
      BY <1>1, <2>1
    <3>. QED
      BY <1>3, <2>1, <3>1
  <2>2. CASE x # r
    <3>1. reservoirs'[x] = reservoirs[x]
      BY <1>1, <2>2
    <3>. QED
      BY <3>1, StillRow
  <2>. QED
    BY <2>1, <2>2
<1>. QED
  BY <1>4, StillRow DEF EvidenceStep, ReservoirFrame

\* The same for the gate service.
LEMMA GateEntered ==
    ASSUME CoreInv, NEW g \in Gates, NEW new, NEW from, NEW to,
           gates' = [gates EXCEPT ![g] = new],
           audit' = Logged(audit, GateEntity(g), from, to),
           Evidenced(gates[g], new, Entry(from, to)),
           GateFrame
    PROVE  EvidenceStep
<1>1. audit \in [Entities -> [before : AnyStatus, after : AnyStatus]]
      /\ gates \in [Gates -> GateRow \cup {NoRow}]
  BY DEF CoreInv, TypeOK, TablesOK
<1>2. <<"GateUnit", g>> \in Entities
  BY DEF Entities
<1>3. audit'[<<"GateUnit", g>>] = Entry(from, to)
  BY <1>1, <1>2, LoggedEntry DEF GateEntity
<1>4. ASSUME NEW x \in Gates
      PROVE  Evidenced(gates[x], gates'[x], audit'[<<"GateUnit", x>>])
  <2>1. CASE x = g
    <3>1. gates'[x] = new
      BY <1>1, <2>1
    <3>. QED
      BY <1>3, <2>1, <3>1
  <2>2. CASE x # g
    <3>1. gates'[x] = gates[x]
      BY <1>1, <2>2
    <3>. QED
      BY <3>1, StillRow
  <2>. QED
    BY <2>1, <2>2
<1>. QED
  BY <1>4, StillRow DEF EvidenceStep, GateFrame

\* The same for a commit of the directive service that leaves the gates alone.
LEMMA DirectiveEntered ==
    ASSUME CoreInv, NEW d \in Directives, NEW new, NEW from, NEW to,
           directives' = [directives EXCEPT ![d] = new],
           audit' = Logged(audit, DirectiveEntity(d), from, to),
           Evidenced(directives[d], new, Entry(from, to)),
           DirectiveFrame /\ gates' = gates
    PROVE  EvidenceStep
<1>1. audit \in [Entities -> [before : AnyStatus, after : AnyStatus]]
      /\ directives \in [Directives -> DirectiveRow \cup {NoRow}]
  BY DEF CoreInv, TypeOK, TablesOK
<1>2. <<"OperationDirective", d>> \in Entities
  BY DEF Entities
<1>3. audit'[<<"OperationDirective", d>>] = Entry(from, to)
  BY <1>1, <1>2, LoggedEntry DEF DirectiveEntity
<1>4. ASSUME NEW x \in Directives
      PROVE  Evidenced(directives[x], directives'[x], audit'[<<"OperationDirective", x>>])
  <2>1. CASE x = d
    <3>1. directives'[x] = new
      BY <1>1, <2>1
    <3>. QED
      BY <1>3, <2>1, <3>1
  <2>2. CASE x # d
    <3>1. directives'[x] = directives[x]
      BY <1>1, <2>2
    <3>. QED
      BY <3>1, StillRow
  <2>. QED
    BY <2>1, <2>2
<1>. QED
  BY <1>4, StillRow DEF EvidenceStep, DirectiveFrame

\* The same for a commit that writes a receipt alone.
LEMMA ConfirmationEntered ==
    ASSUME CoreInv, NEW c \in Confirmations, NEW new, NEW from, NEW to,
           confirmations' = [confirmations EXCEPT ![c] = new],
           audit' = Logged(audit, ConfirmationEntity(c), from, to),
           Evidenced(confirmations[c], new, Entry(from, to)),
           OnlyConfirmations
    PROVE  EvidenceStep
<1>1. audit \in [Entities -> [before : AnyStatus, after : AnyStatus]]
      /\ confirmations \in [Confirmations -> ConfirmationRow \cup {NoRow}]
  BY DEF CoreInv, TypeOK, TablesOK
<1>2. <<"ExecutionConfirmation", c>> \in Entities
  BY DEF Entities
<1>3. audit'[<<"ExecutionConfirmation", c>>] = Entry(from, to)
  BY <1>1, <1>2, LoggedEntry DEF ConfirmationEntity
<1>4. ASSUME NEW x \in Confirmations
      PROVE  Evidenced(confirmations[x], confirmations'[x], audit'[<<"ExecutionConfirmation", x>>])
  <2>1. CASE x = c
    <3>1. confirmations'[x] = new
      BY <1>1, <2>1
    <3>. QED
      BY <1>3, <2>1, <3>1
  <2>2. CASE x # c
    <3>1. confirmations'[x] = confirmations[x]
      BY <1>1, <2>2
    <3>. QED
      BY <3>1, StillRow
  <2>. QED
    BY <2>1, <2>2
<1>. QED
  BY <1>4, StillRow DEF EvidenceStep, OnlyConfirmations


-----------------------------------------------------------------------------
(* Reservoirs, gates and receipts, one at a time.                          *)

\* An edit or a move of a reservoir that passes the version test writes over the
\* very row it read.
LEMMA ReservoirOnCopy ==
    ASSUME CoreInv, NEW w \in Workers, UpdateReservoir(w) \/ TransitionReservoir(w)
    PROVE  LET item == req[w].res  r == item.code IN
           /\ item \in ReservoirRow /\ r \in Reservoirs /\ reservoirs[r] = item
           /\ item # NoRow /\ req[w].expected \in Nat
           /\ TransitionReservoir(w) => req[w].target \in ReservoirState
<1>. DEFINE item == req[w].res
            r == item.code
<1>1. /\ req[w] \in Request /\ Held(req[w]) /\ Checked(req[w])
      /\ Copied(req[w], reservoirs, gates, directives, confirmations)
  BY DEF CoreInv, TypeOK
<1>2. /\ item \in ReservoirRow /\ item # NoRow
      /\ req[w].expected \in Nat /\ req[w].expected <= item.version
      /\ Faithful(item, reservoirs[r])
  BY <1>1 DEF Request, Held, ResHeld, ResCAS, Copied, UpdateReservoir, TransitionReservoir, At
<1>3. r \in Reservoirs
  BY <1>2 DEF ReservoirRow
<1>4. reservoirs[r] \in ReservoirRow \cup {NoRow}
  BY <1>3 DEF CoreInv, TypeOK, TablesOK
<1>5. reservoirs[r] = item
  BY <1>2, <1>4, CopyIsRow DEF UpdateReservoir, TransitionReservoir, AnyRow, Matches
<1>6. TransitionReservoir(w) => req[w].target \in ReservoirState
  BY <1>1 DEF Checked, TransitionReservoir, At, CanTransition, ReservoirTransitions, ReservoirState
<1>. QED
  BY <1>2, <1>3, <1>5, <1>6

\* An edit or a move of a gate that passes the version test writes over the
\* very row it read.
LEMMA GateOnCopy ==
    ASSUME CoreInv, NEW w \in Workers, UpdateGate(w) \/ TransitionGate(w)
    PROVE  LET item == req[w].gate  g == item.code IN
           /\ item \in GateRow /\ g \in Gates /\ gates[g] = item
           /\ item # NoRow /\ req[w].expected \in Nat
           /\ TransitionGate(w) => req[w].target \in GateState
<1>. DEFINE item == req[w].gate
            g == item.code
<1>1. /\ req[w] \in Request /\ Held(req[w]) /\ Checked(req[w])
      /\ Copied(req[w], reservoirs, gates, directives, confirmations)
  BY DEF CoreInv, TypeOK
<1>2. /\ item \in GateRow /\ item # NoRow
      /\ req[w].expected \in Nat /\ req[w].expected <= item.version
      /\ Faithful(item, gates[g])
  BY <1>1 DEF Request, Held, GateHeld, GateCAS, Copied, UpdateGate, TransitionGate, At
<1>3. g \in Gates
  BY <1>2 DEF GateRow
<1>4. gates[g] \in GateRow \cup {NoRow}
  BY <1>3 DEF CoreInv, TypeOK, TablesOK
<1>5. gates[g] = item
  BY <1>2, <1>4, CopyIsRow DEF UpdateGate, TransitionGate, AnyRow, Matches
<1>6. TransitionGate(w) => req[w].target \in GateState
  BY <1>1 DEF Checked, TransitionGate, At, CanTransition, GateUnitTransitions, GateState
<1>. QED
  BY <1>2, <1>3, <1>5, <1>6

\* An edit or a move of a receipt that passes the version test writes over the
\* very row it read.
LEMMA ConfirmationOnCopy ==
    ASSUME CoreInv, NEW w \in Workers, UpdateConfirmation(w) \/ CloseConfirmation(w)
    PROVE  LET item == req[w].conf  c == item.code IN
           /\ item \in ConfirmationRow /\ c \in Confirmations /\ confirmations[c] = item
           /\ item # NoRow /\ req[w].expected \in Nat
           /\ CloseConfirmation(w) => req[w].target \in ConfirmationState
<1>. DEFINE item == req[w].conf
            c == item.code
<1>1. /\ req[w] \in Request /\ Held(req[w]) /\ Checked(req[w])
      /\ Copied(req[w], reservoirs, gates, directives, confirmations)
  BY DEF CoreInv, TypeOK
<1>2. /\ item \in ConfirmationRow /\ item # NoRow
      /\ req[w].expected \in Nat /\ req[w].expected <= item.version
      /\ Faithful(item, confirmations[c])
  BY <1>1 DEF Request, Held, ConfHeld, ConfCAS, Copied, UpdateConfirmation, CloseConfirmation, At
<1>3. c \in Confirmations
  BY <1>2 DEF ConfirmationRow
<1>4. confirmations[c] \in ConfirmationRow \cup {NoRow}
  BY <1>3 DEF CoreInv, TypeOK, TablesOK
<1>5. confirmations[c] = item
  BY <1>2, <1>4, CopyIsRow DEF UpdateConfirmation, CloseConfirmation, AnyRow, Matches
<1>6. CloseConfirmation(w) => req[w].target \in ConfirmationState
  BY <1>1 DEF Checked, CloseConfirmation, At, CanTransition, ExecutionConfirmationTransitions, ConfirmationState
<1>. QED
  BY <1>2, <1>3, <1>5, <1>6

\* Each commit of the reservoir service leaves a true entry: a reservoir made
\* is "normal" from nothing, an edit or a deletion changes no status, and a move
\* is logged from the status of the copy.
LEMMA ReservoirEvidence ==
    ASSUME CoreInv, NEW w \in Workers,
           \/ \E r \in Reservoirs : CreateReservoir(w, r)
           \/ UpdateReservoir(w) \/ TransitionReservoir(w) \/ DeleteReservoir(w)
    PROVE  EvidenceStep
<1>. DEFINE item == req[w].res
            r == item.code
            v == req[w].expected + 1
<1>1. ASSUME NEW x \in Reservoirs, CreateReservoir(w, x)
      PROVE  EvidenceStep
  <2>1. PICK f \in Facilities :
            reservoirs' = [reservoirs EXCEPT ![x] =
                [code |-> x, status |-> "normal", version |-> 1,
                 deleted |-> FALSE, facility |-> f]]
    BY <1>1 DEF CreateReservoir
  <2>2. /\ reservoirs[x] = NoRow /\ ReservoirFrame
        /\ audit' = Logged(audit, ReservoirEntity(x), "", "normal")
    BY <1>1 DEF CreateReservoir
  <2>. DEFINE new == [code |-> x, status |-> "normal", version |-> 1,
                      deleted |-> FALSE, facility |-> f]
  <2>3. new.status = "normal"
    OBVIOUS
  <2>. HIDE DEF new
  <2>4. Evidenced(reservoirs[x], new, Entry("", "normal"))
    BY <2>2, <2>3, RowEvidenced
  <2>. QED
    BY <2>1, <2>2, <2>4, ReservoirEntered DEF new
<1>2. CASE UpdateReservoir(w)
  <2>1. PICK f \in Facilities :
            reservoirs' = [reservoirs EXCEPT ![r] = WithFacility(item, f, v)]
    BY <1>2 DEF UpdateReservoir
  <2>2. /\ audit' = Logged(audit, ReservoirEntity(r), item.status, item.status)
        /\ ReservoirFrame
    BY <1>2 DEF UpdateReservoir
  <2>3. /\ r \in Reservoirs /\ reservoirs[r] = item /\ item # NoRow
        /\ item \in ReservoirRow /\ v \in Nat
    BY <1>2, ReservoirOnCopy
  <2>. HIDE DEF item, v
  <2>4. WithFacility(item, f, v).status = item.status
    BY <2>3, ReservoirRewritten
  <2>5. Evidenced(reservoirs[r], WithFacility(item, f, v), Entry(item.status, item.status))
    BY <2>3, <2>4, RowEvidenced
  <2>. QED
    BY <2>1, <2>2, <2>3, <2>5, ReservoirEntered
<1>3. CASE TransitionReservoir(w)
  <2>. DEFINE to == req[w].target
  <2>1. /\ reservoirs' = [reservoirs EXCEPT ![r] = WithStatus(item, to, v)]
        /\ audit' = Logged(audit, ReservoirEntity(r), item.status, to)
        /\ ReservoirFrame
    BY <1>3 DEF TransitionReservoir
  <2>2. /\ r \in Reservoirs /\ reservoirs[r] = item /\ item # NoRow
        /\ item \in ReservoirRow /\ v \in Nat /\ to \in ReservoirState
    BY <1>3, ReservoirOnCopy
  <2>. HIDE DEF item, v, to
  <2>3. WithStatus(item, to, v).status = to
    BY <2>2, ReservoirRewritten
  <2>4. Evidenced(reservoirs[r], WithStatus(item, to, v), Entry(item.status, to))
    BY <2>2, <2>3, RowEvidenced
  <2>. QED
    BY <2>1, <2>2, <2>4, ReservoirEntered
<1>4. CASE DeleteReservoir(w)
  <2>1. /\ reservoirs' = [reservoirs EXCEPT ![r] = SoftDeleted(reservoirs[r])]
        /\ audit' = Logged(audit, ReservoirEntity(r), item.status, "deleted")
        /\ ReservoirFrame /\ Live(reservoirs[r])
    BY <1>4 DEF DeleteReservoir
  <2>2. r \in Reservoirs
    BY <1>4 DEF CoreInv, TypeOK, Request, Held, ResHeld, DeleteReservoir, At, ReservoirRow
  <2>3. reservoirs[r] \in AnyRow
    BY <2>1, <2>2 DEF CoreInv, TypeOK, TablesOK, Live, AnyRow
  <2>. HIDE DEF item
  <2>4. reservoirs[r] # NoRow /\ SoftDeleted(reservoirs[r]).status = reservoirs[r].status
    BY <2>1, <2>3, SoftDeletedRow DEF Live
  <2>5. Evidenced(reservoirs[r], SoftDeleted(reservoirs[r]), Entry(item.status, "deleted"))
    BY <2>4, RowEvidenced
  <2>. QED
    BY <2>1, <2>2, <2>5, ReservoirEntered
<1>. QED
  BY <1>1, <1>2, <1>3, <1>4

\* Each commit of the gate service does: a gate is made open.
LEMMA GateEvidence ==
    ASSUME CoreInv, NEW w \in Workers,
           \/ \E g \in Gates : CreateGate(w, g)
           \/ UpdateGate(w) \/ TransitionGate(w) \/ DeleteGate(w)
    PROVE  EvidenceStep
<1>. DEFINE item == req[w].gate
            g == item.code
            v == req[w].expected + 1
<1>1. ASSUME NEW x \in Gates, CreateGate(w, x)
      PROVE  EvidenceStep
  <2>. DEFINE new == [code |-> x, status |-> "open", version |-> 1,
                      deleted |-> FALSE, reservoir |-> req[w].res.code,
                      facility |-> req[w].res.facility]
  <2>1. /\ gates' = [gates EXCEPT ![x] = new]
        /\ gates[x] = NoRow /\ GateFrame
        /\ audit' = Logged(audit, GateEntity(x), "", "open")
    BY <1>1 DEF CreateGate
  <2>2. new.status = "open"
    OBVIOUS
  <2>. HIDE DEF new
  <2>3. Evidenced(gates[x], new, Entry("", "open"))
    BY <2>1, <2>2, RowEvidenced
  <2>. QED
    BY <2>1, <2>3, GateEntered
<1>2. CASE UpdateGate(w)
  <2>. DEFINE facility == req[w].res.facility
              new == WithFacility(item, facility, v)
  <2>1. /\ gates' = [gates EXCEPT ![g] = new]
        /\ audit' = Logged(audit, GateEntity(g), item.status, item.status)
        /\ GateFrame
    BY <1>2 DEF UpdateGate
  <2>2. /\ g \in Gates /\ gates[g] = item /\ item # NoRow
        /\ item \in GateRow
    BY <1>2, GateOnCopy
  <2>. HIDE DEF item, v, facility
  <2>3. new.status = item.status
    BY <2>2 DEF GateRow, WithFacility
  <2>. HIDE DEF new
  <2>4. Evidenced(gates[g], new, Entry(item.status, item.status))
    BY <2>2, <2>3, RowEvidenced
  <2>. QED
    BY <2>1, <2>2, <2>4, GateEntered
<1>3. CASE TransitionGate(w)
  <2>. DEFINE to == req[w].target
  <2>1. /\ gates' = [gates EXCEPT ![g] = WithStatus(item, to, v)]
        /\ audit' = Logged(audit, GateEntity(g), item.status, to)
        /\ GateFrame
    BY <1>3 DEF TransitionGate
  <2>2. /\ g \in Gates /\ gates[g] = item /\ item # NoRow
        /\ item \in GateRow /\ v \in Nat /\ to \in GateState
    BY <1>3, GateOnCopy
  <2>. HIDE DEF item, v, to
  <2>3. WithStatus(item, to, v).status = to
    BY <2>2, GateRewritten
  <2>4. Evidenced(gates[g], WithStatus(item, to, v), Entry(item.status, to))
    BY <2>2, <2>3, RowEvidenced
  <2>. QED
    BY <2>1, <2>2, <2>4, GateEntered
<1>4. CASE DeleteGate(w)
  <2>1. /\ gates' = [gates EXCEPT ![g] = SoftDeleted(gates[g])]
        /\ audit' = Logged(audit, GateEntity(g), item.status, "deleted")
        /\ GateFrame /\ Live(gates[g])
    BY <1>4 DEF DeleteGate
  <2>2. g \in Gates
    BY <1>4 DEF CoreInv, TypeOK, Request, Held, GateHeld, DeleteGate, At, GateRow
  <2>3. gates[g] \in AnyRow
    BY <2>1, <2>2 DEF CoreInv, TypeOK, TablesOK, Live, AnyRow
  <2>. HIDE DEF item
  <2>4. gates[g] # NoRow /\ SoftDeleted(gates[g]).status = gates[g].status
    BY <2>1, <2>3, SoftDeletedRow DEF Live
  <2>5. Evidenced(gates[g], SoftDeleted(gates[g]), Entry(item.status, "deleted"))
    BY <2>4, RowEvidenced
  <2>. QED
    BY <2>1, <2>2, <2>5, GateEntered
<1>. QED
  BY <1>1, <1>2, <1>3, <1>4

\* Each commit that writes a receipt alone does: a receipt is made pending.
LEMMA ConfirmationEvidence ==
    ASSUME CoreInv, NEW w \in Workers,
           \/ \E c \in Confirmations : CreateConfirmation(w, c)
           \/ UpdateConfirmation(w) \/ CloseConfirmation(w) \/ DeleteConfirmation(w)
    PROVE  EvidenceStep
<1>. DEFINE item == req[w].conf
            c == item.code
            v == req[w].expected + 1
<1>1. ASSUME NEW x \in Confirmations, CreateConfirmation(w, x)
      PROVE  EvidenceStep
  <2>. DEFINE new == [code |-> x, status |-> "pending", version |-> 1,
                      deleted |-> FALSE, directive |-> req[w].dir.code]
  <2>1. /\ confirmations' = [confirmations EXCEPT ![x] = new]
        /\ confirmations[x] = NoRow /\ OnlyConfirmations
        /\ audit' = Logged(audit, ConfirmationEntity(x), "", "pending")
    BY <1>1 DEF CreateConfirmation
  <2>2. new.status = "pending"
    OBVIOUS
  <2>. HIDE DEF new
  <2>3. Evidenced(confirmations[x], new, Entry("", "pending"))
    BY <2>1, <2>2, RowEvidenced
  <2>. QED
    BY <2>1, <2>3, ConfirmationEntered
<1>2. CASE UpdateConfirmation(w)
  <2>. DEFINE directive == req[w].dir.code
              new == WithDirective(item, directive, v)
  <2>1. /\ confirmations' = [confirmations EXCEPT ![c] = new]
        /\ audit' = Logged(audit, ConfirmationEntity(c), item.status, item.status)
        /\ OnlyConfirmations
    BY <1>2 DEF UpdateConfirmation
  <2>2. /\ c \in Confirmations /\ confirmations[c] = item /\ item # NoRow
        /\ item \in ConfirmationRow
    BY <1>2, ConfirmationOnCopy
  <2>. HIDE DEF item, v, directive
  <2>3. new.status = item.status
    BY <2>2 DEF ConfirmationRow, WithDirective
  <2>. HIDE DEF new
  <2>4. Evidenced(confirmations[c], new, Entry(item.status, item.status))
    BY <2>2, <2>3, RowEvidenced
  <2>. QED
    BY <2>1, <2>2, <2>4, ConfirmationEntered
<1>3. CASE CloseConfirmation(w)
  <2>. DEFINE to == req[w].target
  <2>1. /\ confirmations' = [confirmations EXCEPT ![c] = WithStatus(item, to, v)]
        /\ audit' = Logged(audit, ConfirmationEntity(c), item.status, to)
        /\ OnlyConfirmations
    BY <1>3 DEF CloseConfirmation
  <2>2. /\ c \in Confirmations /\ confirmations[c] = item /\ item # NoRow
        /\ item \in ConfirmationRow /\ v \in Nat /\ to \in ConfirmationState
    BY <1>3, ConfirmationOnCopy
  <2>. HIDE DEF item, v, to
  <2>3. WithStatus(item, to, v).status = to
    BY <2>2, ConfirmationRewritten
  <2>4. Evidenced(confirmations[c], WithStatus(item, to, v), Entry(item.status, to))
    BY <2>2, <2>3, RowEvidenced
  <2>. QED
    BY <2>1, <2>2, <2>4, ConfirmationEntered
<1>4. CASE DeleteConfirmation(w)
  <2>1. /\ confirmations' = [confirmations EXCEPT ![c] = SoftDeleted(confirmations[c])]
        /\ audit' = Logged(audit, ConfirmationEntity(c), item.status, "deleted")
        /\ OnlyConfirmations /\ Live(confirmations[c])
    BY <1>4 DEF DeleteConfirmation
  <2>2. c \in Confirmations
    BY <1>4 DEF CoreInv, TypeOK, Request, Held, ConfHeld, DeleteConfirmation, At, ConfirmationRow
  <2>3. confirmations[c] \in AnyRow
    BY <2>1, <2>2 DEF CoreInv, TypeOK, TablesOK, Live, AnyRow
  <2>. HIDE DEF item
  <2>4. confirmations[c] # NoRow /\ SoftDeleted(confirmations[c]).status = confirmations[c].status
    BY <2>1, <2>3, SoftDeletedRow DEF Live
  <2>5. Evidenced(confirmations[c], SoftDeleted(confirmations[c]), Entry(item.status, "deleted"))
    BY <2>4, RowEvidenced
  <2>. QED
    BY <2>1, <2>2, <2>5, ConfirmationEntered
<1>. QED
  BY <1>1, <1>2, <1>3, <1>4

-----------------------------------------------------------------------------
(* Directives, and the transactions that write several rows.               *)

\* A new, an edited or a deleted directive leaves a true entry.
LEMMA DirectiveEvidence ==
    ASSUME CoreInv, NEW w \in Workers,
           \/ \E d \in Directives : CreateDirective(w, d)
           \/ UpdateDirective(w) \/ DeleteDirective(w)
    PROVE  EvidenceStep
<1>. DEFINE item == req[w].dir
            d == item.code
            v == req[w].expected + 1
<1>1. ASSUME NEW x \in Directives, CreateDirective(w, x)
      PROVE  EvidenceStep
  <2>. DEFINE new(goal) ==
           [code |-> x, status |-> "draft", version |-> 1, deleted |-> FALSE,
            gate |-> req[w].gate.code, goal |-> goal,
            facility |-> req[w].gate.facility,
            submittedBy |-> NoUser, approvedBy |-> NoUser]
  <2>1. PICK goal \in Goals : directives' = [directives EXCEPT ![x] = new(goal)]
    BY <1>1 DEF CreateDirective
  <2>2. /\ directives[x] = NoRow /\ DirectiveFrame /\ gates' = gates
        /\ audit' = Logged(audit, DirectiveEntity(x), "", "draft")
    BY <1>1 DEF CreateDirective
  <2>3. new(goal).status = "draft"
    OBVIOUS
  <2>. HIDE DEF new
  <2>4. Evidenced(directives[x], new(goal), Entry("", "draft"))
    BY <2>2, <2>3, RowEvidenced
  <2>. QED
    BY <2>1, <2>2, <2>4, DirectiveEntered
<1>2. CASE UpdateDirective(w)
  <2>1. PICK goal \in Goals :
            directives' = [directives EXCEPT ![d] =
                Edited(item, req[w].gate, goal, v)]
    BY <1>2 DEF UpdateDirective
  <2>2. /\ audit' = Logged(audit, DirectiveEntity(d), item.status, item.status)
        /\ DirectiveFrame /\ gates' = gates
    BY <1>2 DEF UpdateDirective
  <2>3. /\ d \in Directives /\ directives[d] = item /\ item # NoRow
        /\ item \in DirectiveRow /\ v \in Nat /\ req[w].gate \in GateRow
    BY <1>2, UpdateOnCopy DEF Live
  <2>. DEFINE new == Edited(item, req[w].gate, goal, v)
  <2>. HIDE DEF item, v
  <2>4. new.status = item.status
    BY <2>3, DirectiveEdited
  <2>5. Evidenced(directives[d], new, Entry(item.status, item.status))
    BY <2>3, <2>4, RowEvidenced
  <2>. QED
    BY <2>1, <2>2, <2>3, <2>5, DirectiveEntered
<1>3. CASE DeleteDirective(w)
  <2>1. /\ directives' = [directives EXCEPT ![d] = SoftDeleted(directives[d])]
        /\ audit' = Logged(audit, DirectiveEntity(d), item.status, "deleted")
        /\ DirectiveFrame /\ gates' = gates /\ Live(directives[d])
    BY <1>3 DEF DeleteDirective
  <2>2. d \in Directives
    BY <1>3 DEF CoreInv, TypeOK, Request, Held, DirHeld, DeleteDirective, At, DirectiveRow
  <2>3. directives[d] \in AnyRow
    BY <2>1, <2>2 DEF CoreInv, TypeOK, TablesOK, Live, AnyRow
  <2>. HIDE DEF item
  <2>4. directives[d] # NoRow /\ SoftDeleted(directives[d]).status = directives[d].status
    BY <2>1, <2>3, SoftDeletedRow DEF Live
  <2>5. Evidenced(directives[d], SoftDeleted(directives[d]), Entry(item.status, "deleted"))
    BY <2>4, RowEvidenced
  <2>. QED
    BY <2>1, <2>2, <2>5, DirectiveEntered
<1>. QED
  BY <1>1, <1>2, <1>3

\* A transaction that ends with the move of a gate leaves true entries of the
\* gates, and of the other tables the entries it had logged before: the copy
\* of the gate is its row, by the test of the version that was read.
LEMMA GateMoveEvidence ==
    ASSUME CoreInv, NEW gate \in GateRow, Faithful(gate, gates[gate.code]),
           NEW to, CanTransition(GateUnitTransitions, gate.status, to),
           Matches(gates[gate.code], gate.version),
           gates' = [gates EXCEPT ![gate.code] = WithStatus(gate, to, gate.version + 1)],
           NEW log \in [Entities -> [before : AnyStatus, after : AnyStatus]],
           audit' = Logged(log, <<"GateUnit", gate.code>>, gate.status, to)
    PROVE  /\ \A g \in Gates : Evidenced(gates[g], gates'[g], audit'[<<"GateUnit", g>>])
           /\ \A d \in Directives : audit'[<<"OperationDirective", d>>]
                                        = log[<<"OperationDirective", d>>]
           /\ \A c \in Confirmations : audit'[<<"ExecutionConfirmation", c>>]
                                           = log[<<"ExecutionConfirmation", c>>]
<1>. DEFINE g == gate.code
            v == gate.version + 1
            new == WithStatus(gate, to, v)
            entity == <<"GateUnit", g>>
<1>1. /\ g \in Gates /\ gate.version \in Nat /\ gate.version <= gate.version
      /\ v \in Nat /\ gates \in [Gates -> GateRow \cup {NoRow}]
  BY DEF GateRow, CoreInv, TypeOK, TablesOK
<1>2. gates[g] = gate /\ gate # NoRow
  BY <1>1, CopyIsRow DEF AnyRow, Matches, Live
<1>3. to \in GateState
  BY DEF CanTransition, GateUnitTransitions, GateState
<1>. HIDE DEF v
<1>4. new.status = to
  BY <1>1, <1>3, GateRewritten
<1>5. gates' = [gates EXCEPT ![g] = new]
  BY DEF v
<1>. HIDE DEF new
<1>6. Evidenced(gates[g], new, Entry(gate.status, to))
  BY <1>2, <1>4, RowEvidenced
<1>7. entity \in Entities
  BY <1>1 DEF Entities
<1>8. /\ audit'[entity] = Entry(gate.status, to)
      /\ \A other \in Entities \ {entity} : audit'[other] = log[other]
  BY <1>7, LoggedEntry
<1>9. ASSUME NEW x \in Gates
      PROVE  Evidenced(gates[x], gates'[x], audit'[<<"GateUnit", x>>])
  <2>1. CASE x = g
    <3>1. gates'[x] = new
      BY <1>1, <1>5, <2>1
    <3>. QED
      BY <1>6, <1>8, <2>1, <3>1
  <2>2. CASE x # g
    <3>1. gates'[x] = gates[x]
      BY <1>1, <1>5, <2>2
    <3>. QED
      BY <3>1, StillRow
  <2>. QED
    BY <2>1, <2>2
<1>10. ASSUME NEW d \in Directives
       PROVE  audit'[<<"OperationDirective", d>>] = log[<<"OperationDirective", d>>]
  <2>1. <<"OperationDirective", d>> \in Entities \ {entity}
    BY DEF Entities
  <2>. QED
    BY <1>8, <2>1
<1>11. ASSUME NEW c \in Confirmations
       PROVE  audit'[<<"ExecutionConfirmation", c>>] = log[<<"ExecutionConfirmation", c>>]
  <2>1. <<"ExecutionConfirmation", c>> \in Entities \ {entity}
    BY DEF Entities
  <2>. QED
    BY <1>8, <2>1
<1>. QED
  BY <1>9, <1>10, <1>11

\* A signed, started or aborted directive leaves a true entry, and so does the
\* gate that moves with it in the same transaction.
LEMMA TransitionEvidence ==
    ASSUME CoreInv, NEW w \in Workers, TransitionDirective(w)
    PROVE  EvidenceStep
<1>. DEFINE r == req[w]
            item == r.dir
            d == item.code
            to == r.target
            user == r.actor
            gate == r.gate
            v == r.expected + 1
            position == IF gate = NoRow THEN "" ELSE GateTarget(item, to, gate)
            entity == DirectiveEntity(d)
            log == Logged(audit, entity, item.status, to)
            new == Signed(item, to, user, v)
<1>1. /\ item \in DirectiveRow /\ d \in Directives /\ directives[d] = item
      /\ item # NoRow /\ v \in Nat /\ user \in Users /\ to \in DirectiveState
      /\ gate # NoRow => /\ gate \in GateRow /\ Faithful(gate, gates[gate.code])
                         /\ LegalGateMove(item, gate, GateTarget(item, to, gate))
  BY TransitionOnCopy DEF Live
<1>2. /\ directives' = [directives EXCEPT ![d] = new]
      /\ MoveGate(gate, position, log) /\ DirectiveFrame
  BY DEF TransitionDirective
<1>3. /\ audit \in [Entities -> [before : AnyStatus, after : AnyStatus]]
      /\ directives \in [Directives -> DirectiveRow \cup {NoRow}]
  BY DEF CoreInv, TypeOK, TablesOK
<1>4. /\ item.status \in AnyStatus /\ to \in AnyStatus /\ entity \in Entities
      /\ entity = <<"OperationDirective", d>>
  BY <1>1 DEF DirectiveRow, AnyStatus, Entities, DirectiveEntity
<1>. HIDE DEF r, item, to, user, gate, v, position, entity
<1>5. new.status = to
  BY <1>1, DirectiveSigned
<1>. HIDE DEF new
<1>6. Evidenced(directives[d], new, Entry(item.status, to))
  BY <1>1, <1>5, RowEvidenced
<1>7. log[entity] = Entry(item.status, to)
  BY <1>3, <1>4, LoggedEntry
<1>8. log \in [Entities -> [before : AnyStatus, after : AnyStatus]]
  BY <1>3, <1>4, LoggedTyped
<1>. HIDE DEF log, d
<1>9. /\ \A g \in Gates : Evidenced(gates[g], gates'[g], audit'[<<"GateUnit", g>>])
      /\ audit'[entity] = log[entity]
  <2>1. CASE gate = NoRow \/ position \in {"", gate.status}
    <3>1. gates' = gates /\ audit' = log
      BY <1>2, <2>1 DEF MoveGate
    <3>. QED
      BY <3>1, StillRow
  <2>2. CASE ~(gate = NoRow \/ position \in {"", gate.status})
    <3>1. /\ Matches(gates[gate.code], gate.version)
          /\ gates' = [gates EXCEPT ![gate.code] =
                 WithStatus(gate, position, gate.version + 1)]
          /\ audit' = Logged(log, <<"GateUnit", gate.code>>, gate.status, position)
      BY <1>2, <2>2 DEF MoveGate
    <3>2. /\ gate \in GateRow /\ Faithful(gate, gates[gate.code])
          /\ CanTransition(GateUnitTransitions, gate.status, position)
      BY <1>1, <2>2 DEF LegalGateMove, position
    <3>. QED
      BY <1>1, <1>4, <1>8, <3>1, <3>2, GateMoveEvidence
  <2>. QED
    BY <2>1, <2>2
<1>10. ASSUME NEW x \in Directives
       PROVE  Evidenced(directives[x], directives'[x],
                        audit'[<<"OperationDirective", x>>])
  <2>1. CASE x = d
    <3>1. directives'[x] = new
      BY <1>2, <1>3, <2>1
    <3>. QED
      BY <1>4, <1>6, <1>7, <1>9, <2>1, <3>1
  <2>2. CASE x # d
    <3>1. directives'[x] = directives[x]
      BY <1>2, <1>3, <2>2
    <3>. QED
      BY <3>1, StillRow
  <2>. QED
    BY <2>1, <2>2
<1>. QED
  BY <1>2, <1>9, <1>10, StillRow DEF EvidenceStep, DirectiveFrame

\* A settlement leaves true entries of its receipt, of its directive and, when
\* it moves it, of its gate: three entries of one transaction.
LEMMA SettlementEvidence ==
    ASSUME CoreInv, NEW w \in Workers, SettleConfirmation(w)
    PROVE  EvidenceStep
<1>. DEFINE r == req[w]
            item == r.conf
            c == item.code
            to == r.target
            directive == r.dir
            d == directive.code
            gate == r.gate
            g == gate.code
            outcome == DirectiveOutcome(to)
            position == GateOutcome(to, directive)
            ofConf == ConfirmationEntity(c)
            ofDir == <<"OperationDirective", d>>
            first == Logged(audit, ofConf, item.status, to)
            log == Logged(first, ofDir, directive.status, outcome)
            newConf == WithStatus(item, to, r.expected + 1)
            newDir == WithStatus(directive, outcome, directive.version + 1)
<1>1. /\ item \in ConfirmationRow /\ c \in Confirmations
      /\ confirmations[c] = item /\ item # NoRow
      /\ r.expected \in Nat /\ to \in {"confirmed", "failed"}
      /\ directive \in DirectiveRow /\ d \in Directives
      /\ directives[d] = directive /\ directive # NoRow /\ directive.version \in Nat
      /\ gate \in GateRow /\ Faithful(gate, gates[g])
      /\ position = gate.status
         \/ CanTransition(GateUnitTransitions, gate.status, position)
  BY SettleOnCopy DEF Live
<1>2. /\ confirmations' = [confirmations EXCEPT ![c] = newConf]
      /\ directives' = [directives EXCEPT ![d] = newDir]
      /\ \/ gate.status = position /\ gates' = gates /\ audit' = log
         \/ /\ gate.status # position
            /\ Matches(gates[g], gate.version)
            /\ gates' = [gates EXCEPT ![g] =
                   WithStatus(gate, position, gate.version + 1)]
            /\ audit' = Logged(log, <<"GateUnit", g>>, gate.status, position)
      /\ reservoirs' = reservoirs
  BY DEF SettleConfirmation
<1>3. /\ audit \in [Entities -> [before : AnyStatus, after : AnyStatus]]
      /\ directives \in [Directives -> DirectiveRow \cup {NoRow}]
      /\ confirmations \in [Confirmations -> ConfirmationRow \cup {NoRow}]
  BY DEF CoreInv, TypeOK, TablesOK
<1>4. /\ to \in ConfirmationState /\ outcome \in DirectiveState
      /\ to \in AnyStatus /\ outcome \in AnyStatus
      /\ item.status \in AnyStatus /\ directive.status \in AnyStatus
  BY <1>1 DEF DirectiveOutcome, ConfirmationState, DirectiveState, AnyStatus,
              ConfirmationRow, DirectiveRow
<1>5. /\ ofConf \in Entities /\ ofDir \in Entities /\ ofConf # ofDir
      /\ ofConf = <<"ExecutionConfirmation", c>>
  BY <1>1 DEF Entities, ConfirmationEntity
<1>6. r.expected + 1 \in Nat /\ directive.version + 1 \in Nat
  BY <1>1
<1>. HIDE DEF r, item, to, directive, gate, outcome, position, ofConf
<1>7. newConf.status = to
  BY <1>1, <1>4, <1>6, ConfirmationRewritten
<1>8. newDir.status = outcome
  BY <1>1, <1>4, <1>6, DirectiveMoved
<1>. HIDE DEF newConf, newDir, ofDir
<1>9. /\ Evidenced(confirmations[c], newConf, Entry(item.status, to))
      /\ Evidenced(directives[d], newDir, Entry(directive.status, outcome))
  BY <1>1, <1>7, <1>8, RowEvidenced
<1>10. /\ first \in [Entities -> [before : AnyStatus, after : AnyStatus]]
       /\ first[ofConf] = Entry(item.status, to)
  BY <1>3, <1>4, <1>5, LoggedTyped, LoggedEntry
<1>. HIDE DEF first
<1>11. /\ log \in [Entities -> [before : AnyStatus, after : AnyStatus]]
       /\ log[ofDir] = Entry(directive.status, outcome)
       /\ log[ofConf] = Entry(item.status, to)
  BY <1>4, <1>5, <1>10, LoggedTyped, LoggedEntry
<1>. HIDE DEF log, c, d
<1>12. /\ \A x \in Gates : Evidenced(gates[x], gates'[x], audit'[<<"GateUnit", x>>])
       /\ audit'[ofDir] = log[ofDir] /\ audit'[ofConf] = log[ofConf]
  <2>1. CASE gate.status = position
    <3>1. gates' = gates /\ audit' = log
      BY <1>2, <2>1
    <3>. QED
      BY <3>1, StillRow
  <2>2. CASE gate.status # position
    <3>1. /\ Matches(gates[g], gate.version)
          /\ gates' = [gates EXCEPT ![g] =
                 WithStatus(gate, position, gate.version + 1)]
          /\ audit' = Logged(log, <<"GateUnit", g>>, gate.status, position)
          /\ CanTransition(GateUnitTransitions, gate.status, position)
      BY <1>1, <1>2, <2>2
    <3>. QED
      BY <1>1, <1>5, <1>11, <3>1, GateMoveEvidence DEF ofDir
  <2>. QED
    BY <2>1, <2>2
<1>13. ASSUME NEW x \in Directives
       PROVE  Evidenced(directives[x], directives'[x],
                        audit'[<<"OperationDirective", x>>])
  <2>1. CASE x = d
    <3>1. directives'[x] = newDir
      BY <1>2, <1>3, <2>1
    <3>. QED
      BY <1>9, <1>11, <1>12, <2>1, <3>1 DEF ofDir
  <2>2. CASE x # d
    <3>1. directives'[x] = directives[x]
      BY <1>2, <1>3, <2>2
    <3>. QED
      BY <3>1, StillRow
  <2>. QED
    BY <2>1, <2>2
<1>14. ASSUME NEW x \in Confirmations
       PROVE  Evidenced(confirmations[x], confirmations'[x],
                        audit'[<<"ExecutionConfirmation", x>>])
  <2>1. CASE x = c
    <3>1. confirmations'[x] = newConf
      BY <1>2, <1>3, <2>1
    <3>. QED
      BY <1>5, <1>9, <1>11, <1>12, <2>1, <3>1
  <2>2. CASE x # c
    <3>1. confirmations'[x] = confirmations[x]
      BY <1>2, <1>3, <2>2
    <3>. QED
      BY <3>1, StillRow
  <2>. QED
    BY <2>1, <2>2
<1>. QED
  BY <1>2, <1>12, <1>13, <1>14, StillRow DEF EvidenceStep

-----------------------------------------------------------------------------

\* Every step leaves true entries: a read and a request that ends without
\* effect change no row, and the commits are those above.
LEMMA NextEvidence ==
    ASSUME CoreInv, [Next]_vars
    PROVE  EvidenceStep
<1>1. CASE UNCHANGED vars
  BY <1>1, QuietStep DEF vars, tables
<1>2. ASSUME NEW w \in Workers, Fail(w)
      PROVE  EvidenceStep
  BY <1>2, QuietStep DEF Fail
<1>3. ASSUME NEW w \in Workers, ReservoirNext(w)
      PROVE  EvidenceStep
  <2>1. ASSUME NEW r \in Reservoirs,
               \/ ReadReservoirToUpdate(w, r) \/ ReadReservoirToTransition(w, r)
               \/ ReadReservoirToDelete(w, r)
        PROVE  EvidenceStep
    BY <2>1, QuietStep DEF ReadReservoirToUpdate, ReadReservoirToTransition,
                           ReadReservoirToDelete
  <2>. QED
    BY <1>3, <2>1, ReservoirEvidence DEF ReservoirNext
<1>4. ASSUME NEW w \in Workers, GateNext(w)
      PROVE  EvidenceStep
  <2>1. ASSUME NEW g \in Gates,
               ReadGateToUpdate(w, g) \/ ReadGateToTransition(w, g) \/ ReadGateToDelete(w, g)
        PROVE  EvidenceStep
    BY <2>1, QuietStep DEF ReadGateToUpdate, ReadGateToTransition, ReadGateToDelete
  <2>2. ASSUME \/ \E r \in Reservoirs : ReadReservoirToCreateGate(w, r)
               \/ ReadReservoirToUpdateGate(w)
        PROVE  EvidenceStep
    BY <2>2, QuietStep DEF ReadReservoirToCreateGate, ReadReservoirToUpdateGate
  <2>. QED
    BY <1>4, <2>1, <2>2, GateEvidence DEF GateNext
<1>5. ASSUME NEW w \in Workers, DirectiveNext(w)
      PROVE  EvidenceStep
  <2>1. ASSUME \/ \E g \in Gates : \/ ReadGateToCreateDirective(w, g)
                                   \/ ReadGateToUpdateDirective(w, g)
               \/ \E d \in Directives : \/ ReadDirectiveToUpdate(w, d)
                                        \/ ReadDirectiveToTransition(w, d)
                                        \/ ReadDirectiveToDelete(w, d)
               \/ ReadGateForDirective(w)
        PROVE  EvidenceStep
    BY <2>1, QuietStep
       DEF ReadGateToCreateDirective, ReadGateToUpdateDirective, ReadDirectiveToUpdate,
           ReadDirectiveToTransition, ReadDirectiveToDelete, ReadGateForDirective
  <2>. QED
    BY <1>5, <2>1, DirectiveEvidence, TransitionEvidence DEF DirectiveNext
<1>6. ASSUME NEW w \in Workers, ConfirmationNext(w)
      PROVE  EvidenceStep
  <2>1. ASSUME \/ \E d \in Directives : ReadDirectiveToCreateConfirmation(w, d)
               \/ \E c \in Confirmations : \/ ReadConfirmationToUpdate(w, c)
                                           \/ ReadConfirmationToTransition(w, c)
                                           \/ ReadConfirmationToDelete(w, c)
               \/ CountConfirmations(w) \/ ReadDirectiveToUpdateConfirmation(w)
               \/ ReadDirectiveForConfirmation(w) \/ ReadGateForConfirmation(w)
        PROVE  EvidenceStep
    BY <2>1, QuietStep
       DEF ReadDirectiveToCreateConfirmation, ReadConfirmationToUpdate,
           ReadConfirmationToTransition, ReadConfirmationToDelete,
           CountConfirmations, ReadDirectiveToUpdateConfirmation,
           ReadDirectiveForConfirmation, ReadGateForConfirmation
  <2>. QED
    BY <1>6, <2>1, ConfirmationEvidence, SettlementEvidence DEF ConfirmationNext
<1>. QED
  BY <1>1, <1>2, <1>3, <1>4, <1>5, <1>6 DEF Next

\* repository/base.go 101-102: no status of any table changes without an entry
\* of the same commit that names the status the row really had and the one it
\* got, for any number of requests, as long as no client guesses a version.
THEOREM EvidenceTold ==
    ASSUME Lead = 0
    PROVE  Spec => EvidenceMatchesStep
<1>1. CoreInv /\ [Next]_vars => EvidenceStep
  BY NextEvidence
<1>. QED
  BY <1>1, CoreInvariance, PTL DEF Spec, EvidenceMatchesStep, EvidenceStep

-----------------------------------------------------------------------------
(***************************************************************************)
(* A gate follows its directive.  The commit writes the gate on the        *)
(* version of the copy, or leaves it where the copy showed it; only in the *)
(* second case can it be elsewhere, and then its version has moved on.     *)
(***************************************************************************)

\* A commit that leaves the gate alone, because the copy shows it in place.
LEMMA GateInPlace ==
    ASSUME CoreInv, NEW w \in Workers, Answer(w),
           req[w].pc \in {"dir_transition", "conf_settle"},
           NEW gate \in GateRow, req[w].gate = gate, Faithful(gate, gates[gate.code]),
           NEW directive, req[w].dir = directive, directive.gate = gate.code,
           NEW S, gate.status \in S, gates' = gates
    PROVE  \/ gates'[directive.gate].status \in S
           \/ LeavesGateMovedSince(w, directive, S)
<1>1. gate.code \in Gates /\ gate.version \in Nat
  BY DEF GateRow
<1>2. gates[gate.code] \in GateRow
  BY <1>1 DEF Faithful, CoreInv, TypeOK, TablesOK
<1>3. gates[gate.code].version \in Nat
  BY <1>2 DEF GateRow
<1>4. CASE gate.version = gates[gate.code].version
  <2>1. gates[gate.code].status = gate.status
    BY <1>4, SoftDeletedRow DEF Faithful, AnyRow
  <2>. QED
    BY <2>1
<1>5. CASE gate.version < gates[gate.code].version
  <2>1. req'[w].pc = "idle"
    BY DEF Answer, Idle, CoreInv, TypeOK
  <2>. QED
    BY <1>5, <2>1 DEF LeavesGateMovedSince
<1>. QED
  BY <1>1, <1>3, <1>4, <1>5 DEF Faithful

\* A commit that writes the gate puts it where it is told to.
LEMMA GatePut ==
    ASSUME CoreInv, NEW gate \in GateRow, NEW to,
           gates' = [gates EXCEPT ![gate.code] = WithStatus(gate, to, gate.version + 1)]
    PROVE  gates'[gate.code].status = to
<1>1. gate.code \in Gates /\ gate.version + 1 \in Nat
  BY DEF GateRow
<1>. DEFINE v == gate.version + 1
<1>2. WithStatus(gate, to, v).status = to
  BY DEF WithStatus, GateRow
<1>. QED
  BY <1>1, <1>2 DEF CoreInv, TypeOK, TablesOK

\* What a directive's own transition does to its gate.
LEMMA TransitionMovesGate ==
    ASSUME CoreInv, NEW w \in Workers, TransitionDirective(w),
           NEW d \in Directives, directives[d] # NoRow,
           directives[d].status # directives'[d].status,
           "executing" \in {directives[d].status, directives'[d].status}
    PROVE  LET S == Positions(directives[d], directives'[d]) IN
           \/ gates'[directives[d].gate].status \in S
           \/ LeavesGateMovedSince(w, directives[d], S)
<1>. DEFINE item == req[w].dir
            to == req[w].target
            gate == req[w].gate
            position == GateTarget(item, to, gate)
            new == Signed(item, to, req[w].actor, req[w].expected + 1)
            S == Positions(directives[d], directives'[d])
<1>1. /\ item \in DirectiveRow /\ item.code \in Directives
      /\ directives[item.code] = item
      /\ req[w].expected \in Nat /\ req[w].actor \in Users /\ to \in DirectiveState
      /\ gate # NoRow => /\ gate \in GateRow /\ Faithful(gate, gates[gate.code])
                         /\ LegalGateMove(item, gate, position)
  BY TransitionOnCopy
<1>2. /\ req[w].pc = "dir_transition" /\ Answer(w)
      /\ directives' = [directives EXCEPT ![item.code] = new]
      /\ MoveGate(gate, IF gate = NoRow THEN "" ELSE position,
                  Logged(audit, DirectiveEntity(item.code), item.status, to))
  BY DEF TransitionDirective, At
<1>3. item.code = d /\ item = directives[d]
  BY <1>1, <1>2 DEF CoreInv, TypeOK, TablesOK
<1>4. new.status = to
  <2>. HIDE DEF item, to
  <2>1. req[w].expected + 1 \in Nat
    BY <1>1
  <2>. QED
    BY <1>1, <2>1, DirectiveSigned
<1>5. directives'[d].status = to
  BY <1>2, <1>3, <1>4 DEF CoreInv, TypeOK, TablesOK
<1>6. /\ to # "completed" /\ (gate # NoRow <=> NeedsGate(item, to))
      /\ CanTransition(OperationDirectiveTransitions, item.status, to)
  BY <1>2 DEF CoreInv, Checked
<1>7. NeedsGate(item, to)
  BY <1>3, <1>5, <1>6 DEF NeedsGate, CanTransition, OperationDirectiveTransitions
<1>8. /\ gate \in GateRow /\ gate # NoRow /\ Faithful(gate, gates[gate.code])
      /\ gate.code = item.gate
  BY <1>1, <1>6, <1>7 DEF LegalGateMove
<1>9. /\ S = IF to = "executing" THEN {"moving", item.goal} ELSE {"locked"}
      /\ position # "" => position \in S
      /\ position \in {"", gate.status} => gate.status \in S
  BY <1>3, <1>5, <1>6, <1>7
     DEF Positions, GateTarget, NeedsGate, CanTransition, OperationDirectiveTransitions
<1>. HIDE DEF S, position, new
<1>10. CASE position \in {"", gate.status}
  <2>1. gates' = gates
    BY <1>2, <1>8, <1>10 DEF MoveGate
  <2>. QED
    BY <1>2, <1>3, <1>8, <1>9, <1>10, <2>1, GateInPlace DEF S
<1>11. CASE position \notin {"", gate.status}
  <2>1. gates' = [gates EXCEPT ![gate.code] =
                      WithStatus(gate, position, gate.version + 1)]
    BY <1>2, <1>8, <1>11 DEF MoveGate
  <2>2. gates'[gate.code].status = position
    BY <1>8, <2>1, GatePut
  <2>. QED
    BY <1>3, <1>8, <1>9, <1>11, <2>2 DEF S
<1>. QED
  BY <1>10, <1>11

\* What the settlement of its receipt does to a directive's gate.
LEMMA SettlementMovesGate ==
    ASSUME CoreInv, NEW w \in Workers, SettleConfirmation(w),
           NEW d \in Directives, directives[d] # NoRow,
           directives[d].status # directives'[d].status
    PROVE  LET S == Positions(directives[d], directives'[d]) IN
           \/ gates'[directives[d].gate].status \in S
           \/ LeavesGateMovedSince(w, directives[d], S)
<1>. DEFINE item == req[w].dir
            to == req[w].target
            gate == req[w].gate
            position == GateOutcome(to, item)
            S == Positions(directives[d], directives'[d])
<1>1. /\ item \in DirectiveRow /\ item.code \in Directives
      /\ directives[item.code] = item /\ item.version \in Nat
      /\ gate \in GateRow /\ Faithful(gate, gates[gate.code])
      /\ to \in {"confirmed", "failed"}
  BY SettleOnCopy
<1>2. /\ req[w].pc = "conf_settle" /\ Answer(w)
      /\ directives' = [directives EXCEPT ![item.code] =
             WithStatus(item, DirectiveOutcome(to), item.version + 1)]
      /\ \/ gate.status = position /\ gates' = gates
         \/ gates' = [gates EXCEPT ![gate.code] =
                WithStatus(gate, position, gate.version + 1)]
  BY DEF SettleConfirmation, At
<1>3. item.code = d /\ item = directives[d]
  BY <1>1, <1>2 DEF CoreInv, TypeOK, TablesOK
<1>4. directives'[d].status = DirectiveOutcome(to)
  <2>. DEFINE outcome == DirectiveOutcome(to)
              v == item.version + 1
  <2>1. v \in Nat /\ outcome \in DirectiveState
    BY <1>1 DEF DirectiveOutcome, DirectiveState
  <2>2. directives'[d] = WithStatus(item, outcome, v)
    BY <1>2, <1>3 DEF CoreInv, TypeOK, TablesOK
  <2>. HIDE DEF outcome, v, item
  <2>3. WithStatus(item, outcome, v).status = outcome
    BY <1>1, <2>1, DirectiveMoved
  <2>. QED
    BY <2>2, <2>3 DEF outcome
<1>5. position \in S
  BY <1>1, <1>3, <1>4 DEF Positions, DirectiveOutcome, GateOutcome
<1>6. gate.code = item.gate
  BY <1>2 DEF CoreInv, Checked, LegalGateMove
<1>. HIDE DEF S, position
<1>7. CASE gate.status = position /\ gates' = gates
  BY <1>1, <1>2, <1>3, <1>5, <1>6, <1>7, GateInPlace DEF S
<1>8. CASE gates' = [gates EXCEPT ![gate.code] =
                         WithStatus(gate, position, gate.version + 1)]
  <2>1. gates'[gate.code].status = position
    BY <1>1, <1>8, GatePut
  <2>. QED
    BY <1>3, <1>5, <1>6, <2>1 DEF S
<1>. QED
  BY <1>2, <1>7, <1>8

\* No other step changes the status of a directive.
LEMMA DirectiveMovers ==
    ASSUME CoreInv, [Next]_vars, NEW d \in Directives, directives[d] # NoRow,
           directives[d].status # directives'[d].status
    PROVE  \E w \in Workers : TransitionDirective(w) \/ SettleConfirmation(w)
<1>1. directives \in [Directives -> DirectiveRow \cup {NoRow}]
  BY DEF CoreInv, TypeOK, TablesOK
<1>2. ASSUME directives' = directives PROVE FALSE
  BY <1>2
<1>3. ASSUME NEW w \in Workers, NEW x \in Directives, CreateDirective(w, x) PROVE FALSE
  BY <1>1, <1>3 DEF CreateDirective
<1>4. ASSUME NEW w \in Workers, UpdateDirective(w) PROVE FALSE
  <2>. DEFINE item == req[w].dir
              v == req[w].expected + 1
  <2>1. /\ item \in DirectiveRow /\ item.code \in Directives
        /\ directives[item.code] = item
        /\ req[w].gate \in GateRow /\ v \in Nat
    BY <1>4, UpdateOnCopy
  <2>2. PICK goal \in Goals :
            directives' = [directives EXCEPT ![item.code] =
                               Edited(item, req[w].gate, goal, v)]
    BY <1>4 DEF UpdateDirective
  <2>. HIDE DEF item, v
  <2>3. Edited(item, req[w].gate, goal, v).status = item.status
    BY <2>1, <2>2, DirectiveEdited
  <2>. QED
    BY <1>1, <2>1, <2>2, <2>3
<1>5. ASSUME NEW w \in Workers, DeleteDirective(w) PROVE FALSE
  <2>1. \E x : directives' = [directives EXCEPT ![x] = SoftDeleted(@)]
    BY <1>5 DEF DeleteDirective
  <2>2. SoftDeleted(directives[d]).status = directives[d].status
    BY <1>1, SoftDeletedRow DEF AnyRow
  <2>. QED
    BY <1>1, <2>1, <2>2
<1>6. ASSUME NEW w \in Workers, ReservoirNext(w) \/ GateNext(w) \/ Fail(w) PROVE FALSE
  BY <1>2, <1>6
     DEF ReservoirNext, GateNext, Fail, tables, ReservoirFrame, GateFrame,
         CreateReservoir, ReadReservoirToUpdate, ReadReservoirToTransition,
         ReadReservoirToDelete, UpdateReservoir, TransitionReservoir, DeleteReservoir,
         ReadReservoirToCreateGate, CreateGate, ReadGateToUpdate, ReadGateToTransition,
         ReadGateToDelete, ReadReservoirToUpdateGate, UpdateGate, TransitionGate,
         DeleteGate
<1>7. ASSUME NEW w \in Workers, DirectiveNext(w), ~TransitionDirective(w) PROVE FALSE
  BY <1>2, <1>3, <1>4, <1>5, <1>7
     DEF DirectiveNext, tables, ReadGateToCreateDirective, ReadGateToUpdateDirective,
         ReadDirectiveToUpdate, ReadDirectiveToTransition, ReadDirectiveToDelete,
         ReadGateForDirective
<1>8. ASSUME NEW w \in Workers, ConfirmationNext(w), ~SettleConfirmation(w) PROVE FALSE
  BY <1>2, <1>8
     DEF ConfirmationNext, tables, OnlyConfirmations, CreateConfirmation,
         UpdateConfirmation, CloseConfirmation, DeleteConfirmation,
         ReadDirectiveToCreateConfirmation, CountConfirmations,
         ReadConfirmationToUpdate, ReadDirectiveToUpdateConfirmation,
         ReadConfirmationToTransition, ReadDirectiveForConfirmation,
         ReadGateForConfirmation, ReadConfirmationToDelete
<1>. QED
  BY <1>2, <1>6, <1>7, <1>8 DEF Next, vars

\* README 48, service/operation_directive.go 189-199, execution_confirmation.go
\* 178-195: whoever else moves or edits the gate, a directive that starts, ends or
\* is broken off finds or puts its gate where it belongs, unless the gate stood
\* there when it was read and has been written since.
THEOREM GateWithDirective ==
    ASSUME Lead = 0
    PROVE  Spec => GateFollowsDirective
<1>1. ASSUME CoreInv, [Next]_vars
      PROVE  \A d \in Directives :
                 LET old == directives[d]  new == directives'[d] IN
                 old # NoRow /\ old.status # new.status
                 /\ "executing" \in {old.status, new.status}
                     => \/ gates'[old.gate].status \in Positions(old, new)
                        \/ \E w \in Workers :
                               LeavesGateMovedSince(w, old, Positions(old, new))
  BY <1>1, DirectiveMovers, TransitionMovesGate, SettlementMovesGate
<1>. QED
  BY <1>1, CoreInvariance, PTL DEF Spec, GateFollowsDirective

-----------------------------------------------------------------------------
(***************************************************************************)
(* Receipts agree with their directives, and Dispatch implements Permit.   *)
(***************************************************************************)

\* The receipts and their directives agree, in the form the steps keep.
Agreed == OneReceipt /\ ReceiptAgreement

-----------------------------------------------------------------------------
(* What a write does to the agreement.                                     *)

\* A directive that is neither executing nor finished has no receipt.
LEMMA NoReceiptYet ==
    ASSUME TablesOK, ReceiptAgreement, NEW d \in Directives, directives[d] # NoRow,
           directives[d].status \notin {"executing", "completed", "aborted"}
    PROVE  ReceiptsOf(d) = {}
<1>1. ASSUME NEW c \in ReceiptsOf(d) PROVE FALSE
  <2>1. c \in Confirmations /\ confirmations[c] # NoRow
    BY <1>1 DEF ReceiptsOf
  <2>2. confirmations[c].status \in ConfirmationState
    BY <2>1 DEF TablesOK, ConfirmationRow
  <2>. QED
    BY <1>1, <2>2 DEF ReceiptAgreement, ConfirmationState
<1>. QED
  BY <1>1

\* Drafting, editing, removing and moving a directive along its graph, short of
\* its completion, leaves the agreement intact.
LEMMA DirectiveWriteAgrees ==
    ASSUME TablesOK, Agreed, NEW x \in Directives, NEW new \in DirectiveRow,
           directives' = [directives EXCEPT ![x] = new],
           confirmations' = confirmations,
           \/ directives[x] = NoRow /\ new.status = "draft"
           \/ directives[x] # NoRow /\ new.status = directives[x].status
           \/ /\ directives[x] # NoRow /\ new.status # "completed"
              /\ CanTransition(OperationDirectiveTransitions,
                               directives[x].status, new.status)
    PROVE  Agreed'
<1>1. directives \in [Directives -> DirectiveRow \cup {NoRow}] /\ new # NoRow
  BY StoreAssumption DEF TablesOK
<1>2. \A d \in Directives : ReceiptsOf(d)' = ReceiptsOf(d)
  BY DEF ReceiptsOf
<1>3. OneReceipt'
  BY DEF Agreed, OneReceipt
<1>4. directives'[x] = new /\ \A d \in Directives \ {x} : directives'[d] = directives[d]
  BY <1>1
<1>5. ReceiptAgreement
  BY DEF Agreed
<1>. DEFINE OK(row, receipts) ==
       /\ row = NoRow => receipts = {}
       /\ row # NoRow =>
              /\ row.status = "completed"
                     <=> \E c \in receipts : confirmations[c].status = "confirmed"
              /\ \A c \in receipts :
                     /\ confirmations[c].status \in {"failed", "cancelled"}
                            => row.status = "aborted"
                     /\ confirmations[c].status = "pending"
                            => row.status \in {"executing", "aborted"}
<1>6. \A d \in Directives : OK(directives[d], ReceiptsOf(d))
  BY <1>5 DEF ReceiptAgreement
<1>7. OK(new, ReceiptsOf(x))
  <2>1. CASE directives[x] = NoRow /\ new.status = "draft"
    BY <1>6, <2>1
  <2>2. CASE directives[x] # NoRow /\ new.status = directives[x].status
    BY <1>1, <1>6, <2>2
  <2>3. CASE /\ directives[x] # NoRow /\ new.status # "completed"
             /\ CanTransition(OperationDirectiveTransitions,
                              directives[x].status, new.status)
    <3>1. CASE directives[x].status \notin {"executing", "completed", "aborted"}
      <4>1. ReceiptsOf(x) = {}
        BY <1>5, <2>3, <3>1, NoReceiptYet
      <4>. QED
        BY <1>1, <2>3, <4>1
    <3>2. CASE directives[x].status \in {"executing", "completed", "aborted"}
      <4>1. directives[x].status = "executing" /\ new.status = "aborted"
        BY <2>3, <3>2 DEF CanTransition, OperationDirectiveTransitions
      <4>. QED
        BY <1>1, <1>6, <2>3, <4>1
    <3>. QED
      BY <3>1, <3>2
  <2>. QED
    BY <2>1, <2>2, <2>3
<1>8. \A d \in Directives : OK(directives'[d], ReceiptsOf(d))
  BY <1>4, <1>6, <1>7
<1>9. ReceiptAgreement'
  BY <1>2, <1>8 DEF ReceiptAgreement
<1>. QED
  BY <1>3, <1>9 DEF Agreed

\* A write of a receipt that keeps its directive keeps who has receipts.
LEMMA SameReceipts ==
    ASSUME TablesOK, NEW c \in Confirmations, NEW new \in ConfirmationRow,
           confirmations' = [confirmations EXCEPT ![c] = new],
           confirmations[c] # NoRow, new.directive = confirmations[c].directive
    PROVE  /\ \A d \in Directives : ReceiptsOf(d)' = ReceiptsOf(d)
           /\ confirmations'[c] = new
           /\ \A b \in Confirmations \ {c} : confirmations'[b] = confirmations[b]
           /\ OneReceipt => OneReceipt'
<1>1. /\ confirmations \in [Confirmations -> ConfirmationRow \cup {NoRow}]
      /\ new # NoRow
  BY StoreAssumption DEF TablesOK
<1>2. /\ confirmations'[c] = new
      /\ \A b \in Confirmations \ {c} : confirmations'[b] = confirmations[b]
  BY <1>1
<1>3. \A b \in Confirmations : /\ confirmations'[b] = NoRow <=> confirmations[b] = NoRow
                               /\ confirmations[b] # NoRow =>
                                  confirmations'[b].directive = confirmations[b].directive
  BY <1>1, <1>2
<1>4. \A d \in Directives : ReceiptsOf(d)' = ReceiptsOf(d)
  BY <1>3 DEF ReceiptsOf
<1>5. OneReceipt => OneReceipt'
  BY <1>3 DEF OneReceipt
<1>. QED
  BY <1>2, <1>4, <1>5

\* So does editing, removing or cancelling a receipt.
LEMMA ReceiptWriteAgrees ==
    ASSUME TablesOK, Agreed, NEW c \in Confirmations, NEW new \in ConfirmationRow,
           confirmations' = [confirmations EXCEPT ![c] = new],
           directives' = directives,
           confirmations[c] # NoRow, new.directive = confirmations[c].directive,
           \/ new.status = confirmations[c].status
           \/ confirmations[c].status = "failed" /\ new.status = "cancelled"
    PROVE  Agreed'
<1>1. /\ \A d \in Directives : ReceiptsOf(d)' = ReceiptsOf(d)
      /\ confirmations'[c] = new
      /\ \A b \in Confirmations \ {c} : confirmations'[b] = confirmations[b]
      /\ OneReceipt'
  BY SameReceipts DEF Agreed
<1>2. \A d \in Directives : ReceiptsOf(d) \subseteq Confirmations
  BY DEF ReceiptsOf
<1>3. \A b \in Confirmations :
          /\ confirmations'[b].status = "confirmed"
                 <=> confirmations[b].status = "confirmed"
          /\ confirmations'[b].status \in {"failed", "cancelled"}
                 <=> confirmations[b].status \in {"failed", "cancelled"}
          /\ confirmations'[b].status = "pending"
                 <=> confirmations[b].status = "pending"
  BY <1>1
<1>4. ReceiptAgreement'
  BY <1>1, <1>2, <1>3 DEF Agreed, ReceiptAgreement
<1>. QED
  BY <1>1, <1>4 DEF Agreed

\* A new receipt for a directive without one, executing or just aborted.
LEMMA ReportAgrees ==
    ASSUME TablesOK, Agreed, NEW c \in Confirmations, NEW new \in ConfirmationRow,
           confirmations' = [confirmations EXCEPT ![c] = new],
           directives' = directives, confirmations[c] = NoRow,
           new.status = "pending", ReceiptsOf(new.directive) = {},
           directives[new.directive] # NoRow,
           directives[new.directive].status \in {"executing", "aborted"}
    PROVE  Agreed'
<1>1. /\ confirmations \in [Confirmations -> ConfirmationRow \cup {NoRow}]
      /\ new # NoRow /\ new.directive \in Directives
  BY StoreAssumption DEF TablesOK, ConfirmationRow
<1>. DEFINE x == new.directive
<1>2. /\ confirmations'[c] = new
      /\ \A b \in Confirmations \ {c} : confirmations'[b] = confirmations[b]
  BY <1>1
<1>3. \A b \in Confirmations \ {c} :
          confirmations[b] # NoRow => confirmations[b].directive # x
  BY DEF ReceiptsOf
<1>4. OneReceipt'
  BY <1>1, <1>2, <1>3 DEF Agreed, OneReceipt
<1>5. ReceiptsOf(x)' = {c} /\ \A d \in Directives \ {x} : ReceiptsOf(d)' = ReceiptsOf(d)
  BY <1>1, <1>2, <1>3 DEF ReceiptsOf
<1>6. \A d \in Directives \ {x} : \A b \in ReceiptsOf(d) :
          confirmations'[b] = confirmations[b]
  BY <1>2 DEF ReceiptsOf
<1>. HIDE DEF x
<1>7. ReceiptAgreement'
  BY <1>1, <1>2, <1>5, <1>6 DEF Agreed, ReceiptAgreement, x
<1>. QED
  BY <1>4, <1>7 DEF Agreed

\* A settlement ends the receipt and its executing directive alike.
LEMMA SettleAgrees ==
    ASSUME TablesOK, Agreed, NEW c \in Confirmations, NEW new \in ConfirmationRow,
           NEW x \in Directives, NEW moved \in DirectiveRow,
           confirmations' = [confirmations EXCEPT ![c] = new],
           directives' = [directives EXCEPT ![x] = moved],
           confirmations[c] # NoRow, confirmations[c].directive = x,
           new.directive = x, directives[x] # NoRow,
           \/ new.status = "confirmed" /\ moved.status = "completed"
           \/ new.status = "failed" /\ moved.status = "aborted"
    PROVE  Agreed'
<1>1. /\ \A d \in Directives : ReceiptsOf(d)' = ReceiptsOf(d)
      /\ confirmations'[c] = new
      /\ \A b \in Confirmations \ {c} : confirmations'[b] = confirmations[b]
      /\ OneReceipt'
  BY SameReceipts DEF Agreed
<1>2. /\ directives'[x] = moved /\ moved # NoRow
      /\ \A d \in Directives \ {x} : directives'[d] = directives[d]
  BY StoreAssumption DEF TablesOK
<1>3. ReceiptsOf(x) = {c}
  BY DEF ReceiptsOf, Agreed, OneReceipt
<1>4. \A d \in Directives \ {x} : \A b \in ReceiptsOf(d) :
          b # c /\ confirmations'[b] = confirmations[b]
  BY <1>1 DEF ReceiptsOf
<1>5. ReceiptAgreement'
  BY <1>1, <1>2, <1>3, <1>4 DEF Agreed, ReceiptAgreement
<1>. QED
  BY <1>1, <1>5 DEF Agreed

-----------------------------------------------------------------------------
(* Rows seen as records of Permit.                                         *)

\* Writing one directive row writes one permit record.
LEMMA PermitWritten ==
    ASSUME TablesOK, NEW x \in Directives, NEW new,
           directives' = [directives EXCEPT ![x] = new]
    PROVE  permitRecords' = [permitRecords EXCEPT ![x] = PermitOf(new)]
BY DEF TablesOK, permitRecords

\* Writing one receipt row writes one receipt record.
LEMMA ReceiptWritten ==
    ASSUME TablesOK, NEW c \in Confirmations, NEW new,
           confirmations' = [confirmations EXCEPT ![c] = new]
    PROVE  receiptRecords' = [receiptRecords EXCEPT ![c] = ReceiptOf(new)]
BY DEF TablesOK, receiptRecords

\* The record of a row on file says of the row what the steps ask of it.
LEMMA PermitRecordOf ==
    ASSUME NEW row \in DirectiveRow
    PROVE  LET record == PermitOf(row) IN
           /\ record # NoRow /\ record.stage = row.status
           /\ record.order = OrderOf(row)
           /\ record.submitter = row.submittedBy /\ record.approver = row.approvedBy
           /\ record.removed = row.deleted
           /\ record = [stage |-> row.status, order |-> OrderOf(row),
                        submitter |-> row.submittedBy, approver |-> row.approvedBy,
                        removed |-> row.deleted]
<1>1. row # NoRow
  BY StoreAssumption
<1>. DEFINE record == [stage |-> row.status, order |-> OrderOf(row),
                       submitter |-> row.submittedBy, approver |-> row.approvedBy,
                       removed |-> row.deleted]
<1>2. PermitOf(row) = record
  BY <1>1 DEF PermitOf
<1>3. record \in [stage : DirectiveState,
                  order : [gate : Gates, goal : Goals, facility : Facilities],
                  submitter : Users \cup {NoUser},
                  approver : Users \cup {NoUser}, removed : BOOLEAN]
  BY DEF DirectiveRow, OrderOf
<1>. QED
  BY <1>2, <1>3, RecordAssumption

\* The same for a receipt.
LEMMA ReceiptRecordOf ==
    ASSUME NEW row \in ConfirmationRow
    PROVE  LET record == ReceiptOf(row) IN
           /\ record # NoRow /\ record.result = row.status
           /\ record.permit = row.directive /\ record.removed = row.deleted
           /\ record = [result |-> row.status, permit |-> row.directive,
                        removed |-> row.deleted]
<1>1. row # NoRow
  BY StoreAssumption
<1>. DEFINE record == [result |-> row.status, permit |-> row.directive,
                       removed |-> row.deleted]
<1>2. ReceiptOf(row) = record
  BY <1>1 DEF ReceiptOf
<1>3. record \in [result : ConfirmationState, permit : Directives, removed : BOOLEAN]
  BY DEF ConfirmationRow
<1>. QED
  BY <1>2, <1>3, RecordAssumption

\* Every entry of the mapped tables is the record of its row.
LEMMA Records ==
    ASSUME TablesOK
    PROVE  /\ permitRecords \in [Directives -> {PermitOf(directives[d]) : d \in Directives}]
           /\ receiptRecords \in [Confirmations ->
                                  {ReceiptOf(confirmations[c]) : c \in Confirmations}]
           /\ \A d \in Directives : permitRecords[d] = PermitOf(directives[d])
           /\ \A c \in Confirmations : receiptRecords[c] = ReceiptOf(confirmations[c])
BY DEF permitRecords, receiptRecords

-----------------------------------------------------------------------------
(* Each commit of the directive service is a step of one permit.           *)

\* A new draft.
LEMMA CreateIsDraft ==
    ASSUME CoreInv, Agreed, NEW w \in Workers, NEW d \in Directives,
           CreateDirective(w, d)
    PROVE  P!Draft(d) /\ Agreed'
<1>. DEFINE gate == req[w].gate
            row(goal) == [code |-> d, status |-> "draft", version |-> 1,
                          deleted |-> FALSE, gate |-> gate.code, goal |-> goal,
                          facility |-> gate.facility,
                          submittedBy |-> NoUser, approvedBy |-> NoUser]
<1>1. gate \in GateRow /\ TablesOK
  BY DEF CreateDirective, CoreInv, TypeOK, Request, Held, GateHeld, At
<1>2. PICK goal \in Goals : directives' = [directives EXCEPT ![d] = row(goal)]
  BY DEF CreateDirective
<1>3. directives[d] = NoRow /\ confirmations' = confirmations
  BY DEF CreateDirective, DirectiveFrame
<1>. DEFINE new == row(goal)
<1>4. new \in DirectiveRow /\ new.status = "draft"
  BY <1>1, <1>2, StoreAssumption DEF GateRow, DirectiveRow, DirectiveState
<1>5. PermitOf(new) = P!PermitRecord("draft", OrderOf(new), NoUser, NoUser)
  BY <1>4, PermitRecordOf DEF P!PermitRecord
<1>6. OrderOf(new) \in [gate : Gates, goal : Goals, facility : Facilities]
  BY <1>4 DEF DirectiveRow, OrderOf
<1>. HIDE DEF new
<1>7. permitRecords' = [permitRecords EXCEPT ![d] = PermitOf(new)]
  BY <1>1, <1>2, PermitWritten DEF new
<1>8. receiptRecords' = receiptRecords /\ permitRecords[d] = NoRow
  BY <1>1, <1>3, Records DEF receiptRecords, PermitOf
<1>9. P!Draft(d)
  BY <1>5, <1>6, <1>7, <1>8 DEF P!Draft
<1>10. Agreed'
  BY <1>1, <1>2, <1>3, <1>4, DirectiveWriteAgrees DEF new
<1>. QED
  BY <1>9, <1>10

\* An edit changes the order of a draft.
LEMMA UpdateIsRedraft ==
    ASSUME CoreInv, Agreed, NEW w \in Workers, UpdateDirective(w)
    PROVE  P!Redraft(req[w].dir.code) /\ Agreed'
<1>. DEFINE item == req[w].dir
            d == item.code
            gate == req[w].gate
            v == req[w].expected + 1
<1>1. /\ item \in DirectiveRow /\ d \in Directives /\ directives[d] = item
      /\ Live(item) /\ item.status = "draft" /\ gate \in GateRow /\ v \in Nat
  BY UpdateOnCopy
<1>2. PICK goal \in Goals :
          directives' = [directives EXCEPT ![d] = Edited(item, gate, goal, v)]
  BY DEF UpdateDirective
<1>3. TablesOK /\ confirmations' = confirmations
  BY DEF CoreInv, TypeOK, UpdateDirective, DirectiveFrame
<1>. HIDE DEF item, d, gate, v
<1>. DEFINE new == Edited(item, gate, goal, v)
<1>4. /\ new \in DirectiveRow /\ new.status = "draft" /\ new.deleted = item.deleted
      /\ new.submittedBy = item.submittedBy /\ new.approvedBy = item.approvedBy
  BY <1>1, <1>2, DirectiveEdited DEF Edited, DirectiveRow
<1>. HIDE DEF new
<1>5. OrderOf(new) \in [gate : Gates, goal : Goals, facility : Facilities]
  BY <1>4 DEF DirectiveRow, OrderOf
<1>6. PermitOf(new) = [PermitOf(item) EXCEPT !.order = OrderOf(new)]
  BY <1>1, <1>4, PermitRecordOf
<1>7. permitRecords' = [permitRecords EXCEPT ![d] = PermitOf(new)]
      /\ permitRecords[d] = PermitOf(item)
  BY <1>1, <1>2, <1>3, PermitWritten, Records DEF new
<1>8. receiptRecords' = receiptRecords
  BY <1>3 DEF receiptRecords
<1>9. P!InStage(d, "draft")
  BY <1>1, <1>7, PermitRecordOf DEF P!InStage, P!Present, Live
<1>10. permitRecords' = [permitRecords EXCEPT ![d].order = OrderOf(new)]
  BY <1>6, <1>7
<1>11. P!Redraft(d)
  BY <1>5, <1>8, <1>9, <1>10 DEF P!Redraft
<1>12. Agreed'
  BY <1>1, <1>2, <1>3, <1>4, DirectiveWriteAgrees, StoreAssumption DEF new
<1>. QED
  BY <1>11, <1>12 DEF d, item

\* A transition is the step its target names.
LEMMA TransitionIsStep ==
    ASSUME CoreInv, Agreed, NEW w \in Workers, TransitionDirective(w)
    PROVE  P!PermitStep(req[w].dir.code) /\ Agreed'
<1>. DEFINE item == req[w].dir
            d == item.code
            to == req[w].target
            user == req[w].actor
            v == req[w].expected + 1
<1>1. /\ item \in DirectiveRow /\ d \in Directives /\ directives[d] = item
      /\ Live(item) /\ v \in Nat /\ user \in Users /\ to \in DirectiveState
      /\ CanTransition(OperationDirectiveTransitions, item.status, to)
      /\ TwoPersonRule(item, to, user)
  BY TransitionOnCopy
<1>2. to # "completed"
  BY DEF TransitionDirective, At, CoreInv, Checked
<1>3. directives' = [directives EXCEPT ![d] = Signed(item, to, user, v)]
  BY DEF TransitionDirective
<1>4. TablesOK /\ confirmations' = confirmations
  BY DEF CoreInv, TypeOK, TransitionDirective, DirectiveFrame
<1>. HIDE DEF item, d, to, user, v
<1>. DEFINE new == Signed(item, to, user, v)
<1>5. /\ new \in DirectiveRow /\ new.status = to /\ new.deleted = item.deleted
      /\ OrderOf(new) = OrderOf(item)
      /\ new.submittedBy = IF to = "pending" THEN user ELSE item.submittedBy
      /\ new.approvedBy = IF to = "approved" THEN user ELSE item.approvedBy
  <2>1. new.deleted = item.deleted
    BY <1>1 DEF Signed, WithStatus, DirectiveRow
  <2>. QED
    BY <1>1, <2>1, DirectiveSigned DEF OrderOf
<1>. HIDE DEF new
<1>6. permitRecords' = [permitRecords EXCEPT ![d] = PermitOf(new)]
      /\ permitRecords[d] = PermitOf(item)
  BY <1>1, <1>3, <1>4, PermitWritten, Records DEF new
<1>7. receiptRecords' = receiptRecords
  BY <1>4 DEF receiptRecords
<1>8. P!InStage(d, item.status)
  BY <1>1, <1>6, PermitRecordOf DEF P!InStage, P!Present, Live
<1>9. Agreed'
  BY <1>1, <1>2, <1>3, <1>4, <1>5, DirectiveWriteAgrees, StoreAssumption DEF new
<1>13. PermitOf(item) = [stage |-> item.status, order |-> OrderOf(item),
                         submitter |-> item.submittedBy,
                         approver |-> item.approvedBy, removed |-> item.deleted]
  BY <1>1, PermitRecordOf
<1>10. CASE to = "pending"
  <2>1. item.status = "draft"
    BY <1>1, <1>10 DEF CanTransition, OperationDirectiveTransitions
  <2>2. PermitOf(new) = [PermitOf(item) EXCEPT !.stage = "pending", !.submitter = user]
    <3>1. new.submittedBy = user /\ new.approvedBy = item.approvedBy
      BY <1>5, <1>10
    <3>2. PermitOf(new) = [stage |-> "pending", order |-> OrderOf(item),
                           submitter |-> user, approver |-> item.approvedBy,
                           removed |-> item.deleted]
      BY <1>5, <1>10, <3>1, PermitRecordOf
    <3>3. PICK moved : moved = [PermitOf(item) EXCEPT !.stage = "pending"]
      OBVIOUS
    <3>4. moved = [stage |-> "pending", order |-> OrderOf(item),
                   submitter |-> item.submittedBy, approver |-> item.approvedBy,
                   removed |-> item.deleted]
      BY <1>13, <3>3
    <3>5. [PermitOf(item) EXCEPT !.stage = "pending", !.submitter = user]
              = [moved EXCEPT !.submitter = user]
      BY <1>13, <3>3
    <3>. QED
      BY <3>2, <3>4, <3>5
  <2>3. permitRecords' = [permitRecords EXCEPT ![d].stage = "pending",
                                               ![d].submitter = user]
    BY <1>1, <1>6, <2>2, Records, <1>4
  <2>4. P!Submit(d)
    BY <1>1, <1>7, <1>8, <2>1, <2>3 DEF P!Submit
  <2>. QED
    BY <1>9, <2>4 DEF P!PermitStep, d, item
<1>11. CASE to = "approved"
  <2>1. item.status = "pending" /\ Fold[user] # Fold[item.submittedBy]
    BY <1>1, <1>11 DEF CanTransition, OperationDirectiveTransitions, TwoPersonRule,
                       SameUser
  <2>2. PermitOf(new) = [PermitOf(item) EXCEPT !.stage = "approved", !.approver = user]
    <3>1. new.submittedBy = item.submittedBy /\ new.approvedBy = user
      BY <1>5, <1>11
    <3>2. PermitOf(new) = [stage |-> "approved", order |-> OrderOf(item),
                           submitter |-> item.submittedBy, approver |-> user,
                           removed |-> item.deleted]
      BY <1>5, <1>11, <3>1, PermitRecordOf
    <3>3. PICK moved : moved = [PermitOf(item) EXCEPT !.stage = "approved"]
      OBVIOUS
    <3>4. moved = [stage |-> "approved", order |-> OrderOf(item),
                   submitter |-> item.submittedBy, approver |-> item.approvedBy,
                   removed |-> item.deleted]
      BY <1>13, <3>3
    <3>5. [PermitOf(item) EXCEPT !.stage = "approved", !.approver = user]
              = [moved EXCEPT !.approver = user]
      BY <1>13, <3>3
    <3>. QED
      BY <3>2, <3>4, <3>5
  <2>3. permitRecords' = [permitRecords EXCEPT ![d].stage = "approved",
                                               ![d].approver = user]
    BY <1>1, <1>6, <2>2, Records, <1>4
  <2>5. permitRecords[d].submitter = item.submittedBy
    BY <1>6, <1>13
  <2>4. P!Approve(d)
    BY <1>1, <1>7, <1>8, <2>1, <2>3, <2>5 DEF P!Approve
  <2>. QED
    BY <1>9, <2>4 DEF P!PermitStep, d, item
<1>12. CASE to \notin {"pending", "approved"}
  <2>1. PermitOf(new) = [PermitOf(item) EXCEPT !.stage = to]
    BY <1>1, <1>5, <1>12, PermitRecordOf
  <2>2. P!Moved(d, to)
    BY <1>6, <2>1 DEF P!Moved
  <2>3. \/ to = "executing" /\ item.status = "approved"
        \/ to = "aborted" /\ item.status \in {"pending", "approved", "executing"}
    BY <1>1, <1>2, <1>12 DEF CanTransition, OperationDirectiveTransitions
  <2>4. P!Execute(d) \/ P!Abort(d)
    BY <1>7, <1>8, <2>2, <2>3 DEF P!Execute, P!Abort
  <2>. QED
    BY <1>9, <2>4 DEF P!PermitStep, d, item
<1>. QED
  BY <1>10, <1>11, <1>12

\* A deletion removes the permit, whatever its stage by then.
LEMMA DeleteIsRemoval ==
    ASSUME CoreInv, Agreed, NEW w \in Workers, DeleteDirective(w)
    PROVE  P!RemovePermit(req[w].dir.code) /\ Agreed'
<1>. DEFINE d == req[w].dir.code
            row == directives[d]
            new == SoftDeleted(row)
<1>1. /\ Live(row) /\ directives' = [directives EXCEPT ![d] = new]
      /\ confirmations' = confirmations
  BY DEF DeleteDirective, DirectiveFrame
<1>2. d \in Directives /\ TablesOK
  BY DEF CoreInv, TypeOK, DeleteDirective, At, Request, Held, DirHeld, DirectiveRow
<1>3. row \in DirectiveRow
  BY <1>1, <1>2 DEF Live, TablesOK
<1>4. new \in DirectiveRow /\ new = [row EXCEPT !.deleted = TRUE]
      /\ new.status = row.status
  BY <1>3 DEF SoftDeleted, DirectiveRow
<1>. HIDE DEF d, row, new
<1>5. PermitOf(new) = [PermitOf(row) EXCEPT !.removed = TRUE]
  <2>1. /\ new.deleted = TRUE /\ OrderOf(new) = OrderOf(row)
        /\ new.submittedBy = row.submittedBy /\ new.approvedBy = row.approvedBy
    BY <1>3, <1>4 DEF OrderOf, DirectiveRow
  <2>2. PermitOf(row) = [stage |-> row.status, order |-> OrderOf(row),
                         submitter |-> row.submittedBy,
                         approver |-> row.approvedBy, removed |-> row.deleted]
    BY <1>3, PermitRecordOf
  <2>3. PermitOf(new) = [stage |-> row.status, order |-> OrderOf(row),
                         submitter |-> row.submittedBy,
                         approver |-> row.approvedBy, removed |-> TRUE]
    BY <1>4, <2>1, PermitRecordOf
  <2>. DEFINE yes == TRUE
  <2>. HIDE DEF yes
  <2>4. [PermitOf(row) EXCEPT !.removed = yes] =
            [stage |-> row.status, order |-> OrderOf(row),
             submitter |-> row.submittedBy, approver |-> row.approvedBy,
             removed |-> yes]
    BY <2>2
  <2>. QED
    BY <2>3, <2>4, Zenon DEF yes
<1>6. permitRecords' = [permitRecords EXCEPT ![d] = PermitOf(new)]
      /\ permitRecords[d] = PermitOf(row)
  BY <1>1, <1>2, PermitWritten, Records DEF row, new
<1>7. receiptRecords' = receiptRecords
  BY <1>1 DEF receiptRecords
<1>8. P!RemovePermit(d)
  BY <1>1, <1>3, <1>5, <1>6, <1>7, PermitRecordOf
     DEF P!RemovePermit, P!Present, Live
<1>9. Agreed'
  BY <1>1, <1>2, <1>3, <1>4, DirectiveWriteAgrees, StoreAssumption DEF row, new, Live
<1>. QED
  BY <1>8, <1>9 DEF d

-----------------------------------------------------------------------------
(* Each commit of the receipt service is a step of one receipt, or none.   *)

\* A report for a directive that was executing when the handler read it.
LEMMA CreateIsReport ==
    ASSUME CoreInv, Agreed, ExecutionKept, NEW w \in Workers, NEW c \in Confirmations,
           CreateConfirmation(w, c)
    PROVE  P!ReceiptStep(c) /\ Agreed'
<1>. DEFINE d == req[w].dir.code
            new == [code |-> c, status |-> "pending", version |-> 1,
                    deleted |-> FALSE, directive |-> d]
<1>1. /\ confirmations[c] = NoRow /\ directives' = directives
      /\ confirmations' = [confirmations EXCEPT ![c] = new]
      /\ \A b \in Confirmations :
             confirmations[b] # NoRow => confirmations[b].directive # d
  BY DEF CreateConfirmation, OnlyConfirmations
<1>2. /\ TablesOK /\ req[w].dir # NoRow /\ req[w].dir.status = "executing"
      /\ d \in Directives /\ Faithful(req[w].dir, directives[d])
  BY DEF CoreInv, TypeOK, CreateConfirmation, At, Request, Held, DirHeld, Checked,
         Copied, DirectiveRow
<1>3. directives[d] # NoRow
  BY <1>2 DEF Faithful
<1>4. ReceiptsOf(d) = {}
  BY <1>1 DEF ReceiptsOf
<1>5. directives[d].status \in {"executing", "completed", "aborted"}
  BY <1>2 DEF ExecutionKept
<1>6. directives[d].status # "completed"
  BY <1>2, <1>3, <1>4 DEF Agreed, ReceiptAgreement
<1>7. /\ new \in ConfirmationRow /\ new.status = "pending" /\ new.directive = d
      /\ new.deleted = FALSE
  BY <1>2 DEF ConfirmationRow, ConfirmationState
<1>. HIDE DEF d, new
<1>8. receiptRecords' = [receiptRecords EXCEPT ![c] = ReceiptOf(new)]
      /\ permitRecords' = permitRecords
  BY <1>1, <1>2, ReceiptWritten DEF permitRecords
<1>9. ReceiptOf(new) = P!ReceiptRecord(d)
  BY <1>7, ReceiptRecordOf DEF P!ReceiptRecord
<1>10. receiptRecords[c] = NoRow /\ permitRecords[d] = PermitOf(directives[d])
  BY <1>1, <1>2, Records DEF ReceiptOf
<1>11. directives[d] \in DirectiveRow
  BY <1>2, <1>3 DEF TablesOK
<1>12. permitRecords[d] # NoRow /\ permitRecords[d].stage = directives[d].status
  BY <1>10, <1>11, PermitRecordOf
<1>13. ASSUME NEW b \in Confirmations, receiptRecords[b] # NoRow
       PROVE  receiptRecords[b].permit # d
  <2>1. receiptRecords[b] = ReceiptOf(confirmations[b])
    BY <1>2, Records
  <2>2. confirmations[b] # NoRow
    BY <1>13, <2>1 DEF ReceiptOf
  <2>3. confirmations[b] \in ConfirmationRow
    BY <1>2, <2>2 DEF TablesOK
  <2>. QED
    BY <1>1, <2>1, <2>2, <2>3, ReceiptRecordOf
<1>14. P!Report(c, d)
  BY <1>5, <1>6, <1>8, <1>9, <1>10, <1>12, <1>13 DEF P!Report
<1>15. Agreed'
  BY <1>1, <1>2, <1>3, <1>4, <1>5, <1>6, <1>7, ReportAgrees
<1>. QED
  BY <1>2, <1>14, <1>15 DEF P!ReceiptStep

\* An edit of a receipt shows in no record.
LEMMA UpdateIsSilent ==
    ASSUME CoreInv, Agreed, NEW w \in Workers, UpdateConfirmation(w)
    PROVE  UNCHANGED <<permitRecords, receiptRecords>> /\ Agreed'
<1>. DEFINE item == req[w].conf
            c == item.code
            v == req[w].expected + 1
            d == req[w].dir.code
            new == WithDirective(item, d, v)
<1>1. /\ item \in ConfirmationRow /\ c \in Confirmations /\ d = item.directive
      /\ Faithful(item, confirmations[c]) /\ v \in Nat /\ d \in Directives
      /\ req[w].expected \in Nat /\ req[w].expected <= item.version
  BY DEF CoreInv, TypeOK, UpdateConfirmation, At, Request, Held, ConfHeld, ConfCAS,
         DirHeld, Checked, Copied, ConfirmationRow, DirectiveRow
<1>2. /\ confirmations' = [confirmations EXCEPT ![c] = new]
      /\ Matches(confirmations[c], req[w].expected) /\ directives' = directives
  BY DEF UpdateConfirmation, OnlyConfirmations
<1>3. TablesOK /\ confirmations[c] \in AnyRow \cup {NoRow} /\ item \in AnyRow
  BY <1>1 DEF CoreInv, TypeOK, TablesOK, AnyRow
<1>4. confirmations[c] = item /\ Live(item)
  BY <1>1, <1>2, <1>3, CopyIsRow DEF Matches
<1>5. /\ new \in ConfirmationRow /\ new.status = item.status
      /\ new.directive = item.directive
  BY <1>1, ConfirmationRewritten
<1>6. new.deleted = item.deleted
  BY <1>1 DEF WithDirective, ConfirmationRow
<1>. HIDE DEF item, c, d, v, new
<1>7. receiptRecords' = [receiptRecords EXCEPT ![c] = ReceiptOf(new)]
      /\ receiptRecords[c] = ReceiptOf(item)
  BY <1>1, <1>2, <1>3, <1>4, ReceiptWritten, Records
<1>10. ReceiptOf(new) = ReceiptOf(item)
  BY <1>1, <1>5, <1>6, ReceiptRecordOf
<1>8. permitRecords' = permitRecords /\ receiptRecords' = receiptRecords
  BY <1>1, <1>2, <1>3, <1>7, <1>10, Records DEF permitRecords
<1>9. Agreed'
  BY <1>1, <1>2, <1>3, <1>4, <1>5, ReceiptWriteAgrees DEF Live
<1>. QED
  BY <1>8, <1>9

\* A failed receipt is cancelled.
LEMMA CloseIsCancel ==
    ASSUME CoreInv, Agreed, NEW w \in Workers, CloseConfirmation(w)
    PROVE  P!Cancel(req[w].conf.code) /\ Agreed'
<1>. DEFINE item == req[w].conf
            c == item.code
            v == req[w].expected + 1
            new == WithStatus(item, req[w].target, v)
<1>1. /\ item \in ConfirmationRow /\ c \in Confirmations
      /\ Faithful(item, confirmations[c]) /\ v \in Nat
      /\ req[w].expected \in Nat /\ req[w].expected <= item.version
      /\ item.status = "failed" /\ req[w].target = "cancelled"
  BY DEF CoreInv, TypeOK, CloseConfirmation, At, Request, Held, ConfHeld, ConfCAS,
         Checked, Copied, ConfirmationRow
<1>2. /\ confirmations' = [confirmations EXCEPT ![c] = new]
      /\ Matches(confirmations[c], req[w].expected) /\ directives' = directives
  BY DEF CloseConfirmation, OnlyConfirmations
<1>3. TablesOK /\ confirmations[c] \in AnyRow \cup {NoRow} /\ item \in AnyRow
  BY <1>1 DEF CoreInv, TypeOK, TablesOK, AnyRow
<1>4. confirmations[c] = item /\ Live(item)
  BY <1>1, <1>2, <1>3, CopyIsRow DEF Matches
<1>5. "cancelled" \in ConfirmationState /\ new = WithStatus(item, "cancelled", v)
  BY <1>1 DEF ConfirmationState
<1>6. new.deleted = item.deleted
  BY <1>1, <1>5 DEF WithStatus, ConfirmationRow
<1>. HIDE DEF item, c, v, new
<1>7. /\ new \in ConfirmationRow /\ new.status = "cancelled"
      /\ new.directive = item.directive
  <2>1. \A t \in ConfirmationState : LET moved == WithStatus(item, t, v) IN
            moved \in ConfirmationRow /\ moved.status = t
            /\ moved.directive = item.directive
    BY <1>1, ConfirmationRewritten
  <2>. QED
    BY <1>5, <2>1
<1>8. /\ permitRecords' = permitRecords
      /\ receiptRecords' = [receiptRecords EXCEPT ![c] = ReceiptOf(new)]
      /\ receiptRecords[c] = ReceiptOf(item)
  BY <1>1, <1>2, <1>3, <1>4, ReceiptWritten, Records DEF permitRecords
<1>11. /\ P!Present(receiptRecords[c]) /\ receiptRecords[c].result = "failed"
       /\ ReceiptOf(new) = [ReceiptOf(item) EXCEPT !.result = "cancelled"]
  <2>1. /\ ReceiptOf(item) = [result |-> item.status, permit |-> item.directive,
                              removed |-> item.deleted]
        /\ ReceiptOf(new) = [result |-> "cancelled", permit |-> item.directive,
                             removed |-> item.deleted]
        /\ ReceiptOf(item) # NoRow
    BY <1>1, <1>6, <1>7, ReceiptRecordOf
  <2>. QED
    BY <1>1, <1>4, <1>8, <2>1 DEF P!Present, Live
<1>9. P!Cancel(c)
  <2>1. receiptRecords' = [receiptRecords EXCEPT ![c].result = "cancelled"]
    BY <1>1, <1>3, <1>8, <1>11, Records
  <2>. QED
    BY <1>8, <1>11, <2>1 DEF P!Cancel
<1>10. Agreed'
  BY <1>1, <1>2, <1>3, <1>4, <1>7, ReceiptWriteAgrees DEF Live
<1>. QED
  BY <1>9, <1>10 DEF c, item

\* A deletion removes the receipt, whatever its result by then.
LEMMA DeleteRemovesReceipt ==
    ASSUME CoreInv, Agreed, NEW w \in Workers, DeleteConfirmation(w)
    PROVE  P!RemoveReceipt(req[w].conf.code) /\ Agreed'
<1>. DEFINE c == req[w].conf.code
            row == confirmations[c]
            new == SoftDeleted(row)
            yes == TRUE
<1>1. /\ Live(row) /\ confirmations' = [confirmations EXCEPT ![c] = new]
      /\ directives' = directives
  BY DEF DeleteConfirmation, OnlyConfirmations
<1>2. c \in Confirmations /\ TablesOK
  BY DEF CoreInv, TypeOK, DeleteConfirmation, At, Request, Held, ConfHeld,
         ConfirmationRow
<1>3. row \in ConfirmationRow
  BY <1>1, <1>2 DEF Live, TablesOK
<1>4. /\ new \in ConfirmationRow /\ new.status = row.status
      /\ new.directive = row.directive /\ new.deleted = yes
  BY <1>3 DEF SoftDeleted, ConfirmationRow
<1>. HIDE DEF c, row, new, yes
<1>5. /\ permitRecords' = permitRecords
      /\ receiptRecords' = [receiptRecords EXCEPT ![c] = ReceiptOf(new)]
      /\ receiptRecords[c] = ReceiptOf(row)
  BY <1>1, <1>2, ReceiptWritten, Records DEF permitRecords, row
<1>9. /\ ReceiptOf(row) = [result |-> row.status, permit |-> row.directive,
                           removed |-> row.deleted]
      /\ ReceiptOf(new) = [result |-> row.status, permit |-> row.directive,
                           removed |-> yes]
      /\ ReceiptOf(row) # NoRow
  BY <1>3, <1>4, ReceiptRecordOf
<1>10. P!Present(receiptRecords[c])
  BY <1>1, <1>3, <1>5, <1>9 DEF P!Present, Live
<1>6. receiptRecords' = [receiptRecords EXCEPT ![c].removed = yes]
  <2>1. ReceiptOf(new) = [ReceiptOf(row) EXCEPT !.removed = yes]
    BY <1>9
  <2>. QED
    BY <1>2, <1>5, <2>1, Records
<1>7. P!RemoveReceipt(c)
  <2>1. receiptRecords' = [receiptRecords EXCEPT ![c].removed = TRUE]
    BY <1>6, Zenon DEF yes
  <2>. QED
    BY <1>5, <1>10, <2>1 DEF P!RemoveReceipt
<1>8. Agreed'
  BY <1>1, <1>2, <1>3, <1>4, ReceiptWriteAgrees DEF row, Live
<1>. QED
  BY <1>7, <1>8 DEF c

\* A settlement is the outcome of its receipt: both records end in one step.
LEMMA SettleIsOutcome ==
    ASSUME CoreInv, Agreed, NEW w \in Workers, SettleConfirmation(w)
    PROVE  P!ReceiptStep(req[w].conf.code) /\ Agreed'
<1>. DEFINE item == req[w].conf
            c == item.code
            row == req[w].dir
            d == row.code
            to == req[w].target
            v == req[w].expected + 1
            u == row.version + 1
            outcome == DirectiveOutcome(to)
            new == WithStatus(item, to, v)
            moved == WithStatus(row, outcome, u)
<1>1. /\ item \in ConfirmationRow /\ c \in Confirmations /\ confirmations[c] = item
      /\ Live(item) /\ item.status = "pending" /\ to \in {"confirmed", "failed"}
      /\ row \in DirectiveRow /\ d \in Directives /\ directives[d] = row
      /\ Live(row) /\ row.status = "executing" /\ d = item.directive
      /\ v \in Nat /\ u \in Nat
  BY SettleOnCopy
<1>2. /\ confirmations' = [confirmations EXCEPT ![c] = new]
      /\ directives' = [directives EXCEPT ![d] = moved]
  BY DEF SettleConfirmation
<1>3. TablesOK
  BY DEF CoreInv, TypeOK
<1>4. \/ to = "confirmed" /\ outcome = "completed"
      \/ to = "failed" /\ outcome = "aborted"
  BY <1>1 DEF DirectiveOutcome
<1>5. to \in ConfirmationState /\ outcome \in DirectiveState
  BY <1>4 DEF ConfirmationState, DirectiveState
<1>6. new.deleted = item.deleted /\ moved.deleted = row.deleted
  BY <1>1 DEF WithStatus, ConfirmationRow, DirectiveRow
<1>. HIDE DEF item, c, row, d, to, v, u, outcome
<1>7. new \in ConfirmationRow /\ new.status = to /\ new.directive = item.directive
  BY <1>1, <1>5, ConfirmationRewritten
<1>8. /\ moved \in DirectiveRow /\ moved.status = outcome
      /\ OrderOf(moved) = OrderOf(row)
      /\ moved.submittedBy = row.submittedBy /\ moved.approvedBy = row.approvedBy
  BY <1>1, <1>5, DirectiveMoved DEF OrderOf
<1>. HIDE DEF new, moved
<1>9. /\ receiptRecords' = [receiptRecords EXCEPT ![c] = ReceiptOf(new)]
      /\ receiptRecords[c] = ReceiptOf(item)
  BY <1>1, <1>2, <1>3, ReceiptWritten, Records
<1>10. /\ permitRecords' = [permitRecords EXCEPT ![d] = PermitOf(moved)]
       /\ permitRecords[d] = PermitOf(row)
  BY <1>1, <1>2, <1>3, PermitWritten, Records
<1>11. /\ ReceiptOf(item) = [result |-> item.status, permit |-> item.directive,
                             removed |-> item.deleted]
       /\ ReceiptOf(new) = [result |-> to, permit |-> item.directive,
                            removed |-> item.deleted]
       /\ ReceiptOf(item) # NoRow
  BY <1>1, <1>6, <1>7, ReceiptRecordOf
<1>12. /\ PermitOf(row) = [stage |-> row.status, order |-> OrderOf(row),
                           submitter |-> row.submittedBy,
                           approver |-> row.approvedBy, removed |-> row.deleted]
       /\ PermitOf(moved) = [stage |-> outcome, order |-> OrderOf(row),
                             submitter |-> row.submittedBy,
                             approver |-> row.approvedBy, removed |-> row.deleted]
       /\ PermitOf(row) # NoRow
  <2>1. PermitOf(row).removed = row.deleted
    BY <1>1, PermitRecordOf
  <2>. QED
    BY <1>1, <1>6, <1>8, PermitRecordOf
<1>13. ReceiptOf(new) = [ReceiptOf(item) EXCEPT !.result = to]
  BY <1>11
<1>14. PermitOf(moved) = [PermitOf(row) EXCEPT !.stage = outcome]
  BY <1>12
<1>15. receiptRecords' = [receiptRecords EXCEPT ![c].result = to]
  BY <1>1, <1>3, <1>9, <1>13, Records
<1>16. P!Moved(d, outcome)
  <2>1. permitRecords' = [permitRecords EXCEPT ![d].stage = outcome]
    BY <1>1, <1>3, <1>10, <1>14, Records
  <2>. QED
    BY <2>1 DEF P!Moved
<1>17. /\ P!Present(receiptRecords[c]) /\ receiptRecords[c].result = "pending"
       /\ receiptRecords[c].permit = d
  BY <1>1, <1>9, <1>11 DEF P!Present, Live
<1>18. P!InStage(d, "executing")
  BY <1>1, <1>10, <1>12 DEF P!InStage, P!Present, Live
<1>19. P!Outcome(c, to, outcome)
  BY <1>15, <1>16, <1>17, <1>18 DEF P!Outcome
<1>20. P!ReceiptStep(c)
  BY <1>4, <1>19 DEF P!ReceiptStep, P!Confirm, P!Reject
<1>21. Agreed'
  BY <1>1, <1>2, <1>3, <1>4, <1>7, <1>8, SettleAgrees DEF Live
<1>. QED
  BY <1>20, <1>21 DEF c, item

-----------------------------------------------------------------------------
(* What a copied executing directive says of its row for ever.             *)

\* The copy of a directive a request carries after a step is the one it had, or
\* a live row it has just read.
LEMMA DirectiveCopies ==
    ASSUME CoreInv, [Next]_vars, NEW v \in Workers
    PROVE  \/ req'[v].dir \in {NoRow, req[v].dir}
           \/ /\ directives' = directives
              /\ \E d \in Directives :
                     directives[d] # NoRow /\ req'[v].dir = directives[d]
                     /\ directives[d].code = d
<1>. DEFINE Good(q, w) ==
       \/ q.dir \in {NoRow, req[w].dir}
       \/ /\ directives' = directives
          /\ \E d \in Directives :
                 directives[d] # NoRow /\ q.dir = directives[d] /\ directives[d].code = d
<1>1. TablesOK /\ req \in [Workers -> Request]
  BY DEF CoreInv, TypeOK
<1>2. ASSUME NEW w \in Workers, NEW q, Serve(w, q), Good(q, w)
      PROVE  Good(req'[v], v)
  BY <1>1, <1>2 DEF Serve
<1>3. ASSUME NEW w \in Workers, Answer(w)
      PROVE  Good(req'[v], v)
  BY <1>1, <1>3 DEF Answer, Idle
<1>4. \A d \in Directives : Live(directives[d]) =>
          directives[d] # NoRow /\ directives[d].code = d
  BY <1>1 DEF TablesOK, Live
<1>5. ASSUME NEW w \in Workers, ReservoirNext(w) PROVE Good(req'[v], v)
  <2>1. CASE Answer(w)
    BY <1>3, <2>1
  <2>2. ASSUME NEW q, Serve(w, q), q.dir = NoRow PROVE Good(req'[v], v)
    BY <1>2, <2>2
  <2>. QED
    BY <1>5, <2>1, <2>2 DEF ReservoirNext, CreateReservoir, UpdateReservoir,
       TransitionReservoir, DeleteReservoir, ReadReservoirToUpdate,
       ReadReservoirToTransition, ReadReservoirToDelete, Idle
<1>6. ASSUME NEW w \in Workers, NEW q, Serve(w, q), q.dir = req[w].dir
      PROVE  Good(req'[v], v)
  BY <1>2, <1>6
<1>7. \A w \in Workers : req[w] \in Request
  BY <1>1
<1>8. ASSUME NEW w \in Workers, NEW q, Serve(w, q), q.dir = NoRow
      PROVE  Good(req'[v], v)
  BY <1>2, <1>8
<1>9. ASSUME NEW w \in Workers, NEW q, Serve(w, q), directives' = directives,
             NEW d \in Directives, Live(directives[d]), q.dir = directives[d]
      PROVE  Good(req'[v], v)
  BY <1>2, <1>4, <1>9
<1>. HIDE DEF Good
<1>10. ASSUME NEW w \in Workers, GateNext(w) PROVE Good(req'[v], v)
  <2>1. CASE ReadReservoirToUpdateGate(w)
    BY <1>6, <1>7, <2>1 DEF ReadReservoirToUpdateGate, Request
  <2>. QED
    BY <1>3, <1>8, <1>10, <2>1 DEF GateNext, CreateGate, UpdateGate, TransitionGate,
       DeleteGate, ReadReservoirToCreateGate, ReadGateToUpdate, ReadGateToTransition,
       ReadGateToDelete, Idle
<1>11. ASSUME NEW w \in Workers, DirectiveNext(w) PROVE Good(req'[v], v)
  <2>1. ASSUME \/ \E d \in Directives : CreateDirective(w, d)
               \/ UpdateDirective(w) \/ TransitionDirective(w) \/ DeleteDirective(w)
        PROVE  Good(req'[v], v)
    BY <1>3, <2>1 DEF CreateDirective, UpdateDirective, TransitionDirective,
       DeleteDirective
  <2>2. ASSUME NEW g \in Gates, ReadGateToCreateDirective(w, g)
        PROVE  Good(req'[v], v)
    BY <1>8, <2>2 DEF ReadGateToCreateDirective, Idle
  <2>3. ASSUME NEW g \in Gates, ReadGateToUpdateDirective(w, g)
        PROVE  Good(req'[v], v)
    BY <1>6, <1>7, <2>3 DEF ReadGateToUpdateDirective, Request
  <2>4. CASE ReadGateForDirective(w)
    BY <1>6, <1>7, <2>4 DEF ReadGateForDirective, Request
  <2>5. ASSUME NEW d \in Directives,
               \/ ReadDirectiveToUpdate(w, d)
               \/ ReadDirectiveToTransition(w, d)
               \/ ReadDirectiveToDelete(w, d)
        PROVE  Good(req'[v], v)
    <3>1. directives' = directives /\ Live(directives[d])
      BY <2>5 DEF ReadDirectiveToUpdate, ReadDirectiveToTransition,
         ReadDirectiveToDelete, tables
    <3>2. PICK q : Serve(w, q) /\ q.dir = directives[d]
      <4>1. CASE ReadDirectiveToUpdate(w, d)
        <5>1. PICK e, q : /\ Serve(w, q)
                          /\ q = [Idle EXCEPT !.pc = "dir_update", !.expected = e,
                                              !.dir = directives[d]]
          BY <4>1 DEF ReadDirectiveToUpdate
        <5>2. q.dir = directives[d]
          BY <5>1 DEF Idle
        <5>. QED
          BY <5>1, <5>2
      <4>2. CASE ReadDirectiveToTransition(w, d)
        <5>1. PICK pc, actor, e, to, q :
                  /\ Serve(w, q)
                  /\ q = [Idle EXCEPT !.pc = pc, !.actor = actor, !.expected = e,
                                      !.target = to, !.dir = directives[d]]
          BY <4>2 DEF ReadDirectiveToTransition
        <5>2. q.dir = directives[d]
          BY <5>1 DEF Idle
        <5>. QED
          BY <5>1, <5>2
      <4>3. CASE ReadDirectiveToDelete(w, d)
        <5>1. PICK q : /\ Serve(w, q)
                       /\ q = [Idle EXCEPT !.pc = "dir_delete", !.dir = directives[d]]
          BY <4>3 DEF ReadDirectiveToDelete
        <5>2. q.dir = directives[d]
          BY <5>1 DEF Idle
        <5>. QED
          BY <5>1, <5>2
      <4>. QED
        BY <2>5, <4>1, <4>2, <4>3
    <3>. QED
      BY <1>9, <3>1, <3>2
  <2>. QED
    BY <1>11, <2>1, <2>2, <2>3, <2>4, <2>5 DEF DirectiveNext
<1>12. ASSUME NEW w \in Workers, ConfirmationNext(w) PROVE Good(req'[v], v)
  <2>. DEFINE x == req[w].conf.directive
  <2>1. ASSUME \/ \E c \in Confirmations : CreateConfirmation(w, c)
               \/ UpdateConfirmation(w) \/ SettleConfirmation(w)
               \/ CloseConfirmation(w) \/ DeleteConfirmation(w)
        PROVE  Good(req'[v], v)
    BY <1>3, <2>1 DEF CreateConfirmation, UpdateConfirmation, SettleConfirmation,
       CloseConfirmation, DeleteConfirmation
  <2>2. ASSUME NEW d \in Directives, ReadDirectiveToCreateConfirmation(w, d)
        PROVE  Good(req'[v], v)
    <3>1. PICK q : q = [Idle EXCEPT !.pc = "conf_count", !.dir = directives[d]]
      OBVIOUS
    <3>2. /\ Serve(w, q) /\ q.dir = directives[d]
          /\ directives' = directives /\ Live(directives[d])
      BY <2>2, <3>1 DEF ReadDirectiveToCreateConfirmation, Executing, Idle, tables
    <3>. QED
      BY <1>9, <3>2
  <2>3. ASSUME NEW c \in Confirmations,
               \/ ReadConfirmationToUpdate(w, c)
               \/ ReadConfirmationToTransition(w, c)
               \/ ReadConfirmationToDelete(w, c)
        PROVE  Good(req'[v], v)
    BY <1>8, <2>3 DEF ReadConfirmationToUpdate, ReadConfirmationToTransition,
       ReadConfirmationToDelete, Idle
  <2>4. CASE CountConfirmations(w) \/ ReadGateForConfirmation(w)
    BY <1>6, <1>7, <2>4 DEF CountConfirmations, ReadGateForConfirmation, Request
  <2>5. CASE ReadDirectiveToUpdateConfirmation(w) \/ ReadDirectiveForConfirmation(w)
    <3>1. req[w].conf # NoRow /\ req[w].conf \in ConfirmationRow /\ x \in Directives
      BY <1>7, <2>5 DEF ReadDirectiveToUpdateConfirmation, ReadDirectiveForConfirmation,
         At, CoreInv, Held, ConfHeld, Request, ConfirmationRow
    <3>2. PICK pc, q : /\ q = [req[w] EXCEPT !.pc = pc, !.dir = directives[x]]
                       /\ Serve(w, q) /\ directives' = directives
                       /\ Live(directives[x])
      BY <2>5 DEF ReadDirectiveToUpdateConfirmation,
         ReadDirectiveForConfirmation, Executing, tables
    <3>3. q.dir = directives[x]
      BY <1>7, <3>2 DEF Request
    <3>. QED
      BY <1>9, <3>1, <3>2, <3>3
  <2>. QED
    BY <1>12, <2>1, <2>2, <2>3, <2>4, <2>5 DEF ConfirmationNext
<1>13. CASE UNCHANGED vars
  BY <1>13 DEF vars, Good
<1>14. ASSUME Next PROVE Good(req'[v], v)
  <2>1. PICK w \in Workers : \/ ReservoirNext(w) \/ GateNext(w) \/ DirectiveNext(w)
                             \/ ConfirmationNext(w) \/ Fail(w)
    BY <1>14 DEF Next
  <2>2. CASE Fail(w)
    BY <1>3, <2>2 DEF Fail
  <2>. QED
    BY <1>5, <1>10, <1>11, <1>12, <2>1, <2>2
<1>. QED
  BY <1>13, <1>14 DEF Good

\* Once a directive was seen executing it is executing or finished.
LEMMA ExecutionStays ==
    ASSUME CoreInv, ExecutionKept, Lead = 0, [Next]_vars
    PROVE  ExecutionKept'
<1>. DEFINE Late == {"executing", "completed", "aborted"}
<1>1. TablesOK /\ TablesOK' /\ RowSteps
  BY NextCarries DEF CoreInv, TypeOK
<1>2. ASSUME NEW d \in Directives, directives[d] # NoRow, directives[d].status \in Late
      PROVE  directives'[d].status \in Late
  <2>1. RowStep(directives[d], directives'[d], OperationDirectiveTransitions)
    BY <1>1 DEF RowSteps
  <2>2. directives[d] \in AnyRow
    BY <1>1, <1>2 DEF TablesOK, AnyRow
  <2>. QED
    BY <1>2, <2>1, <2>2, SoftDeletedRow
       DEF RowStep, CanTransition, OperationDirectiveTransitions
<1>3. ASSUME NEW v \in Workers, req'[v].dir # NoRow, req'[v].dir.status = "executing"
      PROVE  directives'[req'[v].dir.code].status \in Late
  <2>1. CASE req'[v].dir = req[v].dir
    <3>1. Faithful(req[v].dir, directives[req[v].dir.code])
          /\ req[v].dir.code \in Directives
      BY <1>3, <2>1 DEF CoreInv, TypeOK, Copied, Request, DirectiveRow
    <3>2. directives[req[v].dir.code] # NoRow
      BY <3>1 DEF Faithful
    <3>3. directives[req[v].dir.code].status \in Late
      BY <1>3, <2>1 DEF ExecutionKept
    <3>. QED
      BY <1>2, <2>1, <3>1, <3>2, <3>3
  <2>2. ASSUME NEW d \in Directives, directives' = directives, directives[d] # NoRow,
               req'[v].dir = directives[d], directives[d].code = d
        PROVE  directives'[req'[v].dir.code].status \in Late
    BY <1>3, <2>2
  <2>. QED
    BY <1>3, <2>1, <2>2, DirectiveCopies
<1>. QED
  BY <1>3 DEF ExecutionKept

-----------------------------------------------------------------------------
(* From the first state, along every step.                                 *)

\* What every seed row is, and that no request holds a copy yet.
LEMMA SeededRows ==
    ASSUME Init
    PROVE  /\ \A d \in Directives : directives[d] # NoRow =>
                  \E g \in Gates, status \in {"draft", "pending", "executing"},
                     goal \in Goals, s \in Users \cup {NoUser}, a \in Users \cup {NoUser} :
                      /\ gates[g] # NoRow
                      /\ directives[d] = SeedDirective(d, g, status, goal, s, a)
                      /\ status = "draft" => s = NoUser /\ a = NoUser
                      /\ status = "pending" => s # NoUser /\ a = NoUser
                      /\ status = "executing" =>
                             NoUser \notin {s, a} /\ Fold[s] # Fold[a]
           /\ \A c \in Confirmations : confirmations[c] # NoRow =>
                  \E d \in Directives :
                      /\ Executing(directives[d])
                      /\ confirmations[c] = [code |-> c, status |-> "pending",
                             version |-> 1, deleted |-> FALSE, directive |-> d]
           /\ OneReceipt
           /\ \A w \in Workers : req[w].dir = NoRow
<1>1. ASSUME NEW d \in Directives, directives[d] # NoRow
      PROVE  \E g \in Gates, status \in {"draft", "pending", "executing"},
                goal \in Goals, s \in Users \cup {NoUser}, a \in Users \cup {NoUser} :
                 /\ gates[g] # NoRow
                 /\ directives[d] = SeedDirective(d, g, status, goal, s, a)
                 /\ status = "draft" => s = NoUser /\ a = NoUser
                 /\ status = "pending" => s # NoUser /\ a = NoUser
                 /\ status = "executing" => NoUser \notin {s, a} /\ Fold[s] # Fold[a]
  <2>1. directives[d] \in SeedDirectives(d)
    BY DEF Init
  <2>. QED
    BY <1>1, <2>1, StoreAssumption DEF SeedDirectives, SameUser
<1>2. ASSUME NEW c \in Confirmations, confirmations[c] # NoRow
      PROVE  \E d \in Directives :
                 /\ Executing(directives[d])
                 /\ confirmations[c] = [code |-> c, status |-> "pending",
                        version |-> 1, deleted |-> FALSE, directive |-> d]
  <2>1. confirmations[c] \in SeedConfirmations(c)
    BY DEF Init
  <2>. QED
    BY <1>2, <2>1 DEF SeedConfirmations
<1>3. OneReceipt
  BY DEF Init, OneReceipt
<1>4. \A w \in Workers : req[w].dir = NoRow
  BY DEF Init, Idle
<1>. QED
  BY <1>1, <1>2, <1>3, <1>4

LEMMA InitAgrees ==
    ASSUME Init
    PROVE  Agreed /\ ExecutionKept
<1>1. ASSUME NEW d \in Directives, directives[d] # NoRow
      PROVE  directives[d].status \in {"draft", "pending", "executing"}
  <2>1. PICK g \in Gates, status \in {"draft", "pending", "executing"},
             goal \in Goals, s \in Users \cup {NoUser}, a \in Users \cup {NoUser} :
            directives[d] = SeedDirective(d, g, status, goal, s, a)
    BY <1>1, SeededRows
  <2>2. directives[d].status = status
    BY <2>1 DEF SeedDirective
  <2>. QED
    BY <2>2
<1>2. ASSUME NEW d \in Directives, NEW c \in ReceiptsOf(d)
      PROVE  /\ confirmations[c].status = "pending"
             /\ directives[d] # NoRow /\ directives[d].status = "executing"
  <2>1. c \in Confirmations /\ confirmations[c] # NoRow /\ confirmations[c].directive = d
    BY <1>2 DEF ReceiptsOf
  <2>2. PICK x \in Directives :
            /\ Executing(directives[x])
            /\ confirmations[c] = [code |-> c, status |-> "pending",
                   version |-> 1, deleted |-> FALSE, directive |-> x]
    BY <2>1, SeededRows
  <2>3. confirmations[c].status = "pending" /\ x = d
    BY <2>1, <2>2
  <2>. QED
    BY <2>2, <2>3 DEF Executing, Live
<1>3. ReceiptAgreement
  BY <1>1, <1>2 DEF ReceiptAgreement
<1>4. ExecutionKept
  BY SeededRows DEF ExecutionKept
<1>. QED
  BY <1>3, <1>4, SeededRows DEF Agreed

\* A seeded register is one that Permit may start with.
LEMMA InitIsRegister ==
    ASSUME Init
    PROVE  P!Init
<1>1. TablesOK
  BY InitGood DEF CoreInv, TypeOK
<1>2. ASSUME NEW d \in Directives
      PROVE  PermitOf(directives[d]) \in P!OnRecord
  <2>1. CASE directives[d] = NoRow
    BY <2>1 DEF PermitOf, P!OnRecord
  <2>2. CASE directives[d] # NoRow
    <3>1. PICK g \in Gates, status \in {"draft", "pending", "executing"},
               goal \in Goals, s \in Users \cup {NoUser}, a \in Users \cup {NoUser} :
            /\ gates[g] # NoRow
            /\ directives[d] = SeedDirective(d, g, status, goal, s, a)
            /\ status = "draft" => s = NoUser /\ a = NoUser
            /\ status = "pending" => s # NoUser /\ a = NoUser
            /\ status = "executing" => NoUser \notin {s, a} /\ Fold[s] # Fold[a]
      BY <2>2, SeededRows
    <3>. DEFINE o == OrderOf(directives[d])
    <3>2. directives[d] \in DirectiveRow
      BY <1>1, <2>2 DEF TablesOK
    <3>3. o \in [gate : Gates, goal : Goals, facility : Facilities]
      BY <3>2 DEF DirectiveRow, OrderOf
    <3>4. /\ directives[d].status = status /\ directives[d].submittedBy = s
          /\ directives[d].approvedBy = a /\ directives[d].deleted = FALSE
      BY <3>1 DEF SeedDirective
    <3>. HIDE DEF o
    <3>5. PermitOf(directives[d]) = P!PermitRecord(status, o, s, a)
      BY <3>2, <3>4, PermitRecordOf DEF P!PermitRecord, o
    <3>6. CASE status = "draft"
      BY <3>1, <3>3, <3>5, <3>6 DEF P!OnRecord
    <3>7. CASE status = "pending"
      BY <3>1, <3>3, <3>5, <3>7 DEF P!OnRecord
    <3>8. CASE status = "executing"
      <4>1. <<s, a>> \in {x \in Users \X Users : Fold[x[1]] # Fold[x[2]]}
        BY <3>1, <3>8
      <4>2. PermitOf(directives[d]) = P!PermitRecord("executing", o, <<s, a>>[1], <<s, a>>[2])
        BY <3>5, <3>8
      <4>. QED
        BY <3>3, <4>1, <4>2 DEF P!OnRecord
    <3>. QED
      BY <3>6, <3>7, <3>8
  <2>. QED
    BY <2>1, <2>2
<1>3. permitRecords \in [Directives -> P!OnRecord]
  BY <1>2 DEF permitRecords
<1>4. ASSUME NEW c \in Confirmations, confirmations[c] # NoRow
      PROVE  \E d \in Directives :
                 /\ P!InStage(d, "executing") /\ d = confirmations[c].directive
                 /\ receiptRecords[c] = P!ReceiptRecord(d)
  <2>1. PICK d \in Directives :
            /\ Executing(directives[d])
            /\ confirmations[c] = [code |-> c, status |-> "pending",
                   version |-> 1, deleted |-> FALSE, directive |-> d]
    BY <1>4, SeededRows
  <2>2. /\ confirmations[c].status = "pending" /\ confirmations[c].directive = d
        /\ confirmations[c].deleted = FALSE
    BY <2>1
  <2>3. confirmations[c] \in ConfirmationRow /\ directives[d] \in DirectiveRow
    BY <1>1, <1>4, <2>1 DEF TablesOK, Executing, Live
  <2>4. receiptRecords[c] = P!ReceiptRecord(d)
    BY <1>1, <2>2, <2>3, Records, ReceiptRecordOf DEF P!ReceiptRecord
  <2>5. P!InStage(d, "executing")
    BY <1>1, <2>1, <2>3, Records, PermitRecordOf
       DEF P!InStage, P!Present, Executing, Live
  <2>. QED
    BY <2>2, <2>4, <2>5
<1>5. ASSUME NEW c \in Confirmations, confirmations[c] = NoRow
      PROVE  receiptRecords[c] = NoRow
  BY <1>1, <1>5, Records DEF ReceiptOf
<1>6. receiptRecords \in [Confirmations -> {NoRow} \cup {P!ReceiptRecord(p) :
                              p \in {x \in Directives : P!InStage(x, "executing")}}]
  BY <1>1, <1>4, <1>5 DEF receiptRecords
<1>7. ASSUME NEW b \in Confirmations, NEW c \in Confirmations, b # c,
             NoRow \notin {receiptRecords[b], receiptRecords[c]}
      PROVE  receiptRecords[b].permit # receiptRecords[c].permit
  <2>1. confirmations[b] # NoRow /\ confirmations[c] # NoRow
    BY <1>5, <1>7
  <2>2. /\ receiptRecords[b].permit = confirmations[b].directive
        /\ receiptRecords[c].permit = confirmations[c].directive
    <3>1. \A p : P!ReceiptRecord(p).permit = p
      BY DEF P!ReceiptRecord
    <3>. QED
      BY <1>4, <2>1, <3>1
  <2>. QED
    BY <1>7, <2>1, <2>2, SeededRows DEF OneReceipt
<1>. QED
  BY <1>3, <1>6, <1>7 DEF P!Init

\* Every step of Dispatch is a step of Permit or shows in no record, and the
\* receipts still agree with their directives.
LEMMA StepIsPermitStep ==
    ASSUME CoreInv, Agreed, ExecutionKept, [Next]_vars
    PROVE  [P!Next]_<<permitRecords, receiptRecords>> /\ Agreed'
<1>1. ASSUME UNCHANGED <<directives, confirmations>>
      PROVE  UNCHANGED <<permitRecords, receiptRecords>> /\ Agreed'
  BY <1>1 DEF permitRecords, receiptRecords, Agreed, OneReceipt, ReceiptAgreement,
              ReceiptsOf
<1>2. ASSUME NEW d \in Directives, P!PermitStep(d) PROVE P!Next
  BY <1>2 DEF P!Next
<1>3. ASSUME NEW c \in Confirmations, P!ReceiptStep(c) PROVE P!Next
  BY <1>3 DEF P!Next
<1>4. ASSUME NEW w \in Workers,
             UpdateDirective(w) \/ TransitionDirective(w) \/ DeleteDirective(w)
      PROVE  req[w].dir.code \in Directives
  BY <1>4 DEF CoreInv, TypeOK, UpdateDirective, TransitionDirective, DeleteDirective,
              At, Request, Held, DirHeld, DirectiveRow
<1>5. ASSUME NEW w \in Workers, SettleConfirmation(w) \/ CloseConfirmation(w)
                                \/ DeleteConfirmation(w)
      PROVE  req[w].conf.code \in Confirmations
  BY <1>5 DEF CoreInv, TypeOK, SettleConfirmation, CloseConfirmation,
              DeleteConfirmation, At, Request, Held, ConfHeld, ConfirmationRow
<1>6. ASSUME NEW w \in Workers, NEW d \in Directives, CreateDirective(w, d)
      PROVE  P!Next /\ Agreed'
  BY <1>2, <1>6, CreateIsDraft DEF P!PermitStep
<1>7. ASSUME NEW w \in Workers,
             UpdateDirective(w) \/ TransitionDirective(w) \/ DeleteDirective(w)
      PROVE  P!Next /\ Agreed'
  BY <1>2, <1>4, <1>7, UpdateIsRedraft, TransitionIsStep, DeleteIsRemoval
     DEF P!PermitStep
<1>8. ASSUME NEW w \in Workers, NEW c \in Confirmations, CreateConfirmation(w, c)
      PROVE  P!Next /\ Agreed'
  BY <1>3, <1>8, CreateIsReport
<1>9. ASSUME NEW w \in Workers, SettleConfirmation(w) \/ CloseConfirmation(w)
                                \/ DeleteConfirmation(w)
      PROVE  P!Next /\ Agreed'
  BY <1>3, <1>5, <1>9, SettleIsOutcome, CloseIsCancel, DeleteRemovesReceipt
     DEF P!ReceiptStep
<1>10. ASSUME NEW w \in Workers, DirectiveNext(w)
       PROVE  [P!Next]_<<permitRecords, receiptRecords>> /\ Agreed'
  BY <1>1, <1>6, <1>7, <1>10
     DEF DirectiveNext, tables, ReadGateToCreateDirective, ReadGateToUpdateDirective,
         ReadDirectiveToUpdate, ReadDirectiveToTransition, ReadDirectiveToDelete,
         ReadGateForDirective
<1>11. ASSUME NEW w \in Workers, ConfirmationNext(w)
       PROVE  [P!Next]_<<permitRecords, receiptRecords>> /\ Agreed'
  <2>1. CASE UpdateConfirmation(w)
    BY <2>1, UpdateIsSilent
  <2>. QED
    BY <1>1, <1>8, <1>9, <1>11, <2>1
       DEF ConfirmationNext, tables, ReadDirectiveToCreateConfirmation,
           CountConfirmations, ReadConfirmationToUpdate,
           ReadDirectiveToUpdateConfirmation, ReadConfirmationToTransition,
           ReadDirectiveForConfirmation, ReadGateForConfirmation,
           ReadConfirmationToDelete
<1>12. ASSUME NEW w \in Workers, ReservoirNext(w) \/ GateNext(w) \/ Fail(w)
       PROVE  UNCHANGED <<directives, confirmations>>
  BY <1>12
     DEF ReservoirNext, GateNext, Fail, tables, ReservoirFrame, GateFrame,
         CreateReservoir, ReadReservoirToUpdate, ReadReservoirToTransition,
         ReadReservoirToDelete, UpdateReservoir, TransitionReservoir, DeleteReservoir,
         ReadReservoirToCreateGate, CreateGate, ReadGateToUpdate, ReadGateToTransition,
         ReadGateToDelete, ReadReservoirToUpdateGate, UpdateGate, TransitionGate,
         DeleteGate
<1>13. CASE UNCHANGED vars
  BY <1>1, <1>13 DEF vars
<1>14. ASSUME Next
       PROVE  [P!Next]_<<permitRecords, receiptRecords>> /\ Agreed'
  <2>1. PICK w \in Workers : \/ ReservoirNext(w) \/ GateNext(w) \/ DirectiveNext(w)
                             \/ ConfirmationNext(w) \/ Fail(w)
    BY <1>14 DEF Next
  <2>. QED
    BY <1>1, <1>10, <1>11, <1>12, <2>1
<1>. QED
  BY <1>13, <1>14, <1>1

\* While no client guesses a version, ReceiptInv holds for ever.
LEMMA ReceiptInvariance ==
    ASSUME Lead = 0
    PROVE  Spec => []ReceiptInv
<1>1. Init => ReceiptInv
  BY InitGood, InitAgrees DEF ReceiptInv, Agreed
<1>2. ReceiptInv /\ [Next]_vars => ReceiptInv'
  BY NextCarries, ExecutionStays, StepIsPermitStep DEF ReceiptInv, Agreed
<1>. QED
  BY <1>1, <1>2, PTL DEF Spec

\* README 44 and 48 for every number of requests, receipts and directives: a
\* directive is completed exactly when its receipt is confirmed, a failed
\* receipt's directive is aborted, and a waiting receipt's directive was at
\* least started, removed rows included.
THEOREM ReceiptsAgree ==
    ASSUME Lead = 0
    PROVE  Spec => []ReceiptAgreement
<1>1. ReceiptInv => ReceiptAgreement
  BY DEF ReceiptInv
<1>. QED
  BY <1>1, ReceiptInvariance, PTL

\* The services implement Permit: what a handler decided on copies it read one
\* after the other is, at its commit, a step the permit could take at once.
THEOREM Refinement ==
    ASSUME Lead = 0
    PROVE  Spec => ImplementsPermit
<1>1. Init => P!Init
  BY InitIsRegister
<1>2. ReceiptInv /\ [Next]_vars => [P!Next]_<<permitRecords, receiptRecords>>
  BY StepIsPermitStep DEF ReceiptInv, Agreed
<1>. QED
  BY <1>1, <1>2, ReceiptInvariance, PTL DEF Spec, ImplementsPermit, P!Spec

================================================================================
