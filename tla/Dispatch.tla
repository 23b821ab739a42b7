------------------------------- MODULE Dispatch -------------------------------
(***************************************************************************)
(* The four services over one database: reservoirs, gates, directives and  *)
(* execution confirmations, with any number of requests interleaved.       *)
(***************************************************************************)
EXTENDS ReservoirService, GateUnitService, OperationDirectiveService,
        ExecutionConfirmationService

ASSUME ServicesAssumption ==
    Services \subseteq {"reservoirs", "gates", "directives", "confirmations"}

-----------------------------------------------------------------------------
(* Initial state: the rows database.Seed inserts, or none of them yet.     *)

SeedReservoirs(r) ==
    {NoRow} \cup {[code |-> r, status |-> s, version |-> 1, deleted |-> FALSE,
                   facility |-> f] :
                  s \in {"normal", "warning", "critical"}, f \in Facilities}

SeedGates(g) ==
    {NoRow} \cup {[code |-> g, status |-> s, version |-> 1, deleted |-> FALSE,
                   reservoir |-> r, facility |-> reservoirs[r].facility] :
                  s \in {"open", "closed", "moving"},
                  r \in {x \in Reservoirs : reservoirs[x] # NoRow}}

SeedDirective(d, g, status, goal, submitter, approver) ==
    [code |-> d, status |-> status, version |-> 1, deleted |-> FALSE,
     gate |-> g, goal |-> goal, facility |-> gates[g].facility,
     submittedBy |-> submitter, approvedBy |-> approver]

\* OD-001 a draft, OD-002 submitted, OD-003 in execution on a moving gate.
SeedDirectives(d) ==
    LET On(status) == {g \in Gates : gates[g] # NoRow /\ gates[g].status = status}
        Operators  == {p.user : p \in {q \in Principals : q.role = "operator"}}
        Reviewers  == {p.user : p \in {q \in Principals : q.role = "reviewer"}}
        Pairs == {p \in Operators \X Reviewers : ~SameUser(p[1], p[2])}
    IN  {NoRow}
        \cup {SeedDirective(d, g, "draft", goal, NoUser, NoUser) :
              g \in On("open"), goal \in Goals \cap {"open"}}
        \cup {SeedDirective(d, g, "pending", goal, s, NoUser) :
              g \in On("closed"), goal \in Goals \cap {"closed"}, s \in Operators}
        \cup {SeedDirective(d, g, "executing", goal, p[1], p[2]) :
              g \in On("moving"), goal \in Goals \cap {"open"}, p \in Pairs}

SeedConfirmations(c) ==
    {NoRow} \cup {[code |-> c, status |-> "pending", version |-> 1,
                   deleted |-> FALSE, directive |-> d] :
                  d \in {x \in Directives : Executing(directives[x])}}

Init ==
    /\ reservoirs \in [Reservoirs -> UNION {SeedReservoirs(x) : x \in Reservoirs}]
    /\ \A r \in Reservoirs : reservoirs[r] \in SeedReservoirs(r)
    /\ gates \in [Gates -> UNION {SeedGates(x) : x \in Gates}]
    /\ \A g \in Gates : gates[g] \in SeedGates(g)
    /\ directives \in [Directives -> UNION {SeedDirectives(x) : x \in Directives}]
    /\ \A d \in Directives : directives[d] \in SeedDirectives(d)
    /\ confirmations \in [Confirmations -> UNION {SeedConfirmations(x) : x \in Confirmations}]
    /\ \A c \in Confirmations : confirmations[c] \in SeedConfirmations(c)
    /\ \A b, c \in Confirmations :
           b # c /\ NoRow \notin {confirmations[b], confirmations[c]}
               => confirmations[b].directive # confirmations[c].directive
    /\ approvals = [d \in Directives |->
           IF directives[d] = NoRow THEN NoApproval
           ELSE [submitted |-> directives[d].submittedBy,
                 approved |-> directives[d].approvedBy]]
    /\ audit = [entity \in Entities |-> [before |-> "", after |-> ""]]
    /\ req = [w \in Workers |-> Idle]

Next ==
    \E w \in Workers :
        \/ "reservoirs" \in Services /\ ReservoirNext(w)
        \/ "gates" \in Services /\ GateNext(w)
        \/ "directives" \in Services /\ DirectiveNext(w)
        \/ "confirmations" \in Services /\ ConfirmationNext(w)
        \/ Fail(w)

Spec == Init /\ [][Next]_vars
-----------------------------------------------------------------------------
PC == {"idle", "res_update", "res_transition", "res_delete",
       "gate_create", "gate_update", "gate_update_commit", "gate_transition",
       "gate_delete", "dir_create", "dir_update", "dir_update_commit",
       "dir_gate", "dir_transition", "dir_delete", "conf_count", "conf_create",
       "conf_update", "conf_update_commit", "conf_dir", "conf_gate",
       "conf_settle", "conf_close", "conf_delete"}

Request ==
    [pc : PC, actor : Users \cup {NoUser}, expected : Nat, target : AnyStatus,
     res : ReservoirRow \cup {NoRow}, gate : GateRow \cup {NoRow},
     dir : DirectiveRow \cup {NoRow}, conf : ConfirmationRow \cup {NoRow}]

TablesOK ==
    /\ reservoirs \in [Reservoirs -> ReservoirRow \cup {NoRow}]
    /\ gates \in [Gates -> GateRow \cup {NoRow}]
    /\ directives \in [Directives -> DirectiveRow \cup {NoRow}]
    /\ confirmations \in [Confirmations -> ConfirmationRow \cup {NoRow}]
    /\ \A r \in Reservoirs : reservoirs[r] # NoRow => reservoirs[r].code = r
    /\ \A g \in Gates : gates[g] # NoRow => gates[g].code = g
    /\ \A d \in Directives : directives[d] # NoRow => directives[d].code = d
    /\ \A c \in Confirmations :
           confirmations[c] # NoRow => confirmations[c].code = c
    /\ approvals \in [Directives -> [submitted : Users \cup {NoUser},
                                     approved : Users \cup {NoUser}]]
    /\ audit \in [Entities -> [before : AnyStatus, after : AnyStatus]]

\* Every row has the columns of its table and sits under its own code; every
\* request carries copies of rows of the tables its handler reads.
TypeOK == TablesOK /\ req \in [Workers -> Request]

\* Optimistic locking (repository/base.go 22-23): when the version test of a
\* pending UPDATE would pass, the copy the handler is about to write back over
\* the row is the row: no change made in between is overwritten.  The handlers
\* never compare the copy's version with the client's expectedVersion, so this
\* relates three versions: the row's, the copy's and the client's.
NoLostUpdate ==
    \A w \in Workers : LET r == req[w] IN
        /\ r.pc \in {"res_update", "res_transition"}
           /\ Matches(reservoirs[r.res.code], r.expected)
               => reservoirs[r.res.code] = r.res
        /\ r.pc \in {"gate_update", "gate_update_commit", "gate_transition"}
           /\ Matches(gates[r.gate.code], r.expected)
               => gates[r.gate.code] = r.gate
        /\ r.pc \in {"dir_update", "dir_update_commit", "dir_gate", "dir_transition"}
           /\ Matches(directives[r.dir.code], r.expected)
               => directives[r.dir.code] = r.dir
        /\ r.pc \in {"conf_update", "conf_update_commit", "conf_dir",
                     "conf_gate", "conf_settle", "conf_close"}
           /\ Matches(confirmations[r.conf.code], r.expected)
               => confirmations[r.conf.code] = r.conf
        /\ r.pc \in {"conf_gate", "conf_settle"}
           /\ Matches(directives[r.dir.code], r.dir.version)
               => directives[r.dir.code] = r.dir
        /\ r.pc \in {"dir_transition", "conf_settle"} /\ r.gate # NoRow
           /\ Matches(gates[r.gate.code], r.gate.version)
               => gates[r.gate.code] = r.gate

\* The status of a row that exists before and after a step moves along its
\* graph or stays.
Follows(old, new, graph) ==
    old # NoRow /\ new # NoRow /\ old.status # new.status
        => CanTransition(graph, old.status, new.status)

\* README 44: whatever the interleaving of submit, approve, execute, abort,
\* edit and receipt, a directive only moves along its graph: approval is never
\* skipped, a finished directive never comes back, a signed one is no draft.
DirectiveFollowsGraph ==
    [][\A d \in Directives :
           Follows(directives[d], directives'[d], OperationDirectiveTransitions)]_vars

\* A reservoir edited and moved at the same time keeps to its graph: it does
\* not become restricted, nor normal, but through the states in between.
ReservoirFollowsGraph ==
    [][\A r \in Reservoirs :
           Follows(reservoirs[r], reservoirs'[r], ReservoirTransitions)]_vars

\* A gate moved by an operator, by a directive and by a receipt at the same
\* time still only moves along GateUnitTransitions: never from open to closed
\* without moving, and out of locked only to closed.
GateFollowsGraph ==
    [][\A g \in Gates :
           Follows(gates[g], gates'[g], GateUnitTransitions)]_vars

\* Where the gate belongs when a directive enters execution or leaves it.
Positions(old, new) ==
    CASE new.status = "executing" -> {"moving", old.goal}
      [] new.status = "completed" -> {old.goal}
      [] OTHER -> {"locked"}

\* Request w commits a move of the directive it read, and leaves the gate it
\* read in one of the positions P, though others have written the gate since.
LeavesGateMovedSince(w, directive, P) ==
    LET r == req[w]  g == directive.gate IN
    /\ r.pc \in {"dir_transition", "conf_settle"} /\ req'[w].pc = "idle"
    /\ r.dir = directive /\ r.gate.code = g
    /\ r.gate.status \in P
    /\ r.gate.version < gates[g].version /\ gates'[g] = gates[g]

\* README 48: a gate moves with its directive in one step, to the goal when a
\* receipt confirms and to the lock when the execution fails or is broken off,
\* also when an operator moves the gate meanwhile.  The one exception is a gate
\* that stood where it belonged when it was read and was moved away since.
GateFollowsDirective ==
    [][\A d \in Directives :
           LET old == directives[d]  new == directives'[d] IN
           old # NoRow /\ old.status # new.status
           /\ "executing" \in {old.status, new.status}
               => \/ gates'[old.gate].status \in Positions(old, new)
                  \/ \E w \in Workers :
                         LeavesGateMovedSince(w, old, Positions(old, new))]_vars

\* README 45: a directive that got past the approval carries two signatures of
\* different accounts (letter case aside), and the approval rows say the same
\* as the directive, in every state and for every directive.
TwoPersonApproval ==
    \A d \in Directives : directives[d] # NoRow =>
        /\ approvals[d].submitted = directives[d].submittedBy
        /\ approvals[d].approved = directives[d].approvedBy
        /\ directives[d].status # "draft" => directives[d].submittedBy # NoUser
        /\ directives[d].status \in {"approved", "executing", "completed"} =>
               /\ directives[d].approvedBy # NoUser
               /\ ~SameUser(directives[d].submittedBy, directives[d].approvedBy)

ReceiptsOf(d) == {c \in Confirmations :
                      confirmations[c] # NoRow /\ confirmations[c].directive = d}

\* README 44 and 48: a directive is completed exactly when its receipt is
\* confirmed, a failed receipt's directive is aborted, and a receipt that waits
\* belongs to a directive that was at least started; deleted rows included.
ReceiptAgreement ==
    \A d \in Directives :
        /\ directives[d] = NoRow => ReceiptsOf(d) = {}
        /\ directives[d] # NoRow =>
               /\ directives[d].status = "completed"
                      <=> \E c \in ReceiptsOf(d) : confirmations[c].status = "confirmed"
               /\ \A c \in ReceiptsOf(d) :
                      /\ confirmations[c].status \in {"failed", "cancelled"}
                             => directives[d].status = "aborted"
                      /\ confirmations[c].status = "pending"
                             => directives[d].status \in {"executing", "aborted"}

\* What a step keeps of a directive that is no draft.
SignedKept(old, new) ==
    old # NoRow /\ old.status # "draft" =>
        /\ new # NoRow
        /\ new.gate = old.gate /\ new.goal = old.goal
        /\ new.facility = old.facility /\ new.submittedBy = old.submittedBy
        /\ old.status # "pending" => new.approvedBy = old.approvedBy

\* What was signed stays what it was: once a directive is no draft its gate,
\* goal, facility and submitter do not change, nor its approver once approved.
ApprovedContentFrozen ==
    [][\A d \in Directives : SignedKept(directives[d], directives'[d])]_vars

\* The entry a step leaves for a row whose status it changes tells the truth.
Evidenced(old, new, entry) ==
    /\ old = NoRow /\ new # NoRow => entry.before = "" /\ entry.after = new.status
    /\ old # NoRow /\ new # NoRow /\ old.status # new.status
           => entry.before = old.status /\ entry.after = new.status

\* base.go 101-102: a dispatch state never advances without evidence.  Each
\* step that changes a status, in whichever table and by whichever service,
\* commits an audit entry with the status the row really had and the new one.
EvidenceMatchesStep ==
    [][/\ \A r \in Reservoirs : Evidenced(reservoirs[r], reservoirs'[r],
                                          audit'[<<"Reservoir", r>>])
       /\ \A g \in Gates : Evidenced(gates[g], gates'[g], audit'[<<"GateUnit", g>>])
       /\ \A d \in Directives : Evidenced(directives[d], directives'[d],
                                          audit'[<<"OperationDirective", d>>])
       /\ \A c \in Confirmations : Evidenced(confirmations[c], confirmations'[c],
                                             audit'[<<"ExecutionConfirmation", c>>])]_vars
-----------------------------------------------------------------------------
(* What the documentation says and the code does not keep.                 *)

Turns(d, from, to) == /\ Live(directives[d])
                      /\ directives[d].status = from
                      /\ directives'[d].status = to

\* README 24: the administrator deletes drafts.
DeleteOnlyDrafts ==
    [][\A d \in Directives :
           Live(directives[d]) /\ ~Live(directives'[d])
               => directives[d].status = "draft"]_vars

\* README 48: when a receipt completes a directive, the gate settles in the
\* position the directive asked for, in the same step.
SettlesAtGoal ==
    [][\A d \in Directives :
           Turns(d, "executing", "completed")
               => gates'[directives[d].gate].status = directives[d].goal]_vars
=============================================================================
