---------------------------- MODULE DispatchPermit ----------------------------
(***************************************************************************)
(* Dispatch keeps the promise of Permit: a row without its version and the *)
(* requests in flight is a record of the permit.                           *)
(***************************************************************************)
EXTENDS DispatchInvariant

OrderOf(row) == [gate |-> row.gate, goal |-> row.goal, facility |-> row.facility]

PermitOf(row) ==
    IF row = NoRow THEN NoRow
    ELSE [stage |-> row.status, order |-> OrderOf(row),
          submitter |-> row.submittedBy, approver |-> row.approvedBy,
          removed |-> row.deleted]

ReceiptOf(row) ==
    IF row = NoRow THEN NoRow
    ELSE [result |-> row.status, permit |-> row.directive, removed |-> row.deleted]

permitRecords == [d \in Directives |-> PermitOf(directives[d])]
receiptRecords == [c \in Confirmations |-> ReceiptOf(confirmations[c])]

\* NoRow is no record either.
ASSUME RecordAssumption ==
    /\ NoRow \notin [stage : DirectiveState,
                     order : [gate : Gates, goal : Goals, facility : Facilities],
                     submitter : Users \cup {NoUser},
                     approver : Users \cup {NoUser}, removed : BOOLEAN]
    /\ NoRow \notin [result : ConfirmationState, permit : Directives,
                     removed : BOOLEAN]

P == INSTANCE Permit WITH
         Permits <- Directives, Receipts <- Confirmations,
         Orders <- [gate : Gates, goal : Goals, facility : Facilities],
         Person <- Fold, Nobody <- NoUser, Nothing <- NoRow,
         permit <- permitRecords, receipt <- receiptRecords

\* README 44, 45, 48: seen from outside, each commit of any service is one step
\* of a permit or of its receipt, decided on what is true at that moment, though
\* the handler decided on copies it read earlier.
ImplementsPermit == P!Spec
=============================================================================
