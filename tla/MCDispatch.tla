------------------------------ MODULE MCDispatch ------------------------------
(* Small instances of Dispatch for TLC. *)
EXTENDS DispatchPermit, TLC

CONSTANTS g1, d1, d2, r1, c1, c2, f1, f2, w1, w2, alice, bob, BOB

\* bob and BOB are two accounts whose names differ in letter case only.
MCFold == [u \in Users |-> IF u = BOB THEN bob ELSE u]

OneAdmin == {[user |-> alice, role |-> "admin"]}
OperatorAndReviewer == {[user |-> alice, role |-> "operator"],
                        [user |-> bob, role |-> "reviewer"]}
\* bob also as an operator, before his promotion, and a namesake of his.
FourHands == OperatorAndReviewer \cup {[user |-> bob, role |-> "operator"],
                                       [user |-> BOB, role |-> "admin"]}

WorkerSymmetry == Permutations(Workers)

\* Receipts too: the initial states and the properties of a run treat them alike,
\* and none of the properties is about liveness.
ReceiptSymmetry == {w @@ c : w \in WorkerSymmetry, c \in Permutations(Confirmations)}

\* One normal reservoir with all its gates in the status given.
Register(status) ==
    /\ \A r \in Reservoirs : reservoirs[r] # NoRow /\ reservoirs[r].status = "normal"
    /\ \A g \in Gates : gates[g] # NoRow /\ gates[g].status = status

\* A directive's whole life: from no directive at all, or a seeded draft.
PermitInit == Init /\ Register("open")
PermitSpec == PermitInit /\ [][Next]_vars

\* From a seeded execution, its receipt not yet written or waiting.
ExecutionInit ==
    /\ Init /\ Register("moving")
    /\ \A d \in Directives : directives[d] # NoRow
ExecutionSpec == ExecutionInit /\ [][Next]_vars
=============================================================================
