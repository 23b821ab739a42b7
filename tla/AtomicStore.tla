----------------------------- MODULE AtomicStore -----------------------------
(***************************************************************************)
(* What the services rely on: a change of several rows, its audit entries  *)
(* and its approval row are there all at once or not at all.               *)
(***************************************************************************)
EXTENDS Naturals

CONSTANTS Records,   \* rows of the tables
          Units      \* the sets of rows that one transition changes together

VARIABLES rows,       \* record -> its version, and whether it is soft-deleted
          entries,    \* record -> the audit entries about it
          approvals   \* record -> the approval rows about it

Init == /\ rows = [x \in Records |-> [version |-> 1, deleted |-> FALSE]]
        /\ entries = [x \in Records |-> 0]
        /\ approvals = [x \in Records |-> 0]

Rewritten(S) == [x \in Records |-> IF x \in S THEN [rows[x] EXCEPT !.version = @ + 1]
                                              ELSE rows[x]]
Counted(count, S) == [x \in Records |-> IF x \in S THEN count[x] + 1 ELSE count[x]]

\* Live rows, each with one more version and one more entry.
Change(S, signed) ==
    /\ \A x \in S : ~rows[x].deleted
    /\ rows' = Rewritten(S)
    /\ entries' = Counted(entries, S)
    /\ approvals' = Counted(approvals, signed)

Remove(x) ==
    /\ ~rows[x].deleted
    /\ rows' = [rows EXCEPT ![x].deleted = TRUE]
    /\ entries' = Counted(entries, {x})
    /\ UNCHANGED approvals

Next == \/ \E S \in Units, signed \in BOOLEAN :
               Change(S, IF signed THEN S ELSE {})
        \/ \E x \in Records : Remove(x)

Spec == Init /\ [][Next]_<<rows, entries, approvals>>
=============================================================================
