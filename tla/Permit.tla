-------------------------------- MODULE Permit --------------------------------
(***************************************************************************)
(* What the dispatch system promises of a permit and of its receipt, with  *)
(* no requests, no copies and no versions: every step looks at the permit  *)
(* as it is and changes it at once.  A removed record takes no more steps. *)
(***************************************************************************)
CONSTANTS Permits, Receipts,
          Orders,          \* what a permit asks for: gate, position, facility
          Users, Person,   \* accounts, and the person a name stands for
          Nobody, Nothing

VARIABLES permit,    \* permit -> its record, Nothing before it is drafted
          receipt    \* receipt -> its record, Nothing before it is reported

PermitRecord(stage, order, submitter, approver) ==
    [stage |-> stage, order |-> order, submitter |-> submitter,
     approver |-> approver, removed |-> FALSE]

ReceiptRecord(p) == [result |-> "pending", permit |-> p, removed |-> FALSE]

Present(record) == record # Nothing /\ ~record.removed
InStage(p, stage) == Present(permit[p]) /\ permit[p].stage = stage

OnRecord ==
    {Nothing}
    \cup {PermitRecord("draft", o, Nobody, Nobody) : o \in Orders}
    \cup {PermitRecord("pending", o, u, Nobody) : o \in Orders, u \in Users}
    \cup {PermitRecord("executing", o, s[1], s[2]) : o \in Orders,
          s \in {x \in Users \X Users : Person[x[1]] # Person[x[2]]}}

\* A register may start with permits on record, each signed as it has to be,
\* and with receipts that wait for permits in execution, one for each.
Init ==
    /\ permit \in [Permits -> OnRecord]
    /\ receipt \in [Receipts -> {Nothing} \cup {ReceiptRecord(p) :
                                    p \in {x \in Permits : InStage(x, "executing")}}]
    /\ \A r, s \in Receipts :
           r # s /\ Nothing \notin {receipt[r], receipt[s]}
               => receipt[r].permit # receipt[s].permit

-----------------------------------------------------------------------------

Moved(p, stage) == permit' = [permit EXCEPT ![p].stage = stage]

Draft(p) ==
    /\ permit[p] = Nothing
    /\ \E o \in Orders :
           permit' = [permit EXCEPT ![p] = PermitRecord("draft", o, Nobody, Nobody)]
    /\ UNCHANGED receipt

\* The order is changed in a draft, and nowhere else.
Redraft(p) ==
    /\ InStage(p, "draft")
    /\ \E o \in Orders : permit' = [permit EXCEPT ![p].order = o]
    /\ UNCHANGED receipt

Submit(p) ==
    /\ InStage(p, "draft")
    /\ \E u \in Users : permit' = [permit EXCEPT ![p].stage = "pending",
                                                 ![p].submitter = u]
    /\ UNCHANGED receipt

\* By another person than the one who submitted it.
Approve(p) ==
    /\ InStage(p, "pending")
    /\ \E u \in Users :
           /\ Person[u] # Person[permit[p].submitter]
           /\ permit' = [permit EXCEPT ![p].stage = "approved", ![p].approver = u]
    /\ UNCHANGED receipt

Execute(p) == InStage(p, "approved") /\ Moved(p, "executing") /\ UNCHANGED receipt

Abort(p) == /\ \E stage \in {"pending", "approved", "executing"} : InStage(p, stage)
            /\ Moved(p, "aborted")
            /\ UNCHANGED receipt

\* One receipt for each permit.  The report of an execution that has just been
\* aborted is still taken, to wait for ever.
Report(r, p) ==
    /\ receipt[r] = Nothing
    /\ permit[p] # Nothing /\ permit[p].stage \in {"executing", "aborted"}
    /\ \A s \in Receipts : receipt[s] # Nothing => receipt[s].permit # p
    /\ receipt' = [receipt EXCEPT ![r] = ReceiptRecord(p)]
    /\ UNCHANGED permit

\* The receipt decides its permit: both end, in one step.
Outcome(r, result, stage) ==
    /\ Present(receipt[r]) /\ receipt[r].result = "pending"
    /\ InStage(receipt[r].permit, "executing")
    /\ receipt' = [receipt EXCEPT ![r].result = result]
    /\ Moved(receipt[r].permit, stage)

Confirm(r) == Outcome(r, "confirmed", "completed")
Reject(r)  == Outcome(r, "failed", "aborted")

Cancel(r) ==
    /\ Present(receipt[r]) /\ receipt[r].result = "failed"
    /\ receipt' = [receipt EXCEPT ![r].result = "cancelled"]
    /\ UNCHANGED permit

RemovePermit(p) ==
    /\ Present(permit[p])
    /\ permit' = [permit EXCEPT ![p].removed = TRUE]
    /\ UNCHANGED receipt

RemoveReceipt(r) ==
    /\ Present(receipt[r])
    /\ receipt' = [receipt EXCEPT ![r].removed = TRUE]
    /\ UNCHANGED permit

PermitStep(p) ==
    \/ Draft(p)   \/ Redraft(p) \/ Submit(p)       \/ Approve(p)
    \/ Execute(p) \/ Abort(p)   \/ RemovePermit(p)

ReceiptStep(r) ==
    \/ \E p \in Permits : Report(r, p)
    \/ Confirm(r) \/ Reject(r) \/ Cancel(r) \/ RemoveReceipt(r)

Next == \/ \E p \in Permits : PermitStep(p)
        \/ \E r \in Receipts : ReceiptStep(r)

Spec == Init /\ [][Next]_<<permit, receipt>>
=============================================================================
