----------------------------- MODULE Transaction -----------------------------
(***************************************************************************)
(* The commits of the services taken apart: the statements that one        *)
(* transaction sends to the database, between which other transactions     *)
(* run, a statement fails, or the process is killed.                       *)
(*                                                                         *)
(* The database is external: a statement that writes a row waits for the   *)
(* transaction that wrote it last, then finds its row or does not; nothing *)
(* is seen of a transaction before its commit; a transaction that is open  *)
(* when the process dies is rolled back.                                   *)
(***************************************************************************)
EXTENDS Naturals, Sequences

CONSTANTS Confirmations, Directives, Gates,
          DirectiveOf,  \* receipt -> its directive
          GateOf,       \* directive -> its gate
          Workers, Nobody,
          MaxVersion    \* bound: no row is written beyond this version

Records == Confirmations \cup Directives \cup Gates

ASSUME TransactionAssumption ==
    /\ DirectiveOf \in [Confirmations -> Directives]
    /\ GateOf \in [Directives -> Gates]
    /\ Confirmations \cap Directives = {}
    /\ Gates \cap (Confirmations \cup Directives) = {}
    /\ Nobody \notin Workers

VARIABLES rows,       \* record -> its committed version, and its soft deletion
          entries,    \* record -> its committed audit entries
          approvals,  \* record -> its committed approval rows
          holder,     \* record -> the transaction that wrote it, or Nobody
          tx          \* worker -> its transaction

vars == <<rows, entries, approvals, holder, tx>>
committed == <<rows, entries, approvals>>

\* A transaction writes the rows of `todo' in order, each followed by its
\* entry; `next' is the statement it sends now.  `wrote' and `logged' are its
\* rows and entries, `signed' the records of its approval rows.
NoTransaction == [kind |-> "none", todo |-> <<>>, next |-> "begin",
                  copy |-> [x \in Records |-> 0],
                  wrote |-> {}, logged |-> {}, signed |-> {}]

Running(w) == tx[w] # NoTransaction
Sends(w, statement) == tx[w].next = statement

Init ==
    /\ rows = [x \in Records |-> [version |-> 1, deleted |-> FALSE]]
    /\ entries = [x \in Records |-> 0]
    /\ approvals = [x \in Records |-> 0]
    /\ holder = [x \in Records |-> Nobody]
    /\ tx = [w \in Workers |-> NoTransaction]

-----------------------------------------------------------------------------
(* What the services put into one transaction.                             *)

\* The receipt, its directive and, unless it is in place, the directive's gate.
SettlementBackwards(c) ==
    {<<c, GateOf[DirectiveOf[c]], DirectiveOf[c]>>, <<c, DirectiveOf[c]>>}
Settlement(c) ==
    {<<c, DirectiveOf[c]>>, <<c, DirectiveOf[c], GateOf[DirectiveOf[c]]>>}

\* A directive alone, or with its gate.
DirectiveMove(d) == {<<d>>, <<d, GateOf[d]>>}

Plans ==
    {[kind |-> "update", todo |-> <<x>>] : x \in Records}
    \cup {[kind |-> "delete", todo |-> <<x>>] : x \in Records}
    \cup {[kind |-> "update", todo |-> s] : s \in UNION {Settlement(c) : c \in Confirmations}}
    \cup {[kind |-> "move", todo |-> s] : s \in UNION {DirectiveMove(d) : d \in Directives}}
    \cup {[kind |-> "sign", todo |-> <<d>>] : d \in Directives}

Listed(s) == {s[i] : i \in DOMAIN s}

\* The handler has read live rows, and opens the transaction.
Begin(w, plan) ==
    /\ ~Running(w)
    /\ \A x \in Listed(plan.todo) : ~rows[x].deleted /\ rows[x].version < MaxVersion
    /\ tx' = [tx EXCEPT ![w] =
           [kind |-> plan.kind, todo |-> plan.todo, next |-> "write",
            copy |-> [x \in Records |-> IF x \in Listed(plan.todo) THEN rows[x].version ELSE 0],
            wrote |-> {}, logged |-> {}, signed |-> {}]]
    /\ UNCHANGED <<committed, holder>>

-----------------------------------------------------------------------------
(* Statements.                                                             *)

Target(w) == Head(tx[w].todo)

Granted(w) == holder[Target(w)] \in {Nobody, w}

\* The WHERE clause of the statement, on the row as it is once it is granted:
\* a deletion has no condition on the version.
Found(w) ==
    /\ ~rows[Target(w)].deleted
    /\ tx[w].kind # "delete" => rows[Target(w)].version = tx[w].copy[Target(w)]

\* Store.update, Store.Delete: the row is ours until the transaction ends.
Write(w) ==
    /\ Running(w) /\ Sends(w, "write") /\ tx[w].todo # <<>>
    /\ Granted(w) /\ Found(w)
    /\ holder' = [holder EXCEPT ![Target(w)] = w]
    /\ tx' = [tx EXCEPT ![w].wrote = @ \cup {Target(w)},
                        ![w].next = IF tx[w].kind = "sign" THEN "approve" ELSE "entry"]
    /\ UNCHANGED committed

\* The first record of TransitionWithApproval is in a transaction of its own
\* inside the one of the service: a savepoint.
Nested(w) == tx[w].kind \in {"move", "sign"} /\ tx[w].logged = {}

Undo(w) == tx' = [tx EXCEPT ![w].next = IF Nested(w) THEN "rollback_to" ELSE "rollback"]

\* RowsAffected = 0.
Miss(w) ==
    /\ Running(w) /\ Sends(w, "write") /\ tx[w].todo # <<>>
    /\ Granted(w) /\ ~Found(w)
    /\ Undo(w)
    /\ UNCHANGED <<committed, holder>>

Approve(w) ==
    /\ Running(w) /\ Sends(w, "approve")
    /\ tx' = [tx EXCEPT ![w].signed = @ \cup {Target(w)}, ![w].next = "entry"]
    /\ UNCHANGED <<committed, holder>>

\* Faulty variant: the error of the audit statement is dropped.
EntryUnchecked(w) ==
    /\ Running(w) /\ Sends(w, "entry")
    /\ \E log \in {{}, {Target(w)}} :
           tx' = [tx EXCEPT ![w].logged = @ \cup log,
                            ![w].todo = Tail(@), ![w].next = "write"]
    /\ UNCHANGED <<committed, holder>>

Entry(w) ==
    /\ Running(w) /\ Sends(w, "entry")
    /\ tx' = [tx EXCEPT ![w].logged = @ \cup {Target(w)},
                        ![w].todo = Tail(@), ![w].next = "write"]
    /\ UNCHANGED <<committed, holder>>

\* The database answers with an error, or the caller has gone away.
StatementFails(w) ==
    /\ Running(w) /\ tx[w].next \in {"write", "approve", "entry"}
    /\ Undo(w)
    /\ UNCHANGED <<committed, holder>>

-----------------------------------------------------------------------------
(* The end of a transaction.                                               *)

Released(w) == [x \in Records |-> IF holder[x] = w THEN Nobody ELSE holder[x]]

RowAfter(w, x) ==
    IF x \notin tx[w].wrote THEN rows[x]
    ELSE IF tx[w].kind = "delete" THEN [rows[x] EXCEPT !.deleted = TRUE]
    ELSE [rows[x] EXCEPT !.version = tx[w].copy[x] + 1]

Plus(count, S) == [x \in Records |-> IF x \in S THEN count[x] + 1 ELSE count[x]]

Commit(w) ==
    /\ Running(w) /\ Sends(w, "write") /\ tx[w].todo = <<>>
    /\ rows' = [x \in Records |-> RowAfter(w, x)]
    /\ entries' = Plus(entries, tx[w].logged)
    /\ approvals' = Plus(approvals, tx[w].signed)
    /\ holder' = Released(w)
    /\ tx' = [tx EXCEPT ![w] = NoTransaction]

\* ROLLBACK TO: what the savepoint covered is undone, the transaction is open,
\* and the error goes to the caller, which rolls back everything.
RollbackTo(w) ==
    /\ Running(w) /\ Sends(w, "rollback_to")
    /\ tx' = [tx EXCEPT ![w].wrote = {}, ![w].signed = {}, ![w].next = "rollback"]
    /\ UNCHANGED <<committed, holder>>

\* Faulty variant: the transaction is given up without a rollback.
RollbackForgotten(w) ==
    /\ Running(w) /\ Sends(w, "rollback")
    /\ tx' = [tx EXCEPT ![w] = NoTransaction]
    /\ UNCHANGED <<committed, holder>>

Rollback(w) ==
    /\ Running(w) /\ Sends(w, "rollback")
    /\ holder' = Released(w)
    /\ tx' = [tx EXCEPT ![w] = NoTransaction]
    /\ UNCHANGED committed

\* The process is killed between any two statements, and starts again.
Crash ==
    /\ \E w \in Workers : Running(w)
    /\ tx' = [w \in Workers |-> NoTransaction]
    /\ holder' = [x \in Records |-> Nobody]
    /\ UNCHANGED committed

Proceed(w) == \/ Write(w)  \/ Miss(w)       \/ Approve(w) \/ Entry(w)
              \/ Commit(w) \/ RollbackTo(w) \/ Rollback(w)

Next == \/ \E w \in Workers : \/ \E plan \in Plans : Begin(w, plan)
                              \/ Proceed(w)
                              \/ StatementFails(w)
        \/ Crash

Spec == Init /\ [][Next]_vars

\* The database does not pass over a waiting statement for ever.
FairSpec == Spec /\ \A w \in Workers : SF_vars(Proceed(w))
-----------------------------------------------------------------------------
Steps == {"begin", "write", "approve", "entry", "rollback_to", "rollback"}
Kinds == {"none", "update", "delete", "move", "sign"}

TypeOK ==
    /\ rows \in [Records -> [version : Nat, deleted : BOOLEAN]]
    /\ entries \in [Records -> Nat] /\ approvals \in [Records -> Nat]
    /\ holder \in [Records -> Workers \cup {Nobody}]
    /\ tx \in [Workers ->
           [kind : Kinds, todo : Seq(Records), next : Steps,
            copy : [Records -> Nat], wrote : SUBSET Records,
            logged : SUBSET Records, signed : SUBSET Records]]

\* base.go 101-102, README 45: "A dispatch state must never advance without
\* evidence", nor evidence or an approval appear without the change: what a
\* transaction made of rows, entries and approvals shows all at once, though
\* it is sent statement by statement, inside a savepoint or not, and though
\* statements fail and the process is killed in between.
A == INSTANCE AtomicStore WITH
         Units <- {Listed(plan.todo) : plan \in Plans}
ImplementsAtomicStore == A!Spec

Waits(w, v) == /\ Running(w) /\ Sends(w, "write") /\ tx[w].todo # <<>>
               /\ v # w /\ holder[Target(w)] = v

\* No transactions wait for each other in a circle: a receipt is written before
\* its directive and a directive before its gate, by whichever service.
NoWaitCycle ==
    \A S \in SUBSET Workers :
        S # {} => \E w \in S : \A v \in S : ~Waits(w, v)

\* Nobody waits for what nobody will release: whenever transactions are open, one
\* of them is not held up, as each lock belongs to a transaction that is open and
\* of these some holder is granted its own next statement.
SomeoneProceeds ==
    (\E w \in Workers : Running(w)) =>
        \E w \in Workers :
            Running(w) /\ (Sends(w, "write") /\ tx[w].todo # <<>> => Granted(w))

\* A transaction that was begun comes to its end, though others hold its rows,
\* fail and are begun again without end.
EveryTransactionEnds == \A w \in Workers : Running(w) ~> ~Running(w)
=============================================================================
