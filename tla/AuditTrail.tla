------------------------------ MODULE AuditTrail ------------------------------
(***************************************************************************)
(* The audit log as it is written and as it is read.  A transition of a    *)
(* reservoir, gate or directive stamps its entry before its transaction;   *)
(* an edit, an outcome, a receipt's transition and a deletion ("edit" and  *)
(* "delete") stamp it inside, after the row is written.  Readers sort by   *)
(* the stamps: the history of one entity, and the whole log page by page,  *)
(* each page a query of its own while entries go on being committed.       *)
(*                                                                         *)
(* A row's state is its version here, which no two states share; a writer  *)
(* is what one transaction does to one row.  External are the row lock,    *)
(* held from the write to the commit, and the clock: a stamp is later than *)
(* every earlier one that anyone can still see.                            *)
(***************************************************************************)
EXTENDS Naturals, FiniteSetsExt

CONSTANTS Entities, Writers, Readers,
          Kinds,      \* the operations run: some of transition, edit, delete
          PageSize,
          MaxStamp    \* bound: stamps of the log

ASSUME AuditAssumption == /\ Kinds \subseteq {"transition", "edit", "delete"}
                          /\ PageSize \in Nat \ {0} /\ MaxStamp \in Nat

VARIABLES row,     \* entity -> its committed state
          log,     \* the committed entries
          writer,  \* writer -> the entry it prepares
          reader   \* who pages through the log, and what he has seen

vars == <<row, log, writer, reader>>

Idle == [at |-> "idle"]
Busy == {w \in Writers : writer[w] # Idle}

Init ==
    /\ row = [e \in Entities |-> [version |-> 1, deleted |-> FALSE]]
    /\ log = {}
    /\ writer = [w \in Writers |-> Idle]
    /\ reader = [r \in Readers |-> [at |-> "idle", page |-> 1, due |-> {}, seen |-> {}]]

-----------------------------------------------------------------------------
(* Writing.                                                                *)

Now == 1 + Max({0} \cup {x.stamp : x \in log} \cup {writer[w].stamp : w \in Busy})

\* The handler reads the row.  The version asked for is one the caller was shown.
Read(w, e, kind, expected) ==
    /\ writer[w] = Idle /\ ~row[e].deleted
    /\ writer' = [writer EXCEPT ![w] =
           [at |-> "read", entity |-> e, kind |-> kind, expected |-> expected,
            copy |-> row[e].version, stamp |-> 0]]
    /\ UNCHANGED <<row, log, reader>>

Stamp(w) ==
    /\ w \in Busy /\ writer[w].stamp = 0 /\ Now <= MaxStamp
    /\ writer[w].at = IF writer[w].kind = "transition" THEN "read" ELSE "written"
    /\ writer' = [writer EXCEPT ![w].stamp = Now]
    /\ UNCHANGED <<row, log, reader>>

\* (Faulty variant: an update is by the key alone, like a deletion.)
CurrentByKey(w) == ~row[writer[w].entity].deleted

\* The row an update finds has the version asked for; a deletion's only its key.
Current(w) ==
    /\ ~row[writer[w].entity].deleted
    /\ writer[w].kind # "delete" => row[writer[w].entity].version = writer[w].expected

Locked(e) == \E w \in Busy : writer[w].at = "written" /\ writer[w].entity = e

\* The update or the deletion is sent, waits for the row, and finds it or not.
Write(w) ==
    /\ w \in Busy /\ writer[w].at = "read"
    /\ writer[w].kind = "transition" => writer[w].stamp # 0
    /\ ~Locked(writer[w].entity)
    /\ writer' = IF Current(w) THEN [writer EXCEPT ![w].at = "written"]
                 ELSE [writer EXCEPT ![w] = Idle]
    /\ UNCHANGED <<row, log, reader>>

Commit(w) ==
    /\ w \in Busy /\ writer[w].at = "written" /\ writer[w].stamp # 0
    /\ row' = IF writer[w].kind = "delete"
              THEN [row EXCEPT ![writer[w].entity].deleted = TRUE]
              ELSE [row EXCEPT ![writer[w].entity].version = writer[w].expected + 1]
    /\ log' = log \cup {[entity |-> writer[w].entity, kind |-> writer[w].kind,
                         before |-> writer[w].copy, after |-> writer[w].expected + 1,
                         stamp |-> writer[w].stamp]}
    /\ writer' = [writer EXCEPT ![w] = Idle]
    /\ UNCHANGED reader

\* The database fails: the transaction is rolled back.
Abort(w) == /\ w \in Busy
            /\ writer' = [writer EXCEPT ![w] = Idle]
            /\ UNCHANGED <<row, log, reader>>

-----------------------------------------------------------------------------
(* Reading.                                                                *)

\* How many entries are sorted before this one: the later ones.
Rank(x) == Cardinality({y \in log : y.stamp > x.stamp})

\* (Faulty variant: pages are counted from 0.)
PageFromZero(n) == {x \in log : Rank(x) \div PageSize = n}
Page(n) == {x \in log : Rank(x) \div PageSize = n - 1}

StartReading(r) ==
    /\ reader[r].at # "reading"
    /\ reader' = [reader EXCEPT ![r] = [at |-> "reading", page |-> 1, due |-> log, seen |-> {}]]
    /\ UNCHANGED <<row, log, writer>>

ReadPage(r) ==
    /\ reader[r].at = "reading"
    /\ LET shown == Page(reader[r].page)
           last == Cardinality(shown) < PageSize
       IN  reader' = [reader EXCEPT ![r] =
               [at |-> IF last THEN "done" ELSE "reading", page |-> @.page + 1,
                due |-> @.due, seen |-> @.seen \cup shown]]
    /\ UNCHANGED <<row, log, writer>>

History(e) == {x \in log : x.entity = e}

Next == \/ \E w \in Writers :
               \/ \E e \in Entities, kind \in Kinds :
                      \E expected \in 1..row[e].version : Read(w, e, kind, expected)
               \/ Stamp(w) \/ Write(w) \/ Commit(w) \/ Abort(w)
        \/ \E r \in Readers : StartReading(r) \/ ReadPage(r)

Spec == Init /\ [][Next]_vars
-----------------------------------------------------------------------------
\* README 46 and 50: sorted by its stamps, the history of an entity is the chain
\* of its states, each entry starting from the state the one below it ended in,
\* although stamps are given before the commits and by requests that overlap.
\* The entry of a deletion, whose copy of the row may be old, is only the last.
HistoryIsChain ==
    \A x \in log :
        LET below == {y \in History(x.entity) : y.stamp < x.stamp}
        IN  IF x.kind = "delete"
            THEN \A y \in History(x.entity) : y.stamp <= x.stamp
            ELSE below = {} \/ \E y \in below : /\ \A z \in below : z.stamp <= y.stamp
                                                /\ y.after = x.before

\* repository/security.go 47-60: who pages through the log to its end has seen
\* every entry that was there when he began, though entries are added meanwhile,
\* also in front of and between those he has seen.
PagesMissNothing ==
    \A r \in Readers : reader[r].at = "done" => reader[r].due \subseteq reader[r].seen
=============================================================================
