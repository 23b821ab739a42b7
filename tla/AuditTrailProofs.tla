--------------------------- MODULE AuditTrailProofs ---------------------------
(***************************************************************************)
(* The history of an entity is a chain, and who pages through the log      *)
(* misses nothing, for any entities, writers and readers, any number of    *)
(* stamps and any size of the pages.                                       *)
(***************************************************************************)
EXTENDS AuditTrail, FiniteSetTheorems, WellFoundedInduction, TLAPS

EntryRecord == [entity : Entities, kind : Kinds, before : Nat, after : Nat,
                stamp : 1..MaxStamp]
WriterRecord == [at : {"read", "written"}, entity : Entities, kind : Kinds,
                 expected : Nat, copy : Nat, stamp : 0..MaxStamp]

TypeInv ==
    /\ row \in [Entities -> [version : Nat \ {0}, deleted : BOOLEAN]]
    /\ log \subseteq EntryRecord
    /\ writer \in [Writers -> {Idle} \cup WriterRecord]

\* The entries about the changes of an entity's state.
Changes(e) == {x \in History(e) : x.kind # "delete"}

\* What is true of one writer: it asks for a version no later than that of its
\* copy, and what it has stamped is later than all it has seen.
Prepared(r) ==
    /\ 1 <= r.expected /\ r.expected <= r.copy /\ r.copy <= row[r.entity].version
    /\ r.at = "written" =>
           /\ ~row[r.entity].deleted
           /\ r.kind # "delete" => row[r.entity].version = r.expected
    /\ r.stamp # 0 => \A x \in Changes(r.entity) : x.after <= r.copy => x.stamp < r.stamp
    /\ r.kind = "delete" /\ r.stamp # 0 =>
           /\ r.at = "written"
           /\ \A x \in History(r.entity) : x.stamp < r.stamp

\* One transaction at a time has written a row.
OneHolds ==
    \A v, w \in Busy : /\ writer[v].at = "written" /\ writer[w].at = "written"
                       /\ writer[v].entity = writer[w].entity
                       => v = w

\* One change for each version after the first, stamped in their order.
IsChain(C, version) ==
    /\ \A x \in C : x.after = x.before + 1 /\ 1 <= x.before /\ x.after <= version
    /\ \A x, y \in C : /\ x.after < y.after => x.stamp < y.stamp
                       /\ x.after = y.after => x = y
    /\ \A n \in 2..version : \E x \in C : x.after = n

\* The deletion is the latest of its entries.
Last(H, deleted) ==
    \A x \in H : x.kind = "delete" => deleted /\ \A y \in H : y.stamp <= x.stamp

Ordered(e) == /\ IsChain(Changes(e), row[e].version)
              /\ Last(History(e), row[e].deleted)

AuditInv ==
    /\ TypeInv
    /\ \A w \in Busy : Prepared(writer[w])
    /\ OneHolds
    /\ \A e \in Entities : Ordered(e)

-----------------------------------------------------------------------------
(* The clock.                                                              *)

\* A set of numbers up to n that is not empty has a greatest.
LEMMA Greatest ==
    ASSUME NEW n \in Nat, NEW S \in SUBSET (0..n), S # {}
    PROVE  Max(S) \in S /\ \A y \in S : y <= Max(S)
<1>. DEFINE T == {n - s : s \in S}
            R == OpToRel(<, Nat)
<1>1. T \subseteq Nat /\ T # {}
  <2>1. \A s \in S : n - s \in Nat
    OBVIOUS
  <2>2. PICK s \in S : TRUE
    OBVIOUS
  <2>3. n - s \in T
    BY <2>2
  <2>. QED
    BY <2>1, <2>3
<1>2. \E x \in T : \A y \in T : ~(<<y, x>> \in R)
  <2>. HIDE DEF T
  <2>. QED
    BY <1>1, NatLessThanWellFounded, WFMin
<1>3. PICK x \in T : \A y \in T : ~(y < x)
  <2>1. \A x, y \in Nat : y < x => <<y, x>> \in R
    BY DEF OpToRel
  <2>. QED
    BY <1>1, <1>2, <2>1
<1>4. PICK s \in S : x = n - s
  OBVIOUS
<1>5. \A y \in S : s >= y
  <2>. TAKE y \in S
  <2>1. n - y \in T /\ ~(n - y < n - s)
    BY <1>3, <1>4
  <2>. QED
    BY <2>1
<1>. QED
  BY <1>5 DEF Max

\* A new stamp is later than every entry, committed or prepared.
LEMMA Later ==
    ASSUME TypeInv
    PROVE  /\ Now \in Nat \ {0}
           /\ \A x \in log : x.stamp < Now
           /\ \A w \in Busy : writer[w].stamp < Now
<1>. DEFINE S == {0} \cup {x.stamp : x \in log} \cup {writer[w].stamp : w \in Busy}
<1>1. MaxStamp \in Nat
  BY AuditAssumption DEF AuditAssumption
<1>2. ASSUME NEW w \in Busy PROVE writer[w] \in WriterRecord
  BY DEF TypeInv, Busy
<1>3. S \subseteq 0..MaxStamp /\ 0 \in S /\ \A x \in log : x.stamp \in S
  BY <1>1, <1>2 DEF TypeInv, WriterRecord, EntryRecord
<1>4. Now = 1 + Max(S)
  BY DEF Now
<1>. HIDE DEF S
<1>5. Max(S) \in 0..MaxStamp /\ \A y \in S : y <= Max(S)
  BY <1>1, <1>3, Greatest
<1>6. Max(S) \in Nat /\ Now \in Nat \ {0}
  BY <1>1, <1>4, <1>5
<1>7. ASSUME NEW x \in log PROVE x.stamp < Now
  <2>1. x.stamp \in Nat /\ x.stamp <= Max(S)
    BY <1>1, <1>3, <1>5 DEF TypeInv, EntryRecord
  <2>. QED
    BY <1>4, <1>6, <2>1
<1>8. ASSUME NEW w \in Busy PROVE writer[w].stamp < Now
  <2>1. writer[w].stamp \in S
    BY DEF S
  <2>2. writer[w].stamp \in Nat
    BY <1>1, <1>2 DEF WriterRecord
  <2>3. writer[w].stamp <= Max(S)
    BY <1>5, <2>1, Zenon
  <2>. QED
    BY <1>4, <1>6, <2>2, <2>3
<1>. QED
  BY <1>6, <1>7, <1>8

-----------------------------------------------------------------------------
(* Steps of one writer that commit nothing.                                *)

LEMMA BusyWriter ==
    ASSUME TypeInv, NEW w \in Busy
    PROVE  w \in Writers /\ writer[w] \in WriterRecord
BY DEF TypeInv, Busy

LEMMA IdleRecord == Idle \notin WriterRecord
<1>1. Idle.at = "idle"
  BY DEF Idle
<1>2. \A r \in WriterRecord : r.at \in {"read", "written"}
  BY DEF WriterRecord
<1>. QED
  BY <1>1, <1>2

\* What one writer does to its entry leaves the others and the log as they are.
LEMMA WriterMoves ==
    ASSUME AuditInv, NEW w \in Writers, NEW q, row' = row, log' = log,
           writer' = [writer EXCEPT ![w] = q],
           q = Idle \/ (q \in WriterRecord /\ Prepared(q)),
           q # Idle /\ q.at = "written" =>
               \A v \in Busy : writer[v].at = "written" /\ writer[v].entity = q.entity
                                => v = w
    PROVE  AuditInv'
<1>1. TypeInv'
  BY DEF AuditInv, TypeInv
<1>2. /\ \A v \in Writers : writer'[v] = IF v = w THEN q ELSE writer[v]
      /\ \A v \in Busy' : v \in Writers /\ (v # w => v \in Busy)
  BY DEF AuditInv, TypeInv, Busy
<1>3. ASSUME NEW v \in Busy' PROVE Prepared(writer[v])'
  <2>1. CASE v = w
    <3>1. writer'[v] = q /\ q # Idle
      BY <1>2, <2>1 DEF Busy
    <3>. QED
      BY <3>1 DEF Prepared, Changes, History
  <2>2. CASE v # w
    <3>1. writer'[v] = writer[v] /\ v \in Busy
      BY <1>2, <2>2
    <3>. QED
      BY <3>1 DEF AuditInv, Prepared, Changes, History
  <2>. QED
    BY <2>1, <2>2
<1>4. OneHolds'
  <2>. SUFFICES ASSUME NEW v \in Busy', NEW u \in Busy',
                       writer'[v].at = "written", writer'[u].at = "written",
                       writer'[v].entity = writer'[u].entity
                PROVE  v = u
    BY DEF OneHolds
  <2>1. CASE v # w /\ u # w
    BY <1>2, <2>1 DEF AuditInv, OneHolds
  <2>2. CASE v = w /\ u # w
    BY <1>2, <2>2 DEF Busy
  <2>3. CASE v # w /\ u = w
    BY <1>2, <2>3 DEF Busy
  <2>. QED
    BY <2>1, <2>2, <2>3
<1>5. \A e \in Entities : Ordered(e)'
  BY DEF AuditInv, Ordered, Changes, History
<1>. QED
  BY <1>1, <1>3, <1>4, <1>5 DEF AuditInv

LEMMA ReadKeeps ==
    ASSUME AuditInv, NEW w \in Writers, NEW e \in Entities, NEW kind \in Kinds,
           NEW expected \in 1..row[e].version, Read(w, e, kind, expected)
    PROVE  AuditInv'
<1>. DEFINE q == [at |-> "read", entity |-> e, kind |-> kind, expected |-> expected,
                  copy |-> row[e].version, stamp |-> 0]
<1>1. row[e].version \in Nat \ {0} /\ expected \in Nat
  BY DEF AuditInv, TypeInv
<1>2. q \in WriterRecord
  <2>1. 0 \in 0..MaxStamp
    BY AuditAssumption DEF AuditAssumption
  <2>. QED
    BY <1>1, <2>1 DEF WriterRecord
<1>3. Prepared(q)
  BY <1>1 DEF Prepared
<1>4. writer' = [writer EXCEPT ![w] = q] /\ row' = row /\ log' = log
  BY DEF Read
<1>5. q.at = "read"
  OBVIOUS
<1>. HIDE DEF q
<1>. QED
  BY <1>2, <1>3, <1>4, <1>5, WriterMoves

LEMMA StampKeeps ==
    ASSUME AuditInv, NEW w \in Writers, Stamp(w)
    PROVE  AuditInv'
<1>. DEFINE r == writer[w]
            q == [r EXCEPT !.stamp = Now]
<1>1. r \in WriterRecord /\ Prepared(r) /\ r.stamp = 0 /\ Now <= MaxStamp
      /\ r.at = IF r.kind = "transition" THEN "read" ELSE "written"
  BY BusyWriter DEF AuditInv, Stamp
<1>2. writer' = [writer EXCEPT ![w] = q] /\ row' = row /\ log' = log /\ w \in Busy
  BY DEF Stamp
<1>3. Now \in Nat \ {0} /\ \A x \in log : x.stamp < Now
  BY Later DEF AuditInv
<1>. DEFINE n == Now
<1>4. MaxStamp \in Nat
  BY AuditAssumption DEF AuditAssumption
<1>. HIDE DEF n
<1>5. n \in 1..MaxStamp /\ q = [r EXCEPT !.stamp = n]
  BY <1>1, <1>3, <1>4 DEF n
<1>. HIDE DEF q, r
<1>6. /\ q \in WriterRecord /\ q.at = r.at /\ q.entity = r.entity /\ q.kind = r.kind
      /\ q.expected = r.expected /\ q.copy = r.copy /\ q.stamp = n
  BY <1>1, <1>4, <1>5 DEF WriterRecord
<1>7. Prepared(q)
  <2>1. \A x \in History(q.entity) : x.stamp < q.stamp
    BY <1>3, <1>6 DEF History, n
  <2>. QED
    BY <1>1, <1>6, <2>1 DEF Prepared, Changes
<1>8. \A v \in Busy : q.at = "written" /\ writer[v].at = "written"
                         /\ writer[v].entity = q.entity => v = w
  BY <1>2, <1>6 DEF AuditInv, OneHolds, r
<1>. QED
  BY <1>2, <1>6, <1>7, <1>8, WriterMoves

LEMMA WriteKeeps ==
    ASSUME AuditInv, NEW w \in Writers, Write(w)
    PROVE  AuditInv'
<1>. DEFINE r == writer[w]
            q == [r EXCEPT !.at = "written"]
<1>1. /\ w \in Busy /\ r \in WriterRecord /\ Prepared(r) /\ r.at = "read"
      /\ row' = row /\ log' = log /\ ~Locked(r.entity)
  BY BusyWriter DEF AuditInv, Write
<1>2. CASE ~Current(w)
  <2>1. writer' = [writer EXCEPT ![w] = Idle]
    BY <1>2 DEF Write
  <2>. QED
    BY <1>1, <2>1, WriterMoves
<1>3. CASE Current(w)
  <2>1. writer' = [writer EXCEPT ![w] = q]
    BY <1>3 DEF Write
  <2>2. /\ q \in WriterRecord /\ q.at = "written" /\ q.entity = r.entity
        /\ q.kind = r.kind /\ q.expected = r.expected /\ q.copy = r.copy
        /\ q.stamp = r.stamp
    BY <1>1 DEF WriterRecord
  <2>3. ~row[r.entity].deleted /\ (r.kind # "delete" => row[r.entity].version = r.expected)
    BY <1>3 DEF Current
  <2>. HIDE DEF q, r
  <2>4. Prepared(q)
    BY <1>1, <2>2, <2>3 DEF Prepared
  <2>5. \A v \in Busy : q.at = "written" /\ writer[v].at = "written"
                           /\ writer[v].entity = q.entity => v = w
    BY <1>1, <2>2 DEF Locked
  <2>. QED
    BY <1>1, <2>1, <2>2, <2>4, <2>5, WriterMoves
<1>. QED
  BY <1>2, <1>3

LEMMA AbortKeeps ==
    ASSUME AuditInv, NEW w \in Writers, Abort(w)
    PROVE  AuditInv'
BY WriterMoves DEF Abort

\* Readers change nothing, and nor does a step that changes nothing.
LEMMA QuietKeeps ==
    ASSUME AuditInv, UNCHANGED <<row, log, writer>>
    PROVE  AuditInv'
<1>1. row' = row /\ log' = log /\ writer' = writer
  OBVIOUS
<1>2. Busy' = Busy /\ TypeInv'
  BY <1>1 DEF AuditInv, TypeInv, Busy
<1>3. \A e \in Entities : History(e)' = History(e) /\ Changes(e)' = Changes(e)
  BY <1>1 DEF Changes, History
<1>4. \A e \in Entities : Ordered(e)'
  BY <1>1, <1>3 DEF AuditInv, Ordered
<1>5. ASSUME NEW w \in Busy PROVE Prepared(writer[w])'
  BY <1>1, <1>5 DEF AuditInv, Prepared, Changes, History
<1>. QED
  BY <1>1, <1>2, <1>4, <1>5 DEF AuditInv, OneHolds

-----------------------------------------------------------------------------
(* The commit.                                                             *)

\* The entry that writer w commits.
EntryOf(w) == [entity |-> writer[w].entity, kind |-> writer[w].kind,
               before |-> writer[w].copy, after |-> writer[w].expected + 1,
               stamp |-> writer[w].stamp]

\* It is later than all of its entity; a change starts from the row as it is.
LEMMA CommitOnCopy ==
    ASSUME AuditInv, NEW w \in Writers, Commit(w)
    PROVE  LET e == writer[w].entity x == EntryOf(w) IN
           /\ w \in Busy /\ e \in Entities /\ writer[w] \in WriterRecord
           /\ x \in EntryRecord /\ log' = log \cup {x}
           /\ ~row[e].deleted
           /\ \A y \in History(e) : y.kind # "delete" /\ y.stamp < x.stamp
           /\ writer[w].kind # "delete" =>
                  /\ writer[w].copy = row[e].version
                  /\ writer[w].expected = row[e].version
<1>. DEFINE e == writer[w].entity
            x == EntryOf(w)
<1>1. /\ w \in Busy /\ writer[w] \in WriterRecord /\ e \in Entities
      /\ Prepared(writer[w]) /\ writer[w].at = "written" /\ writer[w].stamp # 0
      /\ log' = log \cup {x}
  BY BusyWriter DEF AuditInv, Commit, WriterRecord, EntryOf
<1>2. MaxStamp \in Nat /\ row[e].version \in Nat
  BY <1>1, AuditAssumption DEF AuditInv, TypeInv, AuditAssumption
<1>3. writer[w].stamp \in 1..MaxStamp /\ writer[w].expected + 1 \in Nat
  BY <1>1, <1>2 DEF WriterRecord
<1>4. x \in EntryRecord
  BY <1>1, <1>3 DEF EntryRecord, EntryOf, WriterRecord
<1>5. ~row[e].deleted
  BY <1>1 DEF Prepared
<1>6. \A y \in History(e) : y.kind # "delete"
  BY <1>1, <1>5 DEF AuditInv, Ordered, Last
<1>7. writer[w].kind # "delete" => writer[w].copy = row[e].version
                                  /\ writer[w].expected = row[e].version
  BY <1>1, <1>2 DEF Prepared, WriterRecord
<1>8. ASSUME NEW y \in History(e) PROVE y.stamp < writer[w].stamp
  <2>1. CASE writer[w].kind = "delete"
    BY <1>1, <2>1 DEF Prepared
  <2>2. CASE writer[w].kind # "delete"
    <3>1. y \in Changes(e) /\ y.after <= row[e].version
      BY <1>1, <1>6 DEF Changes, AuditInv, Ordered, IsChain
    <3>. QED
      BY <1>1, <1>7, <2>2, <3>1 DEF Prepared
  <2>. QED
    BY <2>1, <2>2
<1>9. x.stamp = writer[w].stamp
  BY DEF EntryOf
<1>. HIDE DEF x
<1>. QED
  BY <1>1, <1>4, <1>5, <1>6, <1>7, <1>8, <1>9 DEF x

\* The entities and writers that a commit does not concern.
LEMMA CommitAround ==
    ASSUME AuditInv, NEW w \in Writers, Commit(w),
           NEW e \in Entities, e = writer[w].entity
    PROVE  /\ TypeInv' /\ OneHolds'
           /\ \A v \in Busy' : v \in Busy /\ v # w /\ writer'[v] = writer[v]
           /\ \A d \in Entities : d # e =>
                  /\ History(d)' = History(d) /\ Changes(d)' = Changes(d)
                  /\ row'[d] = row[d]
           /\ History(e)' = History(e) \cup {EntryOf(w)}
<1>. DEFINE x == EntryOf(w)
<1>1. /\ e \in Entities /\ writer[w] \in WriterRecord /\ x \in EntryRecord
      /\ log' = log \cup {x} /\ x.entity = e
  BY CommitOnCopy DEF EntryOf
<1>2. writer' = [writer EXCEPT ![w] = Idle]
  BY DEF Commit
<1>3. \A v \in Busy' : v \in Busy /\ v # w /\ writer'[v] = writer[v]
  BY <1>2 DEF AuditInv, TypeInv, Busy
<1>4. row' \in [Entities -> [version : Nat \ {0}, deleted : BOOLEAN]]
  <2>1. row[e] \in [version : Nat \ {0}, deleted : BOOLEAN]
    BY <1>1 DEF AuditInv, TypeInv
  <2>2. CASE writer[w].kind = "delete"
    <3>1. row' = [row EXCEPT ![e] = [row[e] EXCEPT !.deleted = TRUE]]
      BY <2>2 DEF Commit
    <3>2. [row[e] EXCEPT !.deleted = TRUE] \in [version : Nat \ {0}, deleted : BOOLEAN]
      BY <2>1, Zenon
    <3>. QED
      BY <3>1, <3>2 DEF AuditInv, TypeInv
  <2>3. CASE writer[w].kind # "delete"
    <3>. DEFINE n == writer[w].expected + 1
    <3>1. row' = [row EXCEPT ![e] = [row[e] EXCEPT !.version = n]]
      BY <2>3 DEF Commit
    <3>2. n \in Nat \ {0}
      BY <1>1 DEF WriterRecord
    <3>. HIDE DEF n
    <3>3. [row[e] EXCEPT !.version = n] \in [version : Nat \ {0}, deleted : BOOLEAN]
      BY <2>1, <3>2, Zenon
    <3>. QED
      BY <3>1, <3>3 DEF AuditInv, TypeInv
  <2>. QED
    BY <2>2, <2>3
<1>5. TypeInv'
  BY <1>1, <1>2, <1>4 DEF AuditInv, TypeInv
<1>6. OneHolds'
  BY <1>3 DEF AuditInv, OneHolds
<1>7. \A d \in Entities : d # e => row'[d] = row[d]
  BY DEF Commit, AuditInv, TypeInv
<1>8. \A d \in Entities : d # e => History(d)' = History(d) /\ Changes(d)' = Changes(d)
  BY <1>1 DEF History, Changes
<1>9. History(e)' = History(e) \cup {x}
  BY <1>1 DEF History
<1>. QED
  BY <1>3, <1>5, <1>6, <1>7, <1>8, <1>9

\* The chain grows by one change, or ends.
LEMMA CommitOrdered ==
    ASSUME AuditInv, NEW w \in Writers, Commit(w),
           NEW e \in Entities, e = writer[w].entity
    PROVE  Ordered(e)'
<1>. DEFINE x == EntryOf(w)
            H == History(e)
            C == Changes(e)
<1>1. /\ e \in Entities /\ x \in EntryRecord
      /\ ~row[e].deleted /\ row[e].version \in Nat \ {0}
      /\ \A y \in H : y.kind # "delete" /\ y.stamp < x.stamp
      /\ x.kind = writer[w].kind
  BY CommitOnCopy DEF AuditInv, TypeInv, EntryOf
<1>2. H' = H \cup {x}
  BY CommitAround
<1>3. /\ C = H /\ C' = IF x.kind = "delete" THEN H ELSE H \cup {x}
  BY <1>1, <1>2 DEF Changes
<1>4. IsChain(H, row[e].version)
  BY <1>1, <1>3 DEF AuditInv, Ordered
<1>5. \A y \in H : y \in EntryRecord
  BY DEF History, AuditInv, TypeInv
<1>6. CASE writer[w].kind = "delete"
  <2>1. row'[e].deleted
    BY <1>1, <1>6 DEF Commit, AuditInv, TypeInv
  <2>2. row'[e].version = row[e].version
    BY <1>1, <1>6 DEF Commit, AuditInv, TypeInv
  <2>3. x.stamp \in Nat /\ \A y \in H : y.stamp \in Nat
    BY <1>1, <1>5, AuditAssumption DEF EntryRecord, AuditAssumption
  <2>4. \A z \in H \cup {x} : z.kind = "delete" => \A y \in H \cup {x} : y.stamp <= z.stamp
    BY <1>1, <2>3
  <2>5. Last(H \cup {x}, row'[e].deleted)
    BY <2>1, <2>4 DEF Last
  <2>6. Changes(e)' = H /\ History(e)' = H \cup {x}
    BY <1>1, <1>2, <1>3, <1>6
  <2>. HIDE DEF H, x
  <2>. QED
    BY <1>4, <2>2, <2>5, <2>6 DEF Ordered
<1>7. CASE writer[w].kind # "delete"
  <2>1. row'[e].version = row[e].version + 1
    BY <1>1, <1>7, CommitOnCopy DEF Commit, AuditInv, TypeInv
  <2>2. x.before = row[e].version /\ x.after = row[e].version + 1
    BY <1>7, CommitOnCopy DEF EntryOf
  <2>3. \A y \in H \cup {x} : y.stamp \in Nat /\ y.after \in Nat /\ y.before \in Nat
    BY <1>1, <1>5, AuditAssumption DEF EntryRecord, AuditAssumption
  <2>4. Changes(e)' = H \cup {x} /\ History(e)' = H \cup {x}
    BY <1>1, <1>2, <1>3, <1>7
  <2>5. Last(H \cup {x}, row'[e].deleted)
    BY <1>1, <1>7 DEF Last
  <2>6. \A y \in H : y.stamp < x.stamp
    BY <1>1
  <2>7. row[e].version \in Nat \ {0}
    BY <1>1
  <2>. HIDE DEF H, x
  <2>8. \A y \in H : y.after < x.after /\ ~(x.after < y.after)
    BY <1>4, <2>2, <2>3, <2>7 DEF IsChain
  <2>9. IsChain(H \cup {x}, row[e].version + 1)
    <3>. DEFINE m == row[e].version
                D == H \cup {x}
    <3>1. \A y \in D : y.after = y.before + 1 /\ 1 <= y.before /\ y.after <= m + 1
      BY <1>4, <2>2, <2>3, <2>7 DEF IsChain
    <3>2. \A y, z \in D : /\ y.after < z.after => y.stamp < z.stamp
                          /\ y.after = z.after => y = z
      BY <1>4, <2>3, <2>6, <2>8 DEF IsChain
    <3>3. \A n \in 2..(m + 1) : \E y \in D : y.after = n
      BY <1>4, <2>2, <2>7 DEF IsChain
    <3>. HIDE DEF m, D
    <3>4. IsChain(D, m + 1)
      BY <3>1, <3>2, <3>3 DEF IsChain
    <3>. QED
      BY <3>4 DEF m, D
  <2>. QED
    BY <2>1, <2>4, <2>5, <2>9 DEF Ordered
<1>. QED
  BY <1>6, <1>7

LEMMA CommitKeeps ==
    ASSUME AuditInv, NEW w \in Writers, Commit(w)
    PROVE  AuditInv'
<1>1. PICK e \in Entities : e = writer[w].entity
  BY CommitOnCopy
<1>. DEFINE x == EntryOf(w)
<1>2. /\ TypeInv' /\ OneHolds' /\ Ordered(e)'
      /\ \A v \in Busy' : v \in Busy /\ v # w /\ writer'[v] = writer[v]
      /\ \A d \in Entities : d # e =>
             History(d)' = History(d) /\ Changes(d)' = Changes(d) /\ row'[d] = row[d]
      /\ History(e)' = History(e) \cup {x}
  BY <1>1, CommitAround, CommitOrdered
<1>3. \A d \in Entities : Ordered(d)'
  BY <1>2 DEF AuditInv, Ordered
<1>4. /\ w \in Busy /\ writer[w] \in WriterRecord /\ Prepared(writer[w])
      /\ writer[w].at = "written"
  BY CommitOnCopy DEF AuditInv, Commit
<1>5. ASSUME NEW v \in Busy' PROVE Prepared(writer[v])'
  <2>1. /\ v \in Busy /\ v # w /\ writer'[v] = writer[v] /\ writer[v] \in WriterRecord
        /\ writer[v].entity \in Entities /\ Prepared(writer[v])
    BY <1>2, BusyWriter DEF AuditInv, WriterRecord
  <2>2. CASE writer[v].entity # e
    BY <1>2, <2>1, <2>2 DEF Prepared
  <2>3. CASE writer[v].entity = e
    <3>1. writer[v].at # "written"
      BY <1>1, <1>4, <2>1, <2>3 DEF AuditInv, OneHolds
    <3>2. row[e].version \in Nat /\ row'[e].version \in Nat
          /\ row[e].version <= row'[e].version
      <4>0. row[e].version \in Nat
        BY DEF AuditInv, TypeInv
      <4>1. CASE writer[w].kind = "delete"
        <5>1. row'[e].version = row[e].version
          BY <1>1, <4>1 DEF Commit, AuditInv, TypeInv
        <5>. QED
          BY <4>0, <5>1
      <4>2. CASE writer[w].kind # "delete"
        <5>1. row'[e].version = row[e].version + 1
          BY <1>1, <4>2, CommitOnCopy DEF Commit, AuditInv, TypeInv
        <5>. QED
          BY <4>0, <5>1
      <4>. QED
        BY <4>1, <4>2
    <3>3. \A y \in Changes(e)' : y \in Changes(e) \/ row[e].version < y.after
      <4>1. \A y \in Changes(e)' : y.kind # "delete" /\ (y \in History(e) \/ y = x)
        BY <1>2 DEF Changes
      <4>2. x.kind = writer[w].kind /\ x.after = writer[w].expected + 1
        BY DEF EntryOf
      <4>3. x.kind # "delete" => x.after = row[e].version + 1
        BY <1>1, <4>2, CommitOnCopy
      <4>. QED
        BY <3>2, <4>1, <4>3 DEF Changes
    <3>4. writer[v].copy \in Nat /\ writer[v].expected \in Nat
      BY <2>1 DEF WriterRecord
    <3>5. writer[v].kind = "delete" => writer[v].stamp = 0
      BY <2>1, <3>1 DEF Prepared
    <3>6. writer[v].stamp # 0 => \A y \in Changes(e)' :
              y.after <= writer[v].copy => y.stamp < writer[v].stamp
      <4>1. ASSUME writer[v].stamp # 0, NEW y \in Changes(e)', y.after <= writer[v].copy
            PROVE  y.stamp < writer[v].stamp
        <5>1. writer[v].copy <= row[e].version
          BY <2>1, <2>3 DEF Prepared
        <5>2. CASE y \in Changes(e)
          BY <2>1, <2>3, <4>1, <5>2 DEF Prepared
        <5>3. CASE row[e].version < y.after
          <6>1. y.after \in Nat
            BY <1>2 DEF TypeInv, EntryRecord, Changes, History
          <6>. QED
            BY <3>2, <3>4, <4>1, <5>1, <5>3, <6>1
        <5>. QED
          BY <3>3, <5>2, <5>3
      <4>. QED
        BY <4>1
    <3>. QED
      BY <2>1, <2>3, <3>1, <3>2, <3>4, <3>5, <3>6 DEF Prepared
  <2>. QED
    BY <2>2, <2>3
<1>. QED
  BY <1>2, <1>3, <1>5 DEF AuditInv

-----------------------------------------------------------------------------

\* At the start nothing is logged and nobody is busy.
LEMMA InitAudit == Init => AuditInv
<1>. SUFFICES ASSUME Init PROVE AuditInv
  OBVIOUS
<1>1. Busy = {} /\ \A e \in Entities : History(e) = {} /\ row[e].version = 1
  BY DEF Init, Busy, History
<1>2. row \in [Entities -> [version : Nat \ {0}, deleted : BOOLEAN]]
  BY DEF Init
<1>3. TypeInv
  BY <1>2 DEF Init, TypeInv
<1>4. \A e \in Entities : Ordered(e)
  BY <1>1 DEF Ordered, IsChain, Last, Changes
<1>. QED
  BY <1>1, <1>3, <1>4 DEF AuditInv, OneHolds

\* Every step keeps the invariant.
LEMMA NextAudit ==
    ASSUME AuditInv, [Next]_vars
    PROVE  AuditInv'
<1>1. ASSUME NEW w \in Writers, NEW e \in Entities, NEW kind \in Kinds,
             NEW expected \in 1..row[e].version, Read(w, e, kind, expected)
      PROVE  AuditInv'
  BY <1>1, ReadKeeps
<1>2. ASSUME NEW w \in Writers, Stamp(w) \/ Write(w) \/ Commit(w) \/ Abort(w)
      PROVE  AuditInv'
  BY <1>2, StampKeeps, WriteKeeps, CommitKeeps, AbortKeeps
<1>3. ASSUME NEW r \in Readers, StartReading(r) \/ ReadPage(r) PROVE AuditInv'
  BY <1>3, QuietKeeps DEF StartReading, ReadPage
<1>4. CASE UNCHANGED vars
  BY <1>4, QuietKeeps DEF vars
<1>. QED
  BY <1>1, <1>2, <1>3, <1>4 DEF Next

\* The invariant holds for ever.
THEOREM AuditInvariance == Spec => []AuditInv
<1>. QED
  BY InitAudit, NextAudit, PTL DEF Spec

\* README 46 and 50: whoever changes an entity and whenever they stamp, its
\* history sorted by stamps is the chain of its states
\* (repository/security.go 97-108).
THEOREM HistoryUnbroken == Spec => []HistoryIsChain
<1>1. ASSUME AuditInv, NEW x \in log
      PROVE  LET below == {y \in History(x.entity) : y.stamp < x.stamp}
             IN  IF x.kind = "delete"
                 THEN \A y \in History(x.entity) : y.stamp <= x.stamp
                 ELSE below = {} \/ \E y \in below : /\ \A z \in below : z.stamp <= y.stamp
                                                     /\ y.after = x.before
  <2>. DEFINE e == x.entity
              below == {y \in History(e) : y.stamp < x.stamp}
  <2>1. /\ e \in Entities /\ x \in History(e) /\ row[e].version \in Nat
        /\ IsChain(Changes(e), row[e].version) /\ Last(History(e), row[e].deleted)
    BY <1>1 DEF AuditInv, TypeInv, EntryRecord, History, Ordered
  <2>2. CASE x.kind = "delete"
    BY <2>1, <2>2 DEF Last
  <2>3. CASE x.kind # "delete"
    <3>1. ASSUME NEW y \in History(e)
          PROVE  y.stamp \in Nat /\ y.after \in Nat /\ y.before \in Nat
      BY <1>1, AuditAssumption DEF AuditInv, TypeInv, EntryRecord, History, AuditAssumption
    <3>2. x \in Changes(e)
      BY <2>1, <2>3 DEF Changes
    <3>3. ASSUME NEW y \in below PROVE y \in Changes(e) /\ y.after < x.after
      <4>1. y \in History(e) /\ y.stamp < x.stamp
        OBVIOUS
      <4>2. y.kind # "delete"
        BY <2>1, <3>1, <4>1 DEF Last
      <4>3. y \in Changes(e)
        BY <4>1, <4>2 DEF Changes
      <4>4. ~(x.after < y.after) /\ x.after # y.after
        BY <2>1, <3>1, <3>2, <4>1, <4>3 DEF IsChain
      <4>. QED
        BY <2>1, <3>1, <4>1, <4>3, <4>4
    <3>4. x.after = x.before + 1 /\ 1 <= x.before /\ x.after <= row[e].version
      BY <2>1, <3>2 DEF IsChain
    <3>5. CASE x.before = 1
      <4>1. \A y \in Changes(e) : 2 <= y.after
        BY <2>1, <3>1 DEF IsChain, Changes
      <4>2. below = {}
        <5>1. ASSUME NEW y \in below PROVE FALSE
          <6>1. y \in Changes(e) /\ y.after < x.after /\ y \in History(e)
            BY <3>3
          <6>. QED
            BY <2>1, <3>1, <3>4, <3>5, <4>1, <6>1
        <5>. QED
          BY <5>1
      <4>. QED
        BY <2>3, <4>2
    <3>6. CASE x.before # 1
      <4>1. x.before \in 2..row[e].version
        BY <2>1, <3>1, <3>4, <3>6
      <4>2. PICK y \in Changes(e) : y.after = x.before
        BY <2>1, <4>1 DEF IsChain
      <4>3. y \in History(e) /\ y.after < x.after
        BY <2>1, <3>1, <3>4, <4>2 DEF Changes
      <4>4. y \in below
        BY <2>1, <3>2, <4>2, <4>3 DEF IsChain
      <4>5. ASSUME NEW z \in below PROVE z.stamp <= y.stamp
        <5>1. z \in Changes(e) /\ z \in History(e) /\ z.after < x.after
          BY <3>3
        <5>2. z.after < y.after \/ z.after = y.after
          BY <2>1, <3>1, <3>4, <4>2, <4>3, <5>1
        <5>3. z.stamp < y.stamp \/ z = y
          BY <2>1, <4>2, <5>1, <5>2 DEF IsChain
        <5>. QED
          BY <3>1, <4>3, <5>1, <5>3
      <4>. QED
        BY <2>3, <4>2, <4>4, <4>5
    <3>. QED
      BY <3>5, <3>6
  <2>. QED
    BY <2>2, <2>3
<1>2. AuditInv => HistoryIsChain
  BY <1>1 DEF HistoryIsChain
<1>. QED
  BY <1>2, AuditInvariance, PTL

-----------------------------------------------------------------------------
(* Pages.                                                                  *)

\* No two stamps are the same, committed or not.
Distinct ==
    /\ \A x, y \in log : x.stamp = y.stamp => x = y
    /\ \A v, w \in Busy : writer[v].stamp # 0 /\ writer[v].stamp = writer[w].stamp => v = w
    /\ \A w \in Busy : \A x \in log : writer[w].stamp # x.stamp

ReaderRecord == [at : {"idle", "reading", "done"}, page : Nat \ {0},
                 due : SUBSET EntryRecord, seen : SUBSET EntryRecord]

\* What a reader has not seen of what is due is on the next page or after it.
InSight(q) ==
    /\ q.at = "reading" => /\ q.due \subseteq log
                           /\ \A x \in q.due \ q.seen : (q.page - 1) * PageSize <= Rank(x)
    /\ q.at = "done" => q.due \subseteq q.seen

PageInv ==
    /\ AuditInv /\ IsFiniteSet(log) /\ Distinct
    /\ reader \in [Readers -> ReaderRecord]
    /\ \A r \in Readers : InSight(reader[r])

\* Ranks are numbers, which only grow with the log.
LEMMA RankGrows ==
    ASSUME IsFiniteSet(log), IsFiniteSet(log'), log \subseteq log', NEW x
    PROVE  Rank(x) \in Nat /\ Rank(x)' \in Nat /\ Rank(x) <= Rank(x)'
<1>. DEFINE A == {y \in log : y.stamp > x.stamp}
            B == {y \in log' : y.stamp > x.stamp}
<1>1. A \subseteq log /\ B \subseteq log' /\ A \subseteq B
  OBVIOUS
<1>2. IsFiniteSet(A) /\ IsFiniteSet(B)
  BY <1>1, FS_Subset
<1>3. Cardinality(A) \in Nat /\ Cardinality(B) \in Nat /\ Cardinality(A) <= Cardinality(B)
  BY <1>1, <1>2, FS_Subset, FS_CardinalityType
<1>. QED
  BY <1>3 DEF Rank

LEMMA RankType ==
    ASSUME IsFiniteSet(log), NEW x
    PROVE  Rank(x) \in Nat
<1>1. {y \in log : y.stamp > x.stamp} \subseteq log
  OBVIOUS
<1>. QED
  BY <1>1, FS_Subset, FS_CardinalityType DEF Rank

\* A set of numbers that is not empty has a least.
LEMMA Least ==
    ASSUME NEW T \in SUBSET Nat, T # {}
    PROVE  \E x \in T : \A y \in T : ~(y < x)
<1>. DEFINE R == OpToRel(<, Nat)
<1>1. \E x \in T : \A y \in T : ~(<<y, x>> \in R)
  BY NatLessThanWellFounded, WFMin
<1>2. \A x, y \in Nat : y < x => <<y, x>> \in R
  BY DEF OpToRel
<1>. QED
  BY <1>1, <1>2

\* With distinct stamps the ranks of the log leave none out.
LEMMA NoRankMissing ==
    ASSUME IsFiniteSet(log), TypeInv, Distinct, NEW x \in log, NEW k \in 0..Rank(x)
    PROVE  \E y \in log : Rank(y) = k
<1>. DEFINE T == {Rank(y) : y \in {z \in log : k <= Rank(z)}}
<1>1. \A y \in log : Rank(y) \in Nat /\ y.stamp \in Nat
  BY RankType, AuditAssumption DEF TypeInv, EntryRecord, AuditAssumption
<1>2. T \subseteq Nat /\ T # {}
  <2>1. T \subseteq Nat
    BY <1>1
  <2>2. Rank(x) \in T
    OBVIOUS
  <2>. QED
    BY <2>1, <2>2
<1>3. PICK m \in T : \A n \in T : ~(n < m)
  <2>. HIDE DEF T
  <2>. QED
    BY <1>2, Least
<1>4. PICK y \in log : k <= Rank(y) /\ m = Rank(y)
  OBVIOUS
<1>5. CASE Rank(y) = k
  BY <1>5
<1>6. CASE Rank(y) # k
  <2>. DEFINE A == {z \in log : z.stamp > y.stamp}
              S == {z.stamp : z \in A}
  <2>1. IsFiniteSet(A) /\ Rank(y) = Cardinality(A)
    <3>1. A \subseteq log
      OBVIOUS
    <3>. QED
      BY <3>1, FS_Subset DEF Rank
  <2>2. Rank(y) # 0
    BY <1>1, <1>4, <1>6
  <2>3. A # {}
    BY <2>1, <2>2, FS_EmptySet
  <2>4. S \subseteq Nat /\ S # {}
    BY <1>1, <2>3
  <2>5. PICK s \in S : \A u \in S : ~(u < s)
    <3>. HIDE DEF S
    <3>. QED
      BY <2>4, Least
  <2>6. PICK z \in A : s = z.stamp
    OBVIOUS
  <2>. DEFINE B == {u \in log : u.stamp > z.stamp}
  <2>7. \A u \in A : u.stamp \in Nat /\ ~(u.stamp < z.stamp) /\ (u.stamp = z.stamp => u = z)
    BY <1>1, <2>5, <2>6 DEF Distinct
  <2>8. A = B \cup {z} /\ z \notin B /\ z \in log
    <3>1. \A u \in A : u \in B \/ u = z
      BY <1>1, <2>6, <2>7
    <3>2. \A u \in B : u \in A
      BY <1>1, <2>6
    <3>3. z \notin B /\ z \in log
      BY <1>1, <2>6
    <3>. QED
      BY <2>6, <3>1, <3>2, <3>3
  <2>9. IsFiniteSet(B) /\ Rank(z) = Cardinality(B)
    <3>1. B \subseteq log
      OBVIOUS
    <3>. QED
      BY <3>1, FS_Subset DEF Rank
  <2>. HIDE DEF A, B
  <2>10. Cardinality(A) = Cardinality(B) + 1
    BY <2>8, <2>9, FS_AddElement
  <2>11. Rank(y) = Rank(z) + 1
    BY <2>1, <2>9, <2>10
  <2>12. k <= Rank(z) /\ Rank(z) < Rank(y)
    BY <1>1, <1>4, <1>6, <2>8, <2>11
  <2>13. Rank(z) \in T
    BY <2>8, <2>12
  <2>. QED
    BY <1>3, <1>4, <2>12, <2>13
<1>. QED
  BY <1>5, <1>6

\* Pages of numbers: division by the size of a page.
LEMMA Division ==
    ASSUME NEW a \in Nat, NEW b \in Nat \ {0}, NEW q \in Nat
    PROVE  /\ (a \div b = q) <=> (q * b <= a /\ a < (q + 1) * b)
           /\ (q + 1) * b = q * b + b /\ q * b \in Nat
OBVIOUS

\* A page that has entries behind it is full.
LEMMA FullPage ==
    ASSUME IsFiniteSet(log), TypeInv, Distinct, NEW x \in log, NEW n \in Nat \ {0},
           n * PageSize <= Rank(x)
    PROVE  PageSize <= Cardinality(Page(n)) /\ Cardinality(Page(n)) \in Nat
<1>. DEFINE b == (n - 1) * PageSize
            f == [i \in 1..PageSize |-> CHOOSE y \in log : Rank(y) = b + (i - 1)]
<1>1. PageSize \in Nat \ {0} /\ n - 1 \in Nat /\ (n - 1) + 1 = n
  BY AuditAssumption DEF AuditAssumption
<1>2. b \in Nat /\ n * PageSize = b + PageSize
  BY <1>1, Division
<1>. HIDE DEF b
<1>3. Rank(x) \in Nat
  BY RankType
<1>4. ASSUME NEW i \in 1..PageSize PROVE f[i] \in log /\ Rank(f[i]) = b + (i - 1)
  <2>1. b + (i - 1) \in 0..Rank(x)
    BY <1>1, <1>2, <1>3
  <2>2. \E y \in log : Rank(y) = b + (i - 1)
    BY <2>1, NoRankMissing
  <2>. QED
    BY <2>2
<1>12. f = [i \in 1..PageSize |-> f[i]]
  OBVIOUS
<1>. HIDE DEF f
<1>5. ASSUME NEW i \in 1..PageSize PROVE f[i] \in Page(n)
  <2>0. i \in Nat /\ 1 <= i /\ i <= PageSize /\ Rank(f[i]) = b + (i - 1)
    BY <1>1, <1>4
  <2>1. Rank(f[i]) \in Nat /\ b <= Rank(f[i]) /\ Rank(f[i]) < b + PageSize
    BY <1>1, <1>2, <2>0
  <2>2. Rank(f[i]) \div PageSize = n - 1
    <3>. DEFINE k == Rank(f[i])
                m == n - 1
    <3>1. k \in Nat /\ m \in Nat /\ m * PageSize <= k
      BY <1>1, <2>1 DEF b
    <3>2. k < (m + 1) * PageSize
      BY <1>1, <1>2, <2>1
    <3>. HIDE DEF k, m
    <3>3. k \div PageSize = m
      BY <1>1, <3>1, <3>2, Division
    <3>. QED
      BY <3>3 DEF k, m
  <2>. QED
    BY <1>4, <2>2 DEF Page
<1>6. \A i, j \in 1..PageSize : f[i] = f[j] => i = j
  <2>. SUFFICES ASSUME NEW i \in 1..PageSize, NEW j \in 1..PageSize, f[i] = f[j] PROVE i = j
    OBVIOUS
  <2>1. b + (i - 1) = b + (j - 1)
    BY <1>4
  <2>. QED
    BY <1>1, <1>2, <2>1
<1>7. f \in [1..PageSize -> Page(n)]
  BY <1>5, <1>12
<1>8. f \in Injection(1..PageSize, Page(n))
  BY <1>6, <1>7 DEF Injection, IsInjective
<1>9. IsFiniteSet(Page(n))
  <2>1. Page(n) \subseteq log
    BY DEF Page
  <2>. QED
    BY <2>1, FS_Subset
<1>10. Cardinality(1..PageSize) <= Cardinality(Page(n))
  BY <1>8, <1>9, FS_Injection
<1>11. Cardinality(1..PageSize) = PageSize
  <2>1. 1 \in Int /\ PageSize \in Int /\ ~(1 > PageSize) /\ PageSize - 1 + 1 = PageSize
    BY <1>1
  <2>. QED
    BY <2>1, FS_Interval
<1>. QED
  BY <1>9, <1>10, <1>11, FS_CardinalityType

\* The log grows and the readers stay: what they have not seen moves back.
LEMMA ReadersStay ==
    ASSUME PageInv, log \subseteq log', IsFiniteSet(log'),
           NEW r \in Readers, reader'[r] = reader[r]
    PROVE  InSight(reader[r])'
<1>. DEFINE q == reader[r]
<1>1. q \in ReaderRecord /\ InSight(q)
  BY DEF PageInv
<1>2. ASSUME q.at = "reading", NEW x \in q.due \ q.seen
      PROVE  (q.page - 1) * PageSize <= Rank(x)'
  <2>1. Rank(x) \in Nat /\ Rank(x)' \in Nat /\ Rank(x) <= Rank(x)'
    BY RankGrows DEF PageInv
  <2>2. (q.page - 1) * PageSize <= Rank(x)
    BY <1>1, <1>2 DEF InSight
  <2>3. (q.page - 1) * PageSize \in Nat
    <3>1. q.page - 1 \in Nat /\ PageSize \in Nat \ {0}
      BY <1>1, AuditAssumption DEF ReaderRecord, AuditAssumption
    <3>. QED
      BY <3>1, Division
  <2>. HIDE DEF q
  <2>. QED
    BY <2>1, <2>2, <2>3
<1>. QED
  BY <1>1, <1>2 DEF InSight

\* What a writer does before its commit, and its end without one.
LEMMA PrepareKeepsPages ==
    ASSUME PageInv, AuditInv', NEW w \in Writers, NEW q,
           writer' = [writer EXCEPT ![w] = q], log' = log, reader' = reader,
           q = Idle \/ (q \in WriterRecord
                          /\ \/ q.stamp = 0
                             \/ w \in Busy /\ q.stamp = writer[w].stamp
                             \/ /\ \A x \in log : x.stamp # q.stamp
                                /\ \A v \in Busy : writer[v].stamp # q.stamp)
    PROVE  PageInv'
<1>1. /\ \A v \in Writers : writer'[v] = IF v = w THEN q ELSE writer[v]
      /\ \A v \in Busy' : v \in Writers /\ (v # w => v \in Busy)
      /\ w \in Busy' => q # Idle
  BY DEF PageInv, AuditInv, TypeInv, Busy
<1>2. \A x \in log : x.stamp # 0
  BY AuditAssumption DEF PageInv, AuditInv, TypeInv, EntryRecord, AuditAssumption
<1>3. Distinct'
  <2>1. \A x, y \in log' : x.stamp = y.stamp => x = y
    BY DEF PageInv, Distinct
  <2>2. ASSUME NEW v \in Busy', NEW u \in Busy', v # u,
               writer'[v].stamp # 0, writer'[v].stamp = writer'[u].stamp
        PROVE  FALSE
    <3>1. CASE v # w /\ u # w
      BY <1>1, <2>2, <3>1 DEF PageInv, Distinct
    <3>2. CASE v = w
      <4>1. u # w /\ u \in Busy /\ writer'[u] = writer[u] /\ writer'[v] = q /\ q # Idle
        BY <1>1, <2>2, <3>2
      <4>. QED
        BY <2>2, <3>2, <4>1 DEF PageInv, Distinct
    <3>3. CASE u = w
      <4>1. v # w /\ v \in Busy /\ writer'[v] = writer[v] /\ writer'[u] = q /\ q # Idle
        BY <1>1, <2>2, <3>3
      <4>. QED
        BY <2>2, <3>3, <4>1 DEF PageInv, Distinct
    <3>. QED
      BY <3>1, <3>2, <3>3
  <2>3. ASSUME NEW v \in Busy', NEW x \in log' PROVE writer'[v].stamp # x.stamp
    <3>1. CASE v # w
      BY <1>1, <3>1 DEF PageInv, Distinct
    <3>2. CASE v = w
      BY <1>1, <1>2, <3>2 DEF PageInv, Distinct
    <3>. QED
      BY <3>1, <3>2
  <2>. QED
    BY <2>1, <2>2, <2>3 DEF Distinct
<1>4. \A r \in Readers : InSight(reader[r])'
  BY ReadersStay DEF PageInv
<1>. QED
  BY <1>3, <1>4 DEF PageInv

LEMMA ReadKeepsPages ==
    ASSUME PageInv, AuditInv', NEW w \in Writers, NEW e \in Entities, NEW kind \in Kinds,
           NEW expected \in 1..row[e].version, Read(w, e, kind, expected)
    PROVE  PageInv'
<1>. DEFINE q == [at |-> "read", entity |-> e, kind |-> kind, expected |-> expected,
                  copy |-> row[e].version, stamp |-> 0]
<1>1. row[e].version \in Nat \ {0} /\ expected \in Nat
  BY DEF PageInv, AuditInv, TypeInv
<1>2. q \in WriterRecord /\ q.stamp = 0
  <2>1. 0 \in 0..MaxStamp
    BY AuditAssumption DEF AuditAssumption
  <2>. QED
    BY <1>1, <2>1 DEF WriterRecord
<1>3. writer' = [writer EXCEPT ![w] = q] /\ log' = log /\ reader' = reader
  BY DEF Read
<1>. HIDE DEF q
<1>. QED
  BY <1>2, <1>3, PrepareKeepsPages

LEMMA StampKeepsPages ==
    ASSUME PageInv, AuditInv', NEW w \in Writers, Stamp(w)
    PROVE  PageInv'
<1>. DEFINE n == Now
            q == [writer[w] EXCEPT !.stamp = n]
<1>1. writer' = [writer EXCEPT ![w] = q] /\ log' = log /\ reader' = reader /\ n <= MaxStamp
  BY DEF Stamp
<1>2. /\ n \in Nat \ {0} /\ \A x \in log : x.stamp < n
      /\ \A v \in Busy : writer[v].stamp < n
  BY Later DEF PageInv, AuditInv
<1>3. writer[w] \in WriterRecord
  BY BusyWriter DEF Stamp, PageInv, AuditInv
<1>4. \A x \in log : x.stamp \in Nat
  BY AuditAssumption DEF PageInv, AuditInv, TypeInv, EntryRecord, AuditAssumption
<1>5. \A v \in Busy : writer[v].stamp \in Nat
  BY BusyWriter, AuditAssumption DEF PageInv, AuditInv, WriterRecord, AuditAssumption
<1>. HIDE DEF n
<1>6. /\ \A x \in log : x.stamp # n
      /\ \A v \in Busy : writer[v].stamp # n
  BY <1>2, <1>4, <1>5
<1>7. q \in WriterRecord /\ q.stamp = n
  <2>1. n \in 0..MaxStamp
    BY <1>1, <1>2, AuditAssumption DEF AuditAssumption
  <2>. QED
    BY <1>3, <2>1 DEF WriterRecord
<1>. HIDE DEF q
<1>. QED
  BY <1>1, <1>6, <1>7, PrepareKeepsPages

LEMMA WriteKeepsPages ==
    ASSUME PageInv, AuditInv', NEW w \in Writers, Write(w)
    PROVE  PageInv'
<1>. DEFINE q == [writer[w] EXCEPT !.at = "written"]
<1>1. w \in Busy /\ writer[w] \in WriterRecord /\ log' = log /\ reader' = reader
  BY BusyWriter DEF Write, PageInv, AuditInv
<1>2. q \in WriterRecord /\ q.stamp = writer[w].stamp
  BY <1>1 DEF WriterRecord
<1>3. writer' = [writer EXCEPT ![w] = q] \/ writer' = [writer EXCEPT ![w] = Idle]
  BY DEF Write
<1>. HIDE DEF q
<1>. QED
  BY <1>1, <1>2, <1>3, PrepareKeepsPages

LEMMA AbortKeepsPages ==
    ASSUME PageInv, AuditInv', NEW w \in Writers, Abort(w)
    PROVE  PageInv'
BY PrepareKeepsPages DEF Abort

LEMMA CommitKeepsPages ==
    ASSUME PageInv, AuditInv', NEW w \in Writers, Commit(w)
    PROVE  PageInv'
<1>. DEFINE x == EntryOf(w)
<1>1. /\ w \in Busy /\ log' = log \cup {x} /\ x.stamp = writer[w].stamp
      /\ writer' = [writer EXCEPT ![w] = Idle] /\ reader' = reader /\ writer[w].stamp # 0
  BY DEF Commit, EntryOf
<1>. HIDE DEF x
<1>2. \A v \in Busy' : v \in Busy /\ v # w /\ writer'[v] = writer[v]
  BY <1>1 DEF PageInv, AuditInv, TypeInv, Busy
<1>3. IsFiniteSet(log') /\ log \subseteq log'
  BY <1>1, FS_AddElement DEF PageInv
<1>4. \A y \in log : y.stamp # x.stamp
  BY <1>1 DEF PageInv, Distinct
<1>5. Distinct'
  <2>1. \A y, z \in log' : y.stamp = z.stamp => y = z
    BY <1>1, <1>4 DEF PageInv, Distinct
  <2>2. \A u, v \in Busy' : writer'[v].stamp # 0 /\ writer'[v].stamp = writer'[u].stamp
                              => v = u
    BY <1>2 DEF PageInv, Distinct
  <2>3. \A v \in Busy', y \in log' : writer'[v].stamp # y.stamp
    BY <1>1, <1>2 DEF PageInv, Distinct
  <2>. QED
    BY <2>1, <2>2, <2>3 DEF Distinct
<1>6. \A r \in Readers : InSight(reader[r])'
  BY <1>1, <1>3, ReadersStay
<1>. QED
  BY <1>1, <1>3, <1>5, <1>6 DEF PageInv

LEMMA StartKeepsPages ==
    ASSUME PageInv, AuditInv', NEW r \in Readers, StartReading(r)
    PROVE  PageInv'
<1>. DEFINE q == [at |-> "reading", page |-> 1, due |-> log, seen |-> {}]
<1>1. reader' = [reader EXCEPT ![r] = q] /\ log' = log /\ writer' = writer
  BY DEF StartReading
<1>2. q \in ReaderRecord
  BY DEF PageInv, AuditInv, TypeInv, ReaderRecord
<1>3. \A x \in log : Rank(x)' = Rank(x) /\ Rank(x) \in Nat
  BY <1>1, RankType DEF PageInv, Rank
<1>4. InSight(reader[r])'
  <2>0. reader'[r] = q
    BY <1>1 DEF PageInv
  <2>1. (1 - 1) * PageSize = 0
    BY AuditAssumption DEF AuditAssumption
  <2>2. q.at = "reading" /\ q.page = 1 /\ q.due = log /\ q.seen = {}
    OBVIOUS
  <2>. QED
    BY <1>1, <1>3, <2>0, <2>1, <2>2 DEF InSight
<1>. HIDE DEF q
<1>5. \A s \in Readers : InSight(reader[s])'
  <2>. TAKE s \in Readers
  <2>1. CASE s = r
    BY <1>4, <2>1
  <2>2. CASE s # r
    <3>1. reader'[s] = reader[s] /\ log \subseteq log' /\ IsFiniteSet(log')
      BY <1>1, <2>2 DEF PageInv
    <3>. QED
      BY <3>1, ReadersStay
  <2>. QED
    BY <2>1, <2>2
<1>6. Busy' = Busy /\ Distinct'
  BY <1>1 DEF PageInv, Busy, Distinct
<1>. QED
  BY <1>1, <1>2, <1>5, <1>6 DEF PageInv

LEMMA ReadPageKeepsPages ==
    ASSUME PageInv, AuditInv', NEW r \in Readers, ReadPage(r)
    PROVE  PageInv'
<1>. DEFINE p == reader[r]
            shown == Page(p.page)
            last == Cardinality(shown) < PageSize
            q == [at |-> IF last THEN "done" ELSE "reading", page |-> p.page + 1,
                  due |-> p.due, seen |-> p.seen \cup shown]
<1>1. reader' = [reader EXCEPT ![r] = q] /\ log' = log /\ writer' = writer
  BY DEF ReadPage
<1>2. p \in ReaderRecord /\ InSight(p) /\ p.at = "reading"
  BY DEF PageInv, ReadPage
<1>3. /\ p.due \subseteq log /\ p.page \in Nat \ {0} /\ PageSize \in Nat \ {0}
      /\ \A x \in p.due \ p.seen : (p.page - 1) * PageSize <= Rank(x)
  BY <1>2, AuditAssumption DEF InSight, ReaderRecord, AuditAssumption
<1>4. q \in ReaderRecord
  <2>1. shown \subseteq EntryRecord
    BY DEF Page, PageInv, AuditInv, TypeInv
  <2>2. p.page + 1 \in Nat \ {0}
    BY <1>3
  <2>. HIDE DEF shown
  <2>. QED
    BY <1>2, <2>1, <2>2 DEF ReaderRecord
<1>5. ASSUME NEW x \in p.due \ q.seen PROVE p.page * PageSize <= Rank(x)
  <2>1. x \in log /\ x \in p.due \ p.seen /\ x \notin shown
    BY <1>3
  <2>2. Rank(x) \in Nat /\ (p.page - 1) * PageSize <= Rank(x)
    BY <1>3, <2>1, RankType DEF PageInv
  <2>3. Rank(x) \div PageSize # p.page - 1
    BY <2>1 DEF Page
  <2>. DEFINE n == p.page
              k == Rank(x)
  <2>4. n - 1 \in Nat /\ (n - 1) + 1 = n
    BY <1>3
  <2>5. ~(k < n * PageSize)
    <3>. HIDE DEF n, k, p
    <3>1. (k \div PageSize = n - 1)
              <=> ((n - 1) * PageSize <= k /\ k < ((n - 1) + 1) * PageSize)
      BY <1>3, <2>2, <2>4, Division DEF k
    <3>2. (n - 1) * PageSize <= k /\ k \div PageSize # n - 1
      BY <2>2, <2>3 DEF n, k
    <3>3. ~(k < ((n - 1) + 1) * PageSize)
      BY <3>1, <3>2
    <3>. QED
      BY <2>4, <3>3
  <2>6. n * PageSize \in Nat
    BY <1>3, Division
  <2>. HIDE DEF n, k
  <2>7. n * PageSize <= k
    BY <2>2, <2>5, <2>6 DEF k
  <2>. QED
    BY <2>7 DEF n, k
<1>6. ~last \/ p.due \subseteq q.seen
  <2>. SUFFICES ASSUME last, NEW x \in p.due \ q.seen PROVE FALSE
    OBVIOUS
  <2>1. x \in log /\ p.page * PageSize <= Rank(x)
    BY <1>3, <1>5
  <2>2. PageSize <= Cardinality(shown) /\ Cardinality(shown) \in Nat
    BY <1>3, <2>1, FullPage DEF PageInv, AuditInv
  <2>. HIDE DEF shown
  <2>. QED
    BY <1>3, <2>2
<1>7. \A x : Rank(x)' = Rank(x)
  BY <1>1 DEF Rank
<1>8. InSight(reader[r])'
  <2>0. reader'[r] = q
    BY <1>1 DEF PageInv
  <2>1. q.due = p.due /\ q.page = p.page + 1 /\ q.at = IF last THEN "done" ELSE "reading"
    OBVIOUS
  <2>2. q.page - 1 = p.page
    BY <1>3, <2>1
  <2>. HIDE DEF q, last
  <2>. QED
    BY <1>1, <1>3, <1>5, <1>6, <1>7, <2>0, <2>1, <2>2 DEF InSight
<1>. HIDE DEF q, p, last, shown
<1>9. \A s \in Readers : InSight(reader[s])'
  <2>. TAKE s \in Readers
  <2>1. CASE s = r
    BY <1>8, <2>1
  <2>2. CASE s # r
    <3>1. reader'[s] = reader[s] /\ log \subseteq log' /\ IsFiniteSet(log')
      BY <1>1, <2>2 DEF PageInv
    <3>. QED
      BY <3>1, ReadersStay
  <2>. QED
    BY <2>1, <2>2
<1>10. Busy' = Busy /\ Distinct'
  BY <1>1 DEF PageInv, Busy, Distinct
<1>. QED
  BY <1>1, <1>4, <1>9, <1>10 DEF PageInv

\* At the start the log is empty.
LEMMA InitPages == Init => PageInv
<1>. SUFFICES ASSUME Init PROVE PageInv
  OBVIOUS
<1>1. log = {} /\ Busy = {}
  BY DEF Init, Busy
<1>2. IsFiniteSet(log) /\ Distinct
  BY <1>1, FS_EmptySet DEF Distinct
<1>3. ASSUME NEW r \in Readers
      PROVE  reader[r] = [at |-> "idle", page |-> 1, due |-> {}, seen |-> {}]
  BY DEF Init
<1>4. reader \in [Readers -> ReaderRecord]
  BY DEF Init, ReaderRecord
<1>5. \A r \in Readers : InSight(reader[r])
  BY <1>3 DEF InSight
<1>. QED
  BY <1>2, <1>4, <1>5, InitAudit DEF PageInv

\* Every step keeps the invariant of the pages.
LEMMA NextPages ==
    ASSUME PageInv, [Next]_vars
    PROVE  PageInv'
<1>0. AuditInv'
  BY NextAudit DEF PageInv
<1>1. ASSUME NEW w \in Writers, NEW e \in Entities, NEW kind \in Kinds,
             NEW expected \in 1..row[e].version, Read(w, e, kind, expected)
      PROVE  PageInv'
  BY <1>0, <1>1, ReadKeepsPages
<1>2. ASSUME NEW w \in Writers, Stamp(w) \/ Write(w) \/ Commit(w) \/ Abort(w)
      PROVE  PageInv'
  BY <1>0, <1>2, StampKeepsPages, WriteKeepsPages, CommitKeepsPages, AbortKeepsPages
<1>3. ASSUME NEW r \in Readers, StartReading(r) \/ ReadPage(r) PROVE PageInv'
  BY <1>0, <1>3, StartKeepsPages, ReadPageKeepsPages
<1>4. CASE UNCHANGED vars
  <2>1. row' = row /\ log' = log /\ writer' = writer /\ reader' = reader
    BY <1>4 DEF vars
  <2>2. Busy' = Busy /\ Distinct'
    BY <2>1 DEF PageInv, Busy, Distinct
  <2>3. \A r \in Readers : InSight(reader[r])'
    BY <2>1 DEF PageInv, InSight, Rank
  <2>. QED
    BY <1>0, <2>1, <2>2, <2>3 DEF PageInv
<1>. QED
  BY <1>1, <1>2, <1>3, <1>4 DEF Next

\* Whoever pages through the log to its end has seen every entry that was there
\* when he began, for every size of the pages and however many entries are added
\* meanwhile (repository/security.go 47-60).
THEOREM NothingMissed == Spec => []PagesMissNothing
<1>1. PageInv => PagesMissNothing
  BY DEF PageInv, InSight, PagesMissNothing
<1>. QED
  BY <1>1, InitPages, NextPages, PTL DEF Spec
=============================================================================
