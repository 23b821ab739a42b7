----------------------------- MODULE StartupProofs -----------------------------
(***************************************************************************)
(* Theorems about Startup, for any tables and seed rows that meet          *)
(* StartupAssumption, any number of attempts and of faults.                *)
(***************************************************************************)
EXTENDS Startup, TLAPS

\* All seed rows of the i-th table were inserted.
Seeded(i) == \A c \in SeedCodes[Tables[i]] : row[c] # "absent"

\* The rows that were inserted once stay inserted, deleted or not.
RowsStay == \A c \in Codes : row[c] # "absent" => row'[c] # "absent"

\* A start that has come to a table has passed those before it; users have rows
\* of their own only after a start that passed all.
PassedInv ==
    /\ \A i \in DOMAIN Tables : phase = Tables[i] => \A j \in 1..(i - 1) : Seeded(j)
    /\ phase = "approvals" => \A j \in 1..Position("directives") : Seeded(j)
    /\ phase \in {"redis", "serving", "stopping"} \/ others # {}
           => \A i \in DOMAIN Tables : Seeded(i)

\* Directives without approval rows are being signed, or a start was cut short.
UnsignedInv ==
    /\ \E c \in SeedCodes["directives"] : row[c] # "absent"
    /\ ~approvals /\ phase # "approvals"
    => faults > 0

StartInv == TypeOK /\ SeededInOrder /\ PassedInv /\ UnsignedInv

-----------------------------------------------------------------------------
(* The order of the tables.                                                *)

\* The tables are numbered from 1, each has its place, and their codes are
\* among all codes.
LEMMA Numbered ==
    /\ Len(Tables) \in Nat /\ Len(Tables) >= 1 /\ DOMAIN Tables = 1..Len(Tables)
    /\ \A i \in DOMAIN Tables : /\ Tables[i] \in TableSet /\ Tables[i] \notin Phases
                                /\ SeedCodes[Tables[i]] \subseteq Codes
    /\ \A t \in TableSet : \E i \in DOMAIN Tables : t = Tables[i]
<1>1. /\ Len(Tables) \in Nat /\ DOMAIN Tables = 1..Len(Tables) /\ Tables # <<>>
  BY StartupAssumption DEF StartupAssumption
<1>2. Len(Tables) >= 1
  BY <1>1, StartupAssumption DEF StartupAssumption
<1>3. TableSet = {Tables[i] : i \in DOMAIN Tables}
  BY DEF TableSet, ToSet
<1>4. TableSet \cap Phases = {}
  BY StartupAssumption DEF StartupAssumption
<1>. QED
  BY <1>1, <1>2, <1>3, <1>4 DEF Codes

\* After a table comes the next, after the last Redis or the service.
LEMMA Successor ==
    ASSUME NEW i \in DOMAIN Tables
    PROVE  /\ Position(Tables[i]) = i
           /\ i < Len(Tables) => i + 1 \in DOMAIN Tables /\ After(Tables[i]) = Tables[i + 1]
           /\ ~(i < Len(Tables)) => /\ After(Tables[i]) \in {"redis", "serving"}
                                    /\ i = Len(Tables)
<1>1. \A j \in DOMAIN Tables : Tables[j] = Tables[i] => j = i
  BY StartupAssumption DEF StartupAssumption
<1>2. Position(Tables[i]) = i
  BY <1>1 DEF Position
<1>. QED
  BY <1>2, Numbered DEF After

\* The directives have their place.
LEMMA DirectivesPlace ==
    /\ Position("directives") \in DOMAIN Tables
    /\ Tables[Position("directives")] = "directives"
<1>1. PICK i \in DOMAIN Tables : "directives" = Tables[i]
  BY Numbered, StartupAssumption DEF StartupAssumption
<1>. QED
  BY <1>1, Successor

\* What was seeded stays so while rows stay.
LEMMA SeededStays ==
    ASSUME RowsStay, NEW i \in DOMAIN Tables, Seeded(i)
    PROVE  Seeded(i)'
BY Numbered DEF RowsStay, Seeded

-----------------------------------------------------------------------------
(* Steps that insert nothing.                                              *)

\* No row is inserted.
SameRows == \A c \in Codes : row'[c] # "absent" <=> row[c] # "absent"

\* The order and the signatures are not touched by a step that inserts nothing,
\* and what it has come to by then is all that is left to show.
LEMMA NothingInserted ==
    ASSUME StartInv, SameRows, TypeOK', approvals' = approvals, faults' = faults,
           phase # "approvals"
    PROVE  SeededInOrder' /\ UnsignedInv' /\ RowsStay
<1>1. RowsStay
  BY DEF SameRows, RowsStay
<1>2. SeededInOrder'
  <2>. SUFFICES ASSUME NEW i \in DOMAIN Tables, NEW c \in SeedCodes[Tables[i]],
                       row'[c] # "absent", NEW j \in 1..i, NEW d \in SeedCodes[Tables[j]]
                PROVE  row'[d] # "absent"
    BY DEF SeededInOrder
  <2>1. j \in DOMAIN Tables /\ c \in Codes /\ d \in Codes
    BY Numbered
  <2>2. row[c] # "absent"
    BY <2>1 DEF SameRows
  <2>3. row[d] # "absent"
    BY <2>2 DEF StartInv, SeededInOrder
  <2>. QED
    BY <2>1, <2>3 DEF SameRows
<1>3. UnsignedInv'
  <2>. SUFFICES ASSUME NEW c \in SeedCodes["directives"], row'[c] # "absent", ~approvals
                PROVE  faults > 0
    BY DEF UnsignedInv
  <2>1. c \in Codes
    BY Numbered, DirectivesPlace
  <2>. QED
    BY <2>1 DEF SameRows, StartInv, UnsignedInv
<1>. QED
  BY <1>1, <1>2, <1>3

\* A process that is at no table, and at nothing that comes after them, has
\* passed what it had passed.
LEMMA BackToStart ==
    ASSUME StartInv, RowsStay, phase' \in Ended \cup {"connect", "migrate"},
           others' = others
    PROVE  PassedInv'
<1>1. \A i \in DOMAIN Tables : phase' # Tables[i]
  BY Numbered DEF Phases, Ended
<1>2. others # {} => \A i \in DOMAIN Tables : Seeded(i)'
  BY SeededStays DEF StartInv, PassedInv
<1>. QED
  BY <1>1, <1>2 DEF PassedInv, Ended

\* A start that has the rows of a table goes on to the next, or to what comes
\* after the last.
LEMMA OneFurther ==
    ASSUME StartInv, NEW i \in DOMAIN Tables, \A j \in 1..i : Seeded(j)',
           phase' = After(Tables[i]), others' = others, RowsStay
    PROVE  PassedInv' /\ phase' \in Phases \cup TableSet /\ phase' # "approvals"
<1>1. i \in 1..Len(Tables) /\ Len(Tables) \in Nat
  BY Numbered
<1>2. others # {} => \A k \in DOMAIN Tables : Seeded(k)'
  BY SeededStays DEF StartInv, PassedInv
<1>3. CASE i < Len(Tables)
  <2>1. i + 1 \in DOMAIN Tables /\ phase' = Tables[i + 1]
    BY <1>3, Successor
  <2>2. phase' \in TableSet /\ phase' \notin Phases
    BY <2>1, Numbered
  <2>3. \A k \in DOMAIN Tables : phase' = Tables[k] => k = i + 1
    BY <2>1, StartupAssumption DEF StartupAssumption
  <2>4. ASSUME NEW k \in DOMAIN Tables, phase' = Tables[k]
        PROVE  \A j \in 1..(k - 1) : Seeded(j)'
    <3>1. k - 1 = i
      BY <1>1, <2>3, <2>4
    <3>. QED
      BY <3>1
  <2>5. phase' \notin {"approvals", "redis", "serving", "stopping"}
    BY <2>2 DEF Phases, Ended
  <2>. QED
    BY <1>2, <2>2, <2>4, <2>5 DEF PassedInv
<1>4. CASE ~(i < Len(Tables))
  <2>1. phase' \in {"redis", "serving"} /\ i = Len(Tables)
    BY <1>4, Successor
  <2>2. \A k \in DOMAIN Tables : Seeded(k)'
    BY <2>1, Numbered
  <2>3. \A k \in DOMAIN Tables : phase' # Tables[k]
    BY <2>1, Numbered DEF Phases, Ended
  <2>. QED
    BY <2>1, <2>2, <2>3 DEF PassedInv, Phases, Ended
<1>. QED
  BY <1>3, <1>4

\* Connecting, migrating, the end of a start and of the process.
LEMMA ConnectKeeps ==
    ASSUME StartInv,
           \/ Start \/ Connected \/ ConnectFails \/ ConnectLate \/ Stopped
           \/ RedisSilent \/ \E t \in TableSet : SeedRefused(t)
    PROVE  StartInv'
<1>1. /\ row' = row /\ others' = others /\ approvals' = approvals /\ faults' = faults
      /\ phase' \in Ended \cup {"connect", "migrate"} /\ phase # "approvals"
      /\ attempt' \in 1..Attempts
  <2>1. attempt \in 1..Attempts /\ Attempts \in Nat \ {0}
    BY StartupAssumption DEF StartInv, TypeOK, StartupAssumption
  <2>2. ASSUME NEW t \in TableSet, SeedRefused(t)
        PROVE  t # "approvals"
    BY StartupAssumption DEF StartupAssumption, Phases, Ended
  <2>. QED
    BY <2>1, <2>2
       DEF Start, Connected, ConnectFails, ConnectLate, Stopped, RedisSilent, SeedRefused,
           NextAttempt, Proceeds, data, Ended
<1>2. TypeOK'
  BY <1>1 DEF StartInv, TypeOK, Phases, Ended
<1>3. SameRows
  BY <1>1 DEF SameRows
<1>4. SeededInOrder' /\ UnsignedInv' /\ RowsStay
  BY <1>1, <1>2, <1>3, NothingInserted
<1>5. PassedInv'
  BY <1>1, <1>4, BackToStart
<1>. QED
  BY <1>2, <1>4, <1>5 DEF StartInv

\* The first table is come to when none has to be passed.
LEMMA MigrateKeeps ==
    ASSUME StartInv, Migrate
    PROVE  StartInv'
<1>1. /\ phase = "migrate" /\ phase' = Tables[1]
      /\ row' = row /\ others' = others /\ approvals' = approvals /\ faults' = faults
      /\ attempt' = attempt
  BY DEF Migrate, Proceeds, data
<1>2. 1 \in DOMAIN Tables /\ phase' \in TableSet /\ phase' \notin Phases
  BY <1>1, Numbered
<1>3. TypeOK'
  BY <1>1, <1>2 DEF StartInv, TypeOK
<1>4. SameRows
  BY <1>1 DEF SameRows
<1>5. SeededInOrder' /\ UnsignedInv' /\ RowsStay
  BY <1>1, <1>3, <1>4, NothingInserted
<1>6. ASSUME NEW i \in DOMAIN Tables, phase' = Tables[i]
      PROVE  \A j \in 1..(i - 1) : Seeded(j)'
  <2>1. i = 1
    BY <1>1, <1>2, <1>6, StartupAssumption DEF StartupAssumption
  <2>. QED
    BY <2>1
<1>7. phase' \notin {"approvals", "redis", "serving", "stopping"}
  BY <1>2 DEF Phases, Ended
<1>8. others # {} => \A i \in DOMAIN Tables : Seeded(i)'
  BY <1>5, SeededStays DEF StartInv, PassedInv
<1>9. PassedInv'
  BY <1>1, <1>6, <1>7, <1>8 DEF PassedInv
<1>. QED
  BY <1>3, <1>5, <1>9 DEF StartInv

\* A table is skipped when it has a live row: then it was seeded, by this start
\* or by one before, whoever made the row.
LEMMA SkipKeeps ==
    ASSUME StartInv, NEW t \in TableSet, SeedSkipped(t)
    PROVE  StartInv'
<1>1. /\ phase = t /\ Counted(t) /\ phase' = After(t)
      /\ row' = row /\ others' = others /\ approvals' = approvals /\ faults' = faults
      /\ attempt' = attempt
  BY DEF SeedSkipped, Proceeds, data
<1>2. PICK i \in DOMAIN Tables : t = Tables[i]
  BY Numbered
<1>3. \A j \in 1..i : Seeded(j)
  <2>1. CASE t \in others
    <3>1. \A j \in DOMAIN Tables : Seeded(j)
      BY <2>1 DEF StartInv, PassedInv
    <3>. QED
      BY <3>1, Numbered
  <2>2. CASE \E c \in SeedCodes[t] : Present(c)
    <3>1. PICK c \in SeedCodes[Tables[i]] : row[c] # "absent"
      BY <1>2, <2>2 DEF Present
    <3>. QED
      BY <3>1 DEF StartInv, SeededInOrder, Seeded
  <2>. QED
    BY <1>1, <2>1, <2>2 DEF Counted
<1>4. SameRows /\ RowsStay
  BY <1>1 DEF SameRows, RowsStay
<1>5. \A j \in 1..i : Seeded(j)'
  BY <1>2, <1>3, <1>4, SeededStays, Numbered
<1>6. PassedInv' /\ phase' \in Phases \cup TableSet
  BY <1>1, <1>2, <1>4, <1>5, OneFurther
<1>7. TypeOK'
  BY <1>1, <1>6 DEF StartInv, TypeOK
<1>8. phase # "approvals"
  BY <1>1, StartupAssumption DEF StartupAssumption, Phases, Ended
<1>9. SeededInOrder' /\ UnsignedInv'
  BY <1>1, <1>4, <1>7, <1>8, NothingInserted
<1>. QED
  BY <1>6, <1>7, <1>9 DEF StartInv

\* While the service runs, or Redis is asked, all tables have been passed.
LEMMA ServingKeeps ==
    ASSUME StartInv,
           RedisAnswers \/ Settle \/ DeleteSeed \/ CreateOther \/ DeleteOther \/ Stop
    PROVE  StartInv'
<1>1. /\ phase \in {"redis", "serving", "stopping"} /\ phase' \in {"serving", "stopping"}
      /\ approvals' = approvals /\ faults' = faults /\ attempt' = attempt
      /\ others' \subseteq TableSet
  BY DEF RedisAnswers, Settle, DeleteSeed, CreateOther, DeleteOther, Stop, Serving,
         Proceeds, data, StartInv, TypeOK, Editable
<1>2. row' \in [Codes -> {"absent", "live", "settled", "deleted"}] /\ SameRows
  BY DEF RedisAnswers, Settle, DeleteSeed, CreateOther, DeleteOther, Stop, Present,
         Proceeds, data, StartInv, TypeOK, SameRows
<1>3. TypeOK'
  BY <1>1, <1>2 DEF StartInv, TypeOK, Phases, Ended
<1>4. SeededInOrder' /\ UnsignedInv' /\ RowsStay
  BY <1>1, <1>2, <1>3, NothingInserted
<1>5. \A i \in DOMAIN Tables : Seeded(i)'
  BY <1>1, <1>4, SeededStays DEF StartInv, PassedInv
<1>6. \A i \in DOMAIN Tables : phase' # Tables[i]
  BY <1>1, Numbered DEF Phases, Ended
<1>7. PassedInv'
  BY <1>1, <1>5, <1>6 DEF PassedInv
<1>. QED
  BY <1>3, <1>4, <1>7 DEF StartInv

-----------------------------------------------------------------------------
(* Steps that insert, and faults.                                          *)

\* A table is seeded after those it builds on, with all its rows.
LEMMA SeedKeeps ==
    ASSUME StartInv, NEW t \in TableSet, Seed(t)
    PROVE  StartInv'
<1>1. /\ phase = t /\ row' = WithSeeds(SeedCodes[t])
      /\ phase' = IF t = "directives" THEN "approvals" ELSE After(t)
      /\ others' = others /\ approvals' = approvals /\ faults' = faults
      /\ attempt' = attempt
  BY DEF Seed
<1>2. PICK i \in DOMAIN Tables : t = Tables[i]
  BY Numbered
<1>3. /\ row' \in [Codes -> {"absent", "live", "settled", "deleted"}]
      /\ \A c \in Codes : row'[c] = IF c \in SeedCodes[t] THEN Inserted(c) ELSE row[c]
      /\ \A c \in Codes : Inserted(c) # "absent"
  BY <1>1 DEF WithSeeds, Inserted, StartInv, TypeOK
<1>4. RowsStay
  BY <1>3 DEF RowsStay
<1>5. SeedCodes[t] \subseteq Codes
  BY <1>2, Numbered
<1>6. Seeded(i)'
  BY <1>2, <1>3, <1>5 DEF Seeded
<1>7. \A j \in 1..i : Seeded(j)'
  <2>. SUFFICES ASSUME NEW j \in 1..i PROVE Seeded(j)'
    OBVIOUS
  <2>1. j \in DOMAIN Tables
    BY Numbered
  <2>2. CASE j = i
    BY <1>6, <2>2
  <2>3. CASE j # i
    <3>1. j \in 1..(i - 1)
      BY <2>3, Numbered
    <3>2. Seeded(j)
      BY <1>1, <1>2, <3>1 DEF StartInv, PassedInv
    <3>. QED
      BY <1>4, <2>1, <3>2, SeededStays
  <2>. QED
    BY <2>2, <2>3
<1>8. PassedInv' /\ phase' \in Phases \cup TableSet
  <2>1. CASE t = "directives"
    <3>1. i = Position("directives") /\ phase' = "approvals"
      BY <1>1, <1>2, <2>1, Successor
    <3>2. \A j \in DOMAIN Tables : phase' # Tables[j]
      BY <3>1, Numbered DEF Phases, Ended
    <3>3. others # {} => \A j \in DOMAIN Tables : Seeded(j)'
      BY <1>4, SeededStays DEF StartInv, PassedInv
    <3>. QED
      BY <1>1, <1>7, <3>1, <3>2, <3>3 DEF PassedInv, Phases, Ended
  <2>2. CASE t # "directives"
    BY <1>1, <1>2, <1>4, <1>7, <2>2, OneFurther
  <2>. QED
    BY <2>1, <2>2
<1>9. TypeOK'
  BY <1>1, <1>3, <1>8 DEF StartInv, TypeOK
<1>10. SeededInOrder'
  <2>. SUFFICES ASSUME NEW k \in DOMAIN Tables, NEW c \in SeedCodes[Tables[k]],
                       row'[c] # "absent", NEW j \in 1..k, NEW d \in SeedCodes[Tables[j]]
                PROVE  row'[d] # "absent"
    BY DEF SeededInOrder
  <2>1. j \in DOMAIN Tables /\ c \in Codes /\ d \in Codes
    BY Numbered
  <2>2. CASE row[c] # "absent"
    <3>1. row[d] # "absent"
      BY <2>2 DEF StartInv, SeededInOrder
    <3>. QED
      BY <1>4, <2>1, <3>1 DEF RowsStay
  <2>3. CASE row[c] = "absent"
    <3>1. c \in SeedCodes[Tables[i]]
      BY <1>2, <1>3, <2>1, <2>3
    <3>2. k = i
      BY <3>1, StartupAssumption DEF StartupAssumption
    <3>. QED
      BY <1>7, <3>2 DEF Seeded
  <2>. QED
    BY <2>2, <2>3
<1>11. UnsignedInv'
  <2>1. CASE t = "directives"
    BY <1>1, <2>1 DEF UnsignedInv
  <2>2. CASE t # "directives"
    <3>1. ASSUME NEW c \in SeedCodes["directives"]
          PROVE  c \in Codes /\ c \notin SeedCodes[t]
      <4>1. PICK p \in DOMAIN Tables : Tables[p] = "directives"
        BY DirectivesPlace
      <4>2. p # i
        BY <1>2, <2>2, <4>1
      <4>. QED
        BY <1>2, <4>1, <4>2, Numbered, StartupAssumption DEF StartupAssumption
    <3>2. phase # "approvals"
      BY <1>1, StartupAssumption DEF StartupAssumption, Phases, Ended
    <3>3. ASSUME NEW c \in SeedCodes["directives"], row'[c] # "absent", ~approvals
          PROVE  faults > 0
      BY <1>3, <3>1, <3>2, <3>3 DEF StartInv, UnsignedInv
    <3>. QED
      BY <1>1, <3>3 DEF UnsignedInv
  <2>. QED
    BY <2>1, <2>2
<1>. QED
  BY <1>8, <1>9, <1>10, <1>11 DEF StartInv

\* The directives get their approval rows, once.
LEMMA ApprovalsKeep ==
    ASSUME StartInv, SeedApprovals
    PROVE  StartInv'
<1>. DEFINE i == Position("directives")
<1>1. /\ phase = "approvals" /\ approvals' = TRUE /\ phase' = After("directives")
      /\ row' = row /\ others' = others /\ faults' = faults /\ attempt' = attempt
  BY DEF SeedApprovals
<1>2. i \in DOMAIN Tables /\ Tables[i] = "directives"
  BY DirectivesPlace
<1>3. RowsStay
  BY <1>1 DEF RowsStay
<1>4. \A j \in 1..i : Seeded(j)
  BY <1>1 DEF StartInv, PassedInv
<1>. HIDE DEF i
<1>5. \A j \in 1..i : Seeded(j)'
  BY <1>2, <1>3, <1>4, SeededStays, Numbered
<1>6. PassedInv' /\ phase' \in Phases \cup TableSet
  BY <1>1, <1>2, <1>3, <1>5, OneFurther
<1>7. TypeOK'
  BY <1>1, <1>6 DEF StartInv, TypeOK
<1>8. SeededInOrder'
  BY <1>1 DEF StartInv, SeededInOrder
<1>9. UnsignedInv'
  BY <1>1 DEF UnsignedInv
<1>. QED
  BY <1>6, <1>7, <1>8, <1>9 DEF StartInv

\* A fault leaves what was committed; what is unsigned from now on is so for it.
LEMMA FaultKeeps ==
    ASSUME StartInv, Fault
    PROVE  StartInv'
<1>1. /\ phase' \in Ended /\ faults' = faults + 1 /\ faults < MaxFaults
      /\ row' = row /\ others' = others /\ approvals' = approvals /\ attempt' = attempt
  BY DEF Fault, data
<1>2. faults \in Nat /\ faults' \in 0..MaxFaults /\ faults' > 0
  BY <1>1, StartupAssumption DEF StartInv, TypeOK, StartupAssumption
<1>3. TypeOK'
  BY <1>1, <1>2 DEF StartInv, TypeOK, Phases, Ended
<1>4. SeededInOrder'
  BY <1>1 DEF StartInv, SeededInOrder
<1>5. RowsStay
  BY <1>1 DEF RowsStay
<1>6. PassedInv'
  BY <1>1, <1>5, BackToStart
<1>7. UnsignedInv'
  BY <1>2 DEF UnsignedInv
<1>. QED
  BY <1>3, <1>4, <1>6, <1>7 DEF StartInv

-----------------------------------------------------------------------------

\* Nothing is seeded before the first start.
LEMMA InitStart == Init => StartInv
<1>. SUFFICES ASSUME Init PROVE StartInv
  OBVIOUS
<1>1. TypeOK
  <2>1. 1 \in 1..Attempts /\ 0 \in 0..MaxFaults
    BY StartupAssumption DEF StartupAssumption
  <2>2. row \in [Codes -> {"absent", "live", "settled", "deleted"}]
    BY DEF Init
  <2>3. phase \in Phases /\ others \subseteq TableSet /\ approvals \in BOOLEAN
    BY DEF Init, Phases, Ended
  <2>. QED
    BY <2>1, <2>2, <2>3 DEF Init, TypeOK
<1>2. \A i \in DOMAIN Tables : \A c \in SeedCodes[Tables[i]] : row[c] = "absent"
  BY Numbered DEF Init
<1>3. SeededInOrder
  BY <1>2 DEF SeededInOrder
<1>4. \A i \in DOMAIN Tables : phase # Tables[i]
  BY Numbered DEF Init, Phases, Ended
<1>5. PassedInv
  BY <1>4 DEF Init, PassedInv
<1>6. UnsignedInv
  BY <1>2, DirectivesPlace DEF UnsignedInv
<1>. QED
  BY <1>1, <1>3, <1>5, <1>6 DEF StartInv

\* Every step keeps the invariant.
LEMMA NextStart ==
    ASSUME StartInv, [Next]_vars
    PROVE  StartInv'
<1>1. CASE UNCHANGED vars
  BY <1>1 DEF vars, StartInv, TypeOK, SeededInOrder, PassedInv, UnsignedInv, Seeded
<1>2. CASE StartStep
  BY <1>2, ConnectKeeps, MigrateKeeps, SkipKeeps, SeedKeeps, ApprovalsKeep, ServingKeeps
     DEF StartStep
<1>. QED
  BY <1>1, <1>2, ConnectKeeps, ServingKeeps, FaultKeeps DEF Next

\* The invariant holds for ever.
LEMMA StartInvariance == Spec => []StartInv
<1>. QED
  BY InitStart, NextStart, PTL DEF Spec

\* Phases, attempts, rows and faults stay in their ranges: no start makes more
\* than Attempts attempts to connect.
THEOREM TypeCorrectness == Spec => []TypeOK
<1>1. StartInv => TypeOK
  BY DEF StartInv
<1>. QED
  BY <1>1, StartInvariance, PTL

\* Wherever starts are cut short, and however often, a table is seeded whole and
\* after those it builds on (database.go 117-133).
THEOREM SeedingOrdered == Spec => []SeededInOrder
<1>1. StartInv => SeededInOrder
  BY DEF StartInv
<1>. QED
  BY <1>1, StartInvariance, PTL

\* When the service runs and no start was ever cut short, the directives have
\* their approval rows (database.go 215-226).
THEOREM SignedUnlessFault == Spec => []UnsignedOnlyAfterFault
<1>1. ASSUME StartInv PROVE UnsignedOnlyAfterFault
  <2>. SUFFICES ASSUME Serving, ~approvals PROVE faults > 0
    BY DEF UnsignedOnlyAfterFault
  <2>1. PICK c \in SeedCodes["directives"] : TRUE
    BY StartupAssumption DEF StartupAssumption
  <2>2. Seeded(Position("directives"))
    BY <1>1, DirectivesPlace DEF StartInv, PassedInv, Serving
  <2>3. row[c] # "absent"
    BY <2>1, <2>2, DirectivesPlace DEF Seeded
  <2>. QED
    BY <1>1, <2>3 DEF StartInv, UnsignedInv, Serving
<1>. QED
  BY <1>1, StartInvariance, PTL

\* Seeding happens once (database.go 138): no start brings a deleted row back or
\* puts one back to the state it was seeded in.
THEOREM SeededOnce == Spec => NeverReseeded
<1>1. ASSUME StartInv, [Next]_vars, NEW c \in Codes
      PROVE  /\ row[c] = "deleted" => row'[c] = "deleted"
             /\ row[c] = "settled" => row'[c] \in {"settled", "deleted"}
  <2>1. CASE row' = row
    BY <2>1
  <2>2. ASSUME NEW t \in TableSet, Seed(t)
        PROVE  /\ row[c] = "deleted" => row'[c] = "deleted"
               /\ row[c] = "settled" => row'[c] \in {"settled", "deleted"}
    <3>1. row'[c] = IF c \in SeedCodes[t] THEN Inserted(c) ELSE row[c]
      BY <2>2 DEF Seed, WithSeeds
    <3>2. c \in SeedCodes[t] => row[c] = "absent"
      BY <2>2 DEF Seed
    <3>. QED
      BY <3>1, <3>2
  <2>3. CASE Settle \/ DeleteSeed
    BY <1>1, <2>3 DEF Settle, DeleteSeed, Present, StartInv, TypeOK
  <2>. QED
    BY <1>1, <2>1, <2>2, <2>3
       DEF Next, vars, StartStep, Start, Connected, ConnectFails, ConnectLate, NextAttempt,
           Migrate, SeedSkipped, SeedRefused, SeedApprovals, RedisAnswers, RedisSilent,
           CreateOther, DeleteOther, Stop, Stopped, Fault, Proceeds, data
<1>2. StartInv /\ [Next]_vars =>
        [\A c \in Codes : /\ row[c] = "deleted" => row'[c] = "deleted"
                          /\ row[c] = "settled" => row'[c] \in {"settled", "deleted"}]_vars
  BY <1>1
<1>. QED
  BY <1>2, StartInvariance, PTL DEF Spec, NeverReseeded
=============================================================================
