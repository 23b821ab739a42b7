------------------------------- MODULE Startup -------------------------------
(***************************************************************************)
(* The process from its start to its end: connecting, seeding, serving,    *)
(* stopping; killed at any point, and started again over the tables it has *)
(* left.  A table is seeded when it has no live row, by one insertion; the *)
(* unique index on the codes sees the soft-deleted rows too.               *)
(*                                                                         *)
(* External: the database and Redis answer or do not; a process that has   *)
(* ended by itself is started again, one that was ordered to stop need not *)
(* be.                                                                     *)
(***************************************************************************)
EXTENDS Integers, SequencesExt

CONSTANTS Tables,      \* the tables, in the order in which they are seeded
          SeedCodes,   \* table -> the codes of its seed rows
          Governed,    \* tables whose rows are deleted in any status
          Drafts,      \* seed codes inserted in a status that allows deletion
          WithRedis,   \* whether a Redis address is configured
          Attempts,    \* connection attempts of one start
          MaxFaults    \* bound: kills and failed statements

TableSet == ToSet(Tables)
Codes == UNION {SeedCodes[t] : t \in TableSet}

\* The phases in which the process is at no table.
Ended == {"down", "stopped"}
Phases == Ended \cup {"connect", "migrate", "approvals", "redis", "serving",
                    "stopping"}

ASSUME StartupAssumption ==
    /\ Tables \in Seq(STRING) /\ Tables # <<>>
    /\ \A i, j \in DOMAIN Tables :
           i # j => /\ Tables[i] # Tables[j]
                    /\ SeedCodes[Tables[i]] \cap SeedCodes[Tables[j]] = {}
    /\ TableSet \cap Phases = {}
    /\ "directives" \in TableSet /\ SeedCodes["directives"] # {}
    /\ WithRedis \in BOOLEAN /\ Attempts \in Nat \ {0} /\ MaxFaults \in Nat

VARIABLES phase,       \* "down" when the process has ended, "stopped" by order
          attempt,     \* of the connection
          row,         \* seed code -> its row
          others,      \* the tables with a live row of the users' own
          approvals,   \* the approval rows of the seeded directives are there
          faults

vars == <<phase, attempt, row, others, approvals, faults>>
data == <<row, others, approvals>>

Init ==
    /\ phase = "down"
    /\ attempt = 1
    /\ row = [c \in Codes |-> "absent"]
    /\ others = {}
    /\ approvals = FALSE
    /\ faults = 0

Position(t) == CHOOSE i \in DOMAIN Tables : Tables[i] = t
After(t) == IF Position(t) < Len(Tables) THEN Tables[Position(t) + 1]
            ELSE IF WithRedis THEN "redis" ELSE "serving"

Proceeds(p) == phase' = p /\ UNCHANGED <<attempt, data, faults>>

-----------------------------------------------------------------------------
(* Connecting.                                                             *)

Start == /\ phase \in Ended
         /\ phase' = "connect" /\ attempt' = 1
         /\ UNCHANGED <<data, faults>>

Connected == phase = "connect" /\ Proceeds("migrate")

NextAttempt == /\ attempt < Attempts
               /\ attempt' = attempt + 1
               /\ UNCHANGED <<phase, data, faults>>

\* The database cannot be opened, or neither ping is answered.  (Faulty
\* variants: one attempt too many; no limit.)
ConnectFailsOnceMore == /\ phase = "connect"
                        /\ IF attempt <= Attempts
                           THEN attempt' = attempt + 1 /\ UNCHANGED <<phase, data, faults>>
                           ELSE Proceeds("down")
ConnectFailsForEver == phase = "connect" /\ UNCHANGED <<phase, data, faults>>
                       /\ attempt' = (attempt % Attempts) + 1

ConnectFails == /\ phase = "connect"
                /\ NextAttempt \/ (attempt = Attempts /\ Proceeds("down"))

\* The first ping failed and the second, made for its error, did not: the loop
\* goes on with no error, and ends with none if this was the last attempt.
ConnectLate == /\ phase = "connect"
               /\ NextAttempt \/ (attempt = Attempts /\ Proceeds("migrate"))

Migrate == phase = "migrate" /\ Proceeds(Tables[1])

-----------------------------------------------------------------------------
(* Seeding.                                                                *)

Present(c) == row[c] \in {"live", "settled"}
\* A table is counted by its live rows.  (Faulty variant: by its seed rows.)
CountedSeeds(t) == \E c \in SeedCodes[t] : Present(c)
Counted(t) == t \in others \/ \E c \in SeedCodes[t] : Present(c)

Inserted(c) == IF c \in Drafts THEN "live" ELSE "settled"
WithSeeds(S) == [c \in Codes |-> IF c \in S THEN Inserted(c) ELSE row[c]]

SeedSkipped(t) == phase = t /\ Counted(t) /\ Proceeds(After(t))

\* One statement inserts all rows of the table.  (Faulty variants: the rows of
\* the next table first; rows that exist are written over; the approval rows
\* are left out.)
SeedOutOfOrder(t) ==
    /\ phase = t /\ ~Counted(t)
    /\ \A c \in SeedCodes[t] : row[c] = "absent"
    /\ row' = WithSeeds(IF After(t) \in TableSet THEN SeedCodes[After(t)] ELSE SeedCodes[t])
    /\ phase' = IF t = "directives" THEN "approvals" ELSE After(t)
    /\ UNCHANGED <<attempt, others, approvals, faults>>
SeedUpserted(t) ==
    /\ phase = t /\ ~Counted(t)
    /\ row' = WithSeeds(SeedCodes[t])
    /\ phase' = IF t = "directives" THEN "approvals" ELSE After(t)
    /\ UNCHANGED <<attempt, others, approvals, faults>>

SeedUnsigned(t) ==
    /\ phase = t /\ ~Counted(t)
    /\ \A c \in SeedCodes[t] : row[c] = "absent"
    /\ row' = WithSeeds(SeedCodes[t]) /\ phase' = After(t)
    /\ UNCHANGED <<attempt, others, approvals, faults>>

Seed(t) ==
    /\ phase = t /\ ~Counted(t)
    /\ \A c \in SeedCodes[t] : row[c] = "absent"
    /\ row' = WithSeeds(SeedCodes[t])
    /\ phase' = IF t = "directives" THEN "approvals" ELSE After(t)
    /\ UNCHANGED <<attempt, others, approvals, faults>>

\* A soft-deleted row has the code: the process ends.
SeedRefused(t) == /\ phase = t /\ ~Counted(t)
                  /\ \E c \in SeedCodes[t] : row[c] # "absent"
                  /\ Proceeds("down")

\* The approval rows are a second insertion, of the same start.
SeedApprovals == /\ phase = "approvals"
                 /\ approvals' = TRUE /\ phase' = After("directives")
                 /\ UNCHANGED <<attempt, row, others, faults>>

RedisAnswers == phase = "redis" /\ Proceeds("serving")
RedisSilent == phase = "redis" /\ Proceeds("down")

-----------------------------------------------------------------------------
(* Serving; and stopping, while the requests in flight are waited for.     *)

Serving == phase \in {"serving", "stopping"}

\* There is no operation on accounts.
Editable == TableSet \ {"users"}

\* A seed row leaves the status that allows its deletion, or is deleted.
Settle == /\ Serving
          /\ \E c \in Codes : row[c] = "live" /\ row' = [row EXCEPT ![c] = "settled"]
          /\ UNCHANGED <<phase, attempt, others, approvals, faults>>

DeleteSeed == /\ Serving
              /\ \E t \in TableSet : \E c \in SeedCodes[t] :
                     /\ row[c] = "live" \/ (t \in Governed /\ Present(c))
                     /\ row' = [row EXCEPT ![c] = "deleted"]
              /\ UNCHANGED <<phase, attempt, others, approvals, faults>>

CreateOther == /\ Serving
               /\ \E t \in Editable \ others : others' = others \cup {t}
               /\ UNCHANGED <<phase, attempt, row, approvals, faults>>

DeleteOther == /\ Serving
               /\ \E t \in others : others' = others \ {t}
               /\ UNCHANGED <<phase, attempt, row, approvals, faults>>

Stop == phase = "serving" /\ Proceeds("stopping")
Stopped == phase = "stopping" /\ Proceeds("stopped")

\* A statement fails, the start takes too long, the port is taken, or the
\* process is killed, perhaps by order: whatever was committed stays.
Fault == /\ phase \notin Ended /\ faults < MaxFaults
         /\ phase' \in Ended /\ faults' = faults + 1
         /\ UNCHANGED <<attempt, data>>

StartStep ==
    \/ Connected \/ ConnectFails \/ ConnectLate \/ Migrate
    \/ \E t \in TableSet : SeedSkipped(t) \/ Seed(t) \/ SeedRefused(t)
    \/ SeedApprovals \/ RedisAnswers \/ RedisSilent

Next == \/ Start \/ StartStep
        \/ Settle \/ DeleteSeed \/ CreateOther \/ DeleteOther
        \/ Stop \/ Stopped \/ Fault

Spec == Init /\ [][Next]_vars

\* A start goes on; a process is started again unless it was ordered to stop.
Restart == phase = "down" /\ Start
FairSpec == Spec /\ WF_vars(StartStep) /\ WF_vars(Restart) /\ WF_vars(Stopped)

\* What is tried again and again is reached in the end.
Healthy == SF_vars(Connected) /\ SF_vars(RedisAnswers)
-----------------------------------------------------------------------------
TypeOK ==
    /\ phase \in Phases \cup TableSet
    /\ attempt \in 1..Attempts
    /\ row \in [Codes -> {"absent", "live", "settled", "deleted"}]
    /\ others \subseteq TableSet
    /\ approvals \in BOOLEAN
    /\ faults \in 0..MaxFaults

\* database.go 117-133: wherever a start is cut short, a table that was seeded
\* stands on tables that were: a gate on its reservoirs, a directive on its
\* gates, a receipt on its directive; and a table has all its seed rows or none.
SeededInOrder ==
    \A i \in DOMAIN Tables : \A c \in SeedCodes[Tables[i]] :
        row[c] # "absent" =>
            \A j \in 1..i : \A d \in SeedCodes[Tables[j]] : row[d] # "absent"

\* database.go 138: seeding happens once: no restart brings back a row that was
\* deleted or puts a row back to the state it was seeded in.
NeverReseeded ==
    [][\A c \in Codes : /\ row[c] = "deleted" => row'[c] = "deleted"
                        /\ row[c] = "settled" => row'[c] \in {"settled", "deleted"}]_vars

\* main.go 24-30: a start ends, serving or not, whatever the database does.
StartEnds == (phase \notin Ended) ~> (Serving \/ phase \in Ended)

\* A table whose seed rows are gone and that has no other live row.
Emptied == \E t \in Editable \ others : /\ \A c \in SeedCodes[t] : ~Present(c)
                                        /\ \E c \in SeedCodes[t] : row[c] = "deleted"

\* docker-compose.yml 43, "restart: unless-stopped": killed or failed to start,
\* the service comes back when database and Redis do, unless it is ordered to
\* stop or the users have emptied a table: over an emptied one it never starts.
ServesUnlessEmptied ==
    Healthy => ((phase = "down") ~> (Serving \/ Emptied \/ phase = "stopped"))

\* database.go 215-226, README 45: the seeded directives have their approval rows
\* when the service runs, unless a start was cut short: no later one adds them.
UnsignedOnlyAfterFault == Serving /\ ~approvals => faults > 0
=============================================================================
