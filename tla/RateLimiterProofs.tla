--------------------------- MODULE RateLimiterProofs ---------------------------
(***************************************************************************)
(* Theorems about RateLimiter, for every set of keys and calls, every      *)
(* limit and every number of ticks that meets LimiterAssumption.           *)
(***************************************************************************)
EXTENDS RateLimiter, FiniteSetTheorems, TLAPS

\* A call that waits for Redis with the name of the window before has waited
\* since that window: what it may wait yet is what its patience leaves.
WaitInv ==
    \A c \in Calls : call[c].at = "redis" /\ call[c].age = 1
                         => call[c].left + tick + 1 <= Patience

\* A counter on which something was let through is still there while a call of
\* its window can arrive, and has counted all that was let through.
CounterInv ==
    \A k \in Keys :
        /\ granted[k][0] > 0 =>
               /\ granted[k][0] <= redis[k][0].count
               /\ ExpiryTicks <= redis[k][0].life + tick
        /\ granted[k][1] > 0 /\ tick + WindowTicks < ExpiryTicks =>
               /\ granted[k][1] <= redis[k][1].count
               /\ ExpiryTicks <= redis[k][1].life + tick + WindowTicks

\* What was let through on a bucket of the running window is what it counts,
\* up to the limit; on no other bucket was anything let through.
BucketInv ==
    \A k \in Keys :
        granted0[k] = IF local[k].window # "now" THEN 0
                      ELSE IF local[k].count > Limit THEN Limit ELSE local[k].count

RedisWithinLimit == \A k \in Keys, a \in Ages : granted[k][a] <= Limit

\* Up to the limit a counter counts only what was let through on it and what it
\* counted unheard.
UnheardInv ==
    \A k \in Keys, a \in Ages :
        \/ redis[k][a].count <= granted[k][a] + unheard[k][a]
        \/ granted[k][a] + unheard[k][a] >= Limit

LimitInv == /\ TypeOK /\ WaitInv /\ CounterInv /\ BucketInv /\ RedisWithinLimit
            /\ UnheardInv

\* The constants as numbers.
LEMMA Numbers ==
    /\ Limit \in Nat /\ Limit >= 1 /\ Threshold \in Nat /\ Threshold >= 1
    /\ WindowTicks \in Nat /\ WindowTicks >= 1 /\ ExpiryTicks \in Nat
    /\ Patience \in Nat /\ Patience >= 1 /\ Patience <= WindowTicks
    /\ WindowTicks + Patience <= ExpiryTicks
BY LimiterAssumption DEF LimiterAssumption

\* A call is idle, waits for Redis or goes on with the buckets.
CallRecord == {Idle} \cup [at : {"local"}, key : Keys]
              \cup [at : {"redis"}, key : Keys, age : Ages, left : 0..Patience]

\* A call that waits for Redis has a key, an age and ticks left; one that goes
\* on with the buckets has a key.
LEMMA CallShape ==
    ASSUME NEW r \in CallRecord
    PROVE  /\ r.at \in {"idle", "local", "redis"}
           /\ r.at = "redis" => /\ r.key \in Keys /\ r.age \in {0, 1}
                                /\ r.left \in 0..Patience
                                /\ r \in [at : {"redis"}, key : Keys, age : Ages,
                                          left : 0..Patience]
           /\ r.at = "local" => r.key \in Keys
           /\ r.at = "idle" => r = Idle
BY DEF CallRecord, Idle, Ages

\* One more is never less, stays a count, and is an increase up to the limit.
LEMMA OneMoreCounts ==
    ASSUME NEW n \in Counts
    PROVE  /\ OneMore(n) \in Counts /\ OneMore(n) >= n /\ OneMore(n) >= 1
           /\ OneMore(n) <= Limit => OneMore(n) = n + 1
           /\ OneMore(n) > Limit => n >= Limit
BY Numbers DEF Counts, OneMore

-----------------------------------------------------------------------------
(* Calls that arrive and calls that ask Redis.                             *)

\* A call is made with the name of the running window and all its patience.
LEMMA ArriveKeeps ==
    ASSUME LimitInv, NEW c \in Calls, NEW k \in Keys, Arrive(c, k)
    PROVE  LimitInv'
<1>. DEFINE new == IF WithRedis THEN [at |-> "redis", key |-> k, age |-> 0, left |-> Patience]
                                ELSE [at |-> "local", key |-> k]
<1>1. /\ call' = [call EXCEPT ![c] = new]
      /\ UNCHANGED <<tick, redis, local, granted, unheard, granted0>>
  BY DEF Arrive
<1>2. new \in CallRecord /\ (new.at = "redis" => new.age = 0)
  BY Numbers DEF CallRecord, Ages
<1>. HIDE DEF new
<1>3. call \in [Calls -> CallRecord]
  BY DEF LimitInv, TypeOK, CallRecord
<1>4. TypeOK'
  BY <1>1, <1>2, <1>3 DEF LimitInv, TypeOK, CallRecord
<1>5. WaitInv'
  BY <1>1, <1>2, <1>3 DEF LimitInv, WaitInv
<1>. QED
  BY <1>1, <1>4, <1>5 DEF LimitInv, CounterInv, BucketInv, RedisWithinLimit, UnheardInv

\* A counter that was incremented is as new, and counts one more.
LEMMA IncrementedCounter ==
    ASSUME NEW counter \in [count : Counts, life : 0..ExpiryTicks]
    PROVE  /\ Incremented(counter) \in [count : Counts, life : 0..ExpiryTicks]
           /\ Incremented(counter).count = OneMore(counter.count)
           /\ Incremented(counter).life = ExpiryTicks
BY OneMoreCounts, Numbers DEF Incremented

\* What a call that waits for Redis finds there: while it may still arrive its
\* counter has not expired.
LEMMA CounterThere ==
    ASSUME LimitInv, NEW c \in Calls, call[c].at = "redis"
    PROVE  LET k == call[c].key  a == call[c].age IN
           /\ k \in Keys /\ a \in Ages
           /\ redis[k][a] \in [count : Counts, life : 0..ExpiryTicks]
           /\ granted[k][a] \in Nat /\ granted[k][a] <= Limit
           /\ granted[k][a] <= redis[k][a].count
<1>. DEFINE k == call[c].key
            a == call[c].age
<1>1. call[c] \in CallRecord
  BY DEF LimitInv, TypeOK, CallRecord
<1>2. k \in Keys /\ a \in {0, 1} /\ call[c].left \in 0..Patience
  BY <1>1, CallShape
<1>3. a \in Ages
  BY <1>2 DEF Ages
<1>4. /\ redis[k][a] \in [count : Counts, life : 0..ExpiryTicks]
      /\ granted[k][a] \in Nat /\ granted[k][a] <= Limit
      /\ tick \in 0..(WindowTicks - 1)
  BY <1>2, <1>3 DEF LimitInv, TypeOK, RedisWithinLimit
<1>5. redis[k][a].count \in Counts
  BY <1>4
<1>6. a = 1 => tick + WindowTicks < ExpiryTicks
  <2>. SUFFICES ASSUME a = 1 PROVE tick + WindowTicks < ExpiryTicks
    OBVIOUS
  <2>1. call[c].left + tick + 1 <= Patience
    BY DEF LimitInv, WaitInv
  <2>. QED
    BY <1>2, <1>4, <2>1, Numbers
<1>7. granted[k][a] > 0 => granted[k][a] <= redis[k][a].count
  BY <1>2, <1>6 DEF LimitInv, CounterInv
<1>8. granted[k][a] <= redis[k][a].count
  BY <1>4, <1>5, <1>7, Numbers DEF Counts
<1>. QED
  BY <1>2, <1>3, <1>4, <1>8

\* A counter is incremented and, when it is no more than the limit, a call is
\* let through on it: what was let through stays within what was counted.
LEMMA CountedKeeps ==
    ASSUME LimitInv, NEW k \in Keys, NEW a \in Ages,
           granted[k][a] <= redis[k][a].count,
           redis' = [redis EXCEPT ![k][a] = Incremented(@)],
           \/ granted' = granted
           \/ /\ Incremented(redis[k][a]).count <= Limit
              /\ granted' = [granted EXCEPT ![k][a] = @ + 1],
           tick' = tick
    PROVE  /\ redis' \in [Keys -> [Ages -> [count : Counts, life : 0..ExpiryTicks]]]
           /\ granted' \in [Keys -> [Ages -> Nat]]
           /\ CounterInv' /\ RedisWithinLimit'
<1>. DEFINE old == redis[k][a]
            new == Incremented(old)
<1>1. /\ redis \in [Keys -> [Ages -> [count : Counts, life : 0..ExpiryTicks]]]
      /\ granted \in [Keys -> [Ages -> Nat]] /\ tick \in 0..(WindowTicks - 1)
      /\ CounterInv /\ RedisWithinLimit
  BY DEF LimitInv, TypeOK
<1>2. /\ new \in [count : Counts, life : 0..ExpiryTicks]
      /\ new.count = OneMore(old.count) /\ new.life = ExpiryTicks
  BY <1>1, IncrementedCounter
<1>3. /\ old.count \in Counts /\ new.count >= old.count
      /\ new.count <= Limit => new.count = old.count + 1
  BY <1>1, <1>2, OneMoreCounts
<1>4. redis' = [redis EXCEPT ![k] = [redis[k] EXCEPT ![a] = new]]
  BY <1>1
<1>. HIDE DEF new
<1>5. redis' \in [Keys -> [Ages -> [count : Counts, life : 0..ExpiryTicks]]]
  BY <1>1, <1>2, <1>4
<1>6. /\ redis'[k][a] = new
      /\ \A l \in Keys, b \in Ages : l # k \/ b # a => redis'[l][b] = redis[l][b]
  BY <1>1, <1>4
<1>7. /\ granted' \in [Keys -> [Ages -> Nat]]
      /\ \A l \in Keys, b \in Ages : l # k \/ b # a => granted'[l][b] = granted[l][b]
      /\ granted'[k][a] \in {granted[k][a], granted[k][a] + 1}
      /\ granted'[k][a] # granted[k][a] => new.count <= Limit
  <2>1. CASE granted' = granted
    BY <1>1, <2>1
  <2>2. CASE /\ new.count <= Limit
             /\ granted' = [granted EXCEPT ![k][a] = @ + 1]
    <3>. DEFINE n == granted[k][a] + 1
    <3>1. n \in Nat
      BY <1>1
    <3>2. granted' = [granted EXCEPT ![k] = [granted[k] EXCEPT ![a] = n]]
      BY <1>1, <2>2
    <3>. HIDE DEF n
    <3>3. granted'[k][a] = n
      BY <1>1, <3>2
    <3>. QED
      BY <1>1, <2>2, <3>1, <3>2, <3>3 DEF n
  <2>. QED
    BY <2>1, <2>2 DEF new
<1>8. granted'[k][a] <= new.count /\ granted'[k][a] <= Limit
  <2>1. granted[k][a] \in Nat /\ granted[k][a] <= Limit
    BY <1>1 DEF RedisWithinLimit
  <2>2. old.count \in Nat /\ new.count \in Nat
    BY <1>2, <1>3, Numbers DEF Counts
  <2>3. CASE granted'[k][a] = granted[k][a]
    BY <1>3, <2>1, <2>2, <2>3, Numbers
  <2>4. CASE granted'[k][a] # granted[k][a]
    <3>1. new.count = old.count + 1 /\ new.count <= Limit
      BY <1>3, <1>7, <2>4
    <3>. QED
      BY <1>7, <2>1, <2>2, <2>4, <3>1, Numbers
  <2>. QED
    BY <2>3, <2>4
<1>9. RedisWithinLimit'
  BY <1>1, <1>6, <1>7, <1>8 DEF RedisWithinLimit
<1>10. CounterInv'
  <2>. SUFFICES ASSUME NEW l \in Keys
                PROVE  /\ granted'[l][0] > 0 =>
                              /\ granted'[l][0] <= redis'[l][0].count
                              /\ ExpiryTicks <= redis'[l][0].life + tick
                       /\ granted'[l][1] > 0 /\ tick + WindowTicks < ExpiryTicks =>
                              /\ granted'[l][1] <= redis'[l][1].count
                              /\ ExpiryTicks <= redis'[l][1].life + tick + WindowTicks
    BY DEF CounterInv
  <2>1. ASSUME NEW b \in Ages, l = k, b = a
        PROVE  /\ granted'[l][b] <= redis'[l][b].count
               /\ ExpiryTicks <= redis'[l][b].life + tick
               /\ ExpiryTicks <= redis'[l][b].life + tick + WindowTicks
    BY <1>1, <1>2, <1>6, <1>8, <2>1, Numbers
  <2>2. ASSUME NEW b \in Ages, l # k \/ b # a
        PROVE  granted'[l][b] = granted[l][b] /\ redis'[l][b] = redis[l][b]
    BY <1>6, <1>7, <2>2
  <2>3. 0 \in Ages /\ 1 \in Ages
    BY DEF Ages
  <2>. QED
    BY <1>1, <2>1, <2>2, <2>3 DEF CounterInv
<1>. QED
  BY <1>5, <1>7, <1>9, <1>10

\* A counter is incremented, and the call it counts is let through, refused or
\* not told: up to the limit it counts no others.
LEMMA CountedUnheard ==
    ASSUME LimitInv, NEW k \in Keys, NEW a \in Ages,
           redis' = [redis EXCEPT ![k][a] = Incremented(@)],
           \/ /\ Incremented(redis[k][a]).count > Limit
              /\ granted' = granted /\ unheard' = unheard
           \/ /\ Incremented(redis[k][a]).count <= Limit
              /\ granted' = [granted EXCEPT ![k][a] = @ + 1] /\ unheard' = unheard
           \/ granted' = granted /\ unheard' = [unheard EXCEPT ![k][a] = UpToLimit(@)]
    PROVE  unheard' \in [Keys -> [Ages -> 0..Limit]] /\ UnheardInv'
<1>. DEFINE old == redis[k][a]
            new == Incremented(old)
            g == granted[k][a]
            u == unheard[k][a]
            more == UpToLimit(u)
<1>1. /\ redis \in [Keys -> [Ages -> [count : Counts, life : 0..ExpiryTicks]]]
      /\ granted \in [Keys -> [Ages -> Nat]] /\ unheard \in [Keys -> [Ages -> 0..Limit]]
  BY DEF LimitInv, TypeOK
<1>2. /\ g \in Nat /\ u \in 0..Limit /\ more \in 0..Limit /\ old.count \in Counts
      /\ u < Limit => more = u + 1
      /\ u >= Limit => more = u
  BY <1>1, Numbers DEF UpToLimit
<1>3. new \in [count : Counts, life : 0..ExpiryTicks] /\ new.count = OneMore(old.count)
  BY <1>1, IncrementedCounter
<1>4. old.count <= g + u \/ g + u >= Limit
  BY DEF LimitInv, UnheardInv
<1>5. /\ new.count \in Nat /\ old.count \in Nat
      /\ new.count <= Limit => new.count = old.count + 1
      /\ new.count > Limit => old.count >= Limit
  BY <1>2, <1>3, OneMoreCounts, Numbers DEF Counts
<1>6. redis' = [redis EXCEPT ![k] = [redis[k] EXCEPT ![a] = new]]
  BY <1>1
<1>. HIDE DEF new, more
<1>7. /\ redis'[k][a] = new
      /\ \A l \in Keys, b \in Ages : l # k \/ b # a => redis'[l][b] = redis[l][b]
  BY <1>1, <1>6
<1>8. /\ unheard' \in [Keys -> [Ages -> 0..Limit]]
      /\ \A l \in Keys, b \in Ages : l # k \/ b # a =>
             granted'[l][b] = granted[l][b] /\ unheard'[l][b] = unheard[l][b]
      /\ \/ new.count > Limit /\ granted'[k][a] = g /\ unheard'[k][a] = u
         \/ new.count <= Limit /\ granted'[k][a] = g + 1 /\ unheard'[k][a] = u
         \/ granted'[k][a] = g /\ unheard'[k][a] = more
  <2>1. CASE new.count > Limit /\ granted' = granted /\ unheard' = unheard
    BY <1>1, <2>1
  <2>2. CASE /\ new.count <= Limit /\ unheard' = unheard
             /\ granted' = [granted EXCEPT ![k][a] = @ + 1]
    <3>. DEFINE n == g + 1
    <3>1. granted' = [granted EXCEPT ![k] = [granted[k] EXCEPT ![a] = n]]
      BY <1>1, <2>2
    <3>. HIDE DEF n
    <3>2. /\ granted'[k][a] = n
          /\ \A l \in Keys, b \in Ages : l # k \/ b # a => granted'[l][b] = granted[l][b]
      BY <1>1, <3>1
    <3>. QED
      BY <1>1, <2>2, <3>2 DEF n
  <2>3. CASE granted' = granted /\ unheard' = [unheard EXCEPT ![k][a] = UpToLimit(@)]
    <3>1. unheard' = [unheard EXCEPT ![k] = [unheard[k] EXCEPT ![a] = more]]
      BY <1>1, <2>3 DEF more
    <3>2. /\ unheard' \in [Keys -> [Ages -> 0..Limit]] /\ unheard'[k][a] = more
          /\ \A l \in Keys, b \in Ages : l # k \/ b # a => unheard'[l][b] = unheard[l][b]
      BY <1>1, <1>2, <3>1
    <3>. QED
      BY <1>1, <2>3, <3>2
  <2>. QED
    BY <2>1, <2>2, <2>3 DEF new
<1>9. \/ new.count <= granted'[k][a] + unheard'[k][a]
      \/ granted'[k][a] + unheard'[k][a] >= Limit
  BY <1>2, <1>4, <1>5, <1>8, Numbers
<1>10. ASSUME NEW l \in Keys, NEW b \in Ages
       PROVE  \/ redis'[l][b].count <= granted'[l][b] + unheard'[l][b]
              \/ granted'[l][b] + unheard'[l][b] >= Limit
  <2>1. CASE l = k /\ b = a
    BY <1>7, <1>9, <2>1
  <2>2. CASE l # k \/ b # a
    BY <1>7, <1>8, <2>2 DEF LimitInv, UnheardInv
  <2>. QED
    BY <2>1, <2>2
<1>. QED
  BY <1>8, <1>10 DEF UnheardInv

\* A call that leaves Redis, answered or not, and the calls that stay.
LEMMA LeavesRedis ==
    ASSUME LimitInv, NEW c \in Calls, NEW new \in CallRecord, new.at # "redis",
           call' = [call EXCEPT ![c] = new], tick' = tick
    PROVE  call' \in [Calls -> CallRecord] /\ WaitInv'
<1>1. call \in [Calls -> CallRecord]
  BY DEF LimitInv, TypeOK, CallRecord
<1>. QED
  BY <1>1 DEF LimitInv, WaitInv

\* Redis answers: the call is let through when the counter says so.
LEMMA AnswerKeeps ==
    ASSUME LimitInv, NEW c \in Calls, RedisAnswers(c)
    PROVE  LimitInv'
<1>. DEFINE k == call[c].key
            a == call[c].age
<1>1. /\ k \in Keys /\ a \in Ages /\ granted[k][a] <= redis[k][a].count
  BY CounterThere DEF RedisAnswers
<1>2. /\ redis' = [redis EXCEPT ![k][a] = Incremented(@)]
      /\ granted' = IF Incremented(redis[k][a]).count > Limit THEN granted
                    ELSE [granted EXCEPT ![k][a] = @ + 1]
      /\ call' = [call EXCEPT ![c] = Idle]
      /\ UNCHANGED <<tick, local, unheard, granted0>>
  BY DEF RedisAnswers, Increment, Counter
<1>3. redis[k][a] \in [count : Counts, life : 0..ExpiryTicks]
  BY <1>1 DEF LimitInv, TypeOK
<1>4. Incremented(redis[k][a]).count \in Nat
  BY <1>3, IncrementedCounter, Numbers DEF Counts
<1>5. Idle \in CallRecord /\ Idle.at # "redis"
  BY DEF CallRecord, Idle
<1>6. call' \in [Calls -> CallRecord] /\ WaitInv'
  BY <1>2, <1>5, LeavesRedis
<1>. HIDE DEF k, a
<1>7. \/ Incremented(redis[k][a]).count > Limit /\ granted' = granted
      \/ /\ Incremented(redis[k][a]).count <= Limit
         /\ granted' = [granted EXCEPT ![k][a] = @ + 1]
  BY <1>2, <1>4, Numbers
<1>8. /\ redis' \in [Keys -> [Ages -> [count : Counts, life : 0..ExpiryTicks]]]
      /\ granted' \in [Keys -> [Ages -> Nat]]
      /\ CounterInv' /\ RedisWithinLimit'
  BY <1>1, <1>2, <1>7, CountedKeeps
<1>9. unheard' \in [Keys -> [Ages -> 0..Limit]] /\ UnheardInv'
  BY <1>1, <1>2, <1>7, CountedUnheard
<1>. QED
  BY <1>2, <1>6, <1>8, <1>9 DEF LimitInv, TypeOK, BucketInv, CallRecord

\* Redis counts a command and the call is not told.
LEMMA UnheardKeeps ==
    ASSUME LimitInv, NEW c \in Calls, call[c].at = "redis", CountsUnheard(c),
           UNCHANGED <<tick, granted>>
    PROVE  /\ redis' \in [Keys -> [Ages -> [count : Counts, life : 0..ExpiryTicks]]]
           /\ unheard' \in [Keys -> [Ages -> 0..Limit]]
           /\ CounterInv' /\ RedisWithinLimit' /\ UnheardInv'
<1>. DEFINE k == call[c].key
            a == call[c].age
<1>1. /\ k \in Keys /\ a \in Ages /\ granted[k][a] <= redis[k][a].count
  BY CounterThere
<1>2. /\ redis' = [redis EXCEPT ![k][a] = Incremented(@)]
      /\ unheard' = [unheard EXCEPT ![k][a] = UpToLimit(@)]
      /\ granted' = granted /\ tick' = tick
  BY DEF CountsUnheard, Increment
<1>. HIDE DEF k, a
<1>. QED
  BY <1>1, <1>2, CountedKeeps, CountedUnheard

\* The client repeats its command.
LEMMA RepeatKeeps ==
    ASSUME LimitInv, NEW c \in Calls, RedisRepeats(c)
    PROVE  LimitInv'
<1>1. /\ redis' \in [Keys -> [Ages -> [count : Counts, life : 0..ExpiryTicks]]]
      /\ unheard' \in [Keys -> [Ages -> 0..Limit]]
      /\ CounterInv' /\ RedisWithinLimit' /\ UnheardInv'
  BY UnheardKeeps DEF RedisRepeats
<1>2. UNCHANGED <<tick, local, call, granted, granted0>>
  BY DEF RedisRepeats
<1>. QED
  BY <1>1, <1>2 DEF LimitInv, TypeOK, WaitInv, BucketInv

\* Redis does not answer: the counter may have been incremented all the same.
LEMMA FailureKeeps ==
    ASSUME LimitInv, NEW c \in Calls, RedisFails(c)
    PROVE  LimitInv'
<1>. DEFINE new == [at |-> "local", key |-> call[c].key]
<1>1. call[c].key \in Keys
  BY CounterThere DEF RedisFails
<1>2. /\ CountsUnheard(c) \/ UNCHANGED <<redis, unheard>>
      /\ call' = [call EXCEPT ![c] = new]
      /\ UNCHANGED <<tick, local, granted, granted0>>
  BY DEF RedisFails
<1>3. new \in CallRecord /\ new.at # "redis"
  BY <1>1 DEF CallRecord
<1>. HIDE DEF new
<1>4. call' \in [Calls -> CallRecord] /\ WaitInv'
  BY <1>2, <1>3, LeavesRedis
<1>5. /\ redis' \in [Keys -> [Ages -> [count : Counts, life : 0..ExpiryTicks]]]
      /\ unheard' \in [Keys -> [Ages -> 0..Limit]]
      /\ CounterInv' /\ RedisWithinLimit' /\ UnheardInv'
  <2>1. CASE CountsUnheard(c)
    BY <1>2, <2>1, UnheardKeeps DEF RedisFails
  <2>2. CASE UNCHANGED <<redis, unheard>>
    BY <1>2, <2>2 DEF LimitInv, TypeOK, CounterInv, RedisWithinLimit, UnheardInv
  <2>. QED
    BY <1>2, <2>1, <2>2
<1>. QED
  BY <1>2, <1>4, <1>5 DEF LimitInv, TypeOK, BucketInv, CallRecord

-----------------------------------------------------------------------------
(* The buckets of the process.                                             *)

Bucket == [window : {"none", "now"} \cup Past, count : Counts]

\* Cleaning drops buckets of past windows only, all of them or none.
LEMMA CleanedBuckets ==
    ASSUME TypeOK, NEW k \in Keys
    PROVE  /\ Cleaned \in [Keys -> Bucket]
           /\ Cleaned[k] = local[k] \/ (local[k].window \in Past /\ Cleaned[k] = NoBucket)
<1>1. /\ local \in [Keys -> Bucket]
      /\ NoBucket \in Bucket
  BY Numbers DEF TypeOK, Bucket, NoBucket, Counts
<1>2. CASE Cardinality(Tracked) < Threshold
  BY <1>1, <1>2 DEF Cleaned
<1>3. CASE ~(Cardinality(Tracked) < Threshold)
  <2>1. Cleaned = [x \in Keys |-> IF local[x].window \in Past THEN NoBucket ELSE local[x]]
    BY <1>3 DEF Cleaned
  <2>. QED
    BY <1>1, <2>1
<1>. QED
  BY <1>2, <1>3

\* The bucket a call is counted on is of the running window, and counts on
\* from the bucket of this window, or from nothing.
LEMMA BumpedBucket ==
    ASSUME NEW bucket \in Bucket
    PROVE  /\ Bumped(bucket) \in Bucket /\ Bumped(bucket).window = "now"
           /\ Bumped(bucket).count = IF bucket.window = "now"
                                     THEN OneMore(bucket.count) ELSE 1
BY OneMoreCounts, Numbers DEF Bumped, Bucket, Counts

\* A call counted on a bucket: the bucket before the call is that of the
\* running window or counts for nothing.
LEMMA LocalCount ==
    ASSUME LimitInv, NEW c \in Calls, IncrementLocal(c)
    PROVE  LET k == call[c].key  bucket == Bumped(Cleaned[k]) IN
           /\ k \in Keys /\ bucket \in Bucket /\ bucket.window = "now"
           /\ local' = [Cleaned EXCEPT ![k] = bucket]
           /\ granted0' = IF bucket.count > Limit THEN granted0
                          ELSE [granted0 EXCEPT ![k] = granted0[k] + 1]
           /\ bucket.count = IF local[k].window = "now" THEN OneMore(local[k].count) ELSE 1
<1>. DEFINE k == call[c].key
            bucket == Bumped(Cleaned[k])
<1>1. k \in Keys
  BY CallShape DEF IncrementLocal, LimitInv, TypeOK, CallRecord
<1>2. /\ local' = [Cleaned EXCEPT ![k] = bucket]
      /\ granted0' = IF bucket.count > Limit THEN granted0
                     ELSE [granted0 EXCEPT ![k] = granted0[k] + 1]
  BY DEF IncrementLocal
<1>. HIDE DEF k
<1>3. /\ Cleaned[k] \in Bucket
      /\ Cleaned[k] = local[k] \/ (local[k].window \in Past /\ Cleaned[k] = NoBucket)
  BY <1>1, CleanedBuckets DEF LimitInv
<1>4. /\ bucket \in Bucket /\ bucket.window = "now"
      /\ bucket.count = IF Cleaned[k].window = "now" THEN OneMore(Cleaned[k].count) ELSE 1
  BY <1>3, BumpedBucket
<1>5. (Cleaned[k].window = "now") <=> (local[k].window = "now")
  BY <1>3 DEF NoBucket, Past
<1>6. bucket.count = IF local[k].window = "now" THEN OneMore(local[k].count) ELSE 1
  <2>1. CASE local[k].window = "now"
    <3>1. Cleaned[k] = local[k] /\ Cleaned[k].window = "now"
      BY <1>3, <2>1 DEF Past
    <3>. QED
      BY <1>4, <2>1, <3>1
  <2>2. CASE local[k].window # "now"
    BY <1>4, <1>5, <2>2
  <2>. QED
    BY <2>1, <2>2
<1>. QED
  BY <1>1, <1>2, <1>4, <1>6 DEF k

\* What is let through stays what its bucket counts, up to the limit.
LEMMA LocalKeeps ==
    ASSUME LimitInv, NEW c \in Calls, IncrementLocal(c)
    PROVE  LimitInv'
<1>. DEFINE k == call[c].key
            bucket == Bumped(Cleaned[k])
<1>1. /\ k \in Keys /\ bucket \in Bucket /\ bucket.window = "now"
      /\ local' = [Cleaned EXCEPT ![k] = bucket]
      /\ granted0' = IF bucket.count > Limit THEN granted0
                     ELSE [granted0 EXCEPT ![k] = granted0[k] + 1]
      /\ bucket.count = IF local[k].window = "now" THEN OneMore(local[k].count) ELSE 1
  BY LocalCount
<1>2. call' = [call EXCEPT ![c] = Idle] /\ UNCHANGED <<tick, redis, granted, unheard>>
  BY DEF IncrementLocal
<1>. HIDE DEF k, bucket
<1>3. Idle \in CallRecord /\ Idle.at # "redis"
  BY DEF CallRecord, Idle
<1>4. call' \in [Calls -> CallRecord] /\ WaitInv'
  BY <1>2, <1>3, LeavesRedis
<1>5. /\ Cleaned \in [Keys -> Bucket] /\ local \in [Keys -> Bucket]
      /\ granted0 \in [Keys -> Nat]
      /\ \A x \in Keys : Cleaned[x] = local[x]
                         \/ (local[x].window \in Past /\ Cleaned[x] = NoBucket)
  <2>1. local \in [Keys -> Bucket] /\ granted0 \in [Keys -> Nat]
    BY DEF LimitInv, TypeOK, Bucket
  <2>. QED
    BY <1>1, <2>1, CleanedBuckets DEF LimitInv
<1>6. local' \in [Keys -> Bucket] /\ granted0' \in [Keys -> Nat]
  <2>1. local' \in [Keys -> Bucket]
    BY <1>1, <1>5
  <2>2. CASE bucket.count > Limit
    BY <1>1, <1>5, <2>1, <2>2
  <2>3. CASE ~(bucket.count > Limit)
    <3>. DEFINE n == granted0[k] + 1
    <3>1. n \in Nat /\ granted0' = [granted0 EXCEPT ![k] = n]
      BY <1>1, <1>5, <2>3
    <3>. HIDE DEF n
    <3>. QED
      BY <1>5, <2>1, <3>1
  <2>. QED
    BY <2>2, <2>3
<1>7. BucketInv'
  <2>. SUFFICES ASSUME NEW x \in Keys
                PROVE  granted0'[x] = IF local'[x].window # "now" THEN 0
                                      ELSE IF local'[x].count > Limit THEN Limit
                                      ELSE local'[x].count
    BY DEF BucketInv
  <2>1. granted0[x] = IF local[x].window # "now" THEN 0
                      ELSE IF local[x].count > Limit THEN Limit ELSE local[x].count
    BY DEF LimitInv, BucketInv
  <2>2. CASE x # k
    <3>1. granted0'[x] = granted0[x] /\ local'[x] = Cleaned[x]
      BY <1>1, <1>5, <2>2
    <3>2. CASE Cleaned[x] = local[x]
      BY <2>1, <3>1, <3>2
    <3>3. CASE local[x].window \in Past /\ Cleaned[x] = NoBucket
      BY <2>1, <3>1, <3>3 DEF NoBucket, Past
    <3>. QED
      BY <1>5, <3>2, <3>3
  <2>3. CASE x = k
    <3>1. local'[x] = bucket /\ bucket.count \in Nat /\ local[k].count \in Counts
      BY <1>1, <1>5, <2>3, Numbers DEF Bucket, Counts
    <3>2. granted0'[x] = IF bucket.count > Limit THEN granted0[k] ELSE granted0[k] + 1
      BY <1>1, <1>5, <2>3
    <3>3. CASE local[k].window = "now"
      <4>1. /\ bucket.count <= Limit => bucket.count = local[k].count + 1
            /\ bucket.count > Limit => local[k].count >= Limit
        BY <1>1, <3>1, <3>3, OneMoreCounts
      <4>2. local[k].count \in Nat
        BY <3>1, Numbers DEF Counts
      <4>. QED
        BY <1>1, <2>1, <2>3, <3>1, <3>2, <3>3, <4>1, <4>2, Numbers
    <3>4. CASE local[k].window # "now"
      BY <1>1, <2>1, <2>3, <3>1, <3>2, <3>4, Numbers
    <3>. QED
      BY <3>3, <3>4
  <2>. QED
    BY <2>2, <2>3
<1>. QED
  BY <1>2, <1>4, <1>6, <1>7
     DEF LimitInv, TypeOK, CounterInv, RedisWithinLimit, UnheardInv, CallRecord, Bucket

-----------------------------------------------------------------------------
(* Time.                                                                   *)

\* A counter a tick older: gone, or with a tick less to live.
LEMMA AgedCounter ==
    ASSUME NEW counter \in [count : Counts, life : 0..ExpiryTicks]
    PROVE  /\ Aged(counter) \in [count : Counts, life : 0..ExpiryTicks]
           /\ Aged(counter).count \in {0, counter.count}
           /\ counter.life > 1 => /\ Aged(counter).count = counter.count
                                  /\ Aged(counter).life = counter.life - 1
BY Numbers DEF Aged, NoCounter, Counts

\* A counter a tick older counts no more than it did.
LEMMA AgedUnheard ==
    ASSUME LimitInv, NEW k \in Keys, NEW a \in Ages
    PROVE  \/ Aged(redis[k][a]).count <= granted[k][a] + unheard[k][a]
           \/ granted[k][a] + unheard[k][a] >= Limit
<1>1. /\ redis[k][a] \in [count : Counts, life : 0..ExpiryTicks]
      /\ granted[k][a] \in Nat /\ unheard[k][a] \in 0..Limit
  BY DEF LimitInv, TypeOK
<1>2. Aged(redis[k][a]).count \in {0, redis[k][a].count}
  BY <1>1, AgedCounter
<1>3. \/ redis[k][a].count <= granted[k][a] + unheard[k][a]
      \/ granted[k][a] + unheard[k][a] >= Limit
  BY DEF LimitInv, UnheardInv
<1>. QED
  BY <1>1, <1>2, <1>3, Numbers

\* A call a tick older, in the same window or in the next: it has one tick less
\* to wait, and a call of the window before the last one has given up.
LEMMA WaitedCall ==
    ASSUME LimitInv, InTime, NEW c \in Calls, NEW older \in {0, 1},
           older = 1 => tick + 1 = WindowTicks
    PROVE  LET new == Waited(c, older) IN
           /\ new \in CallRecord
           /\ new.at = "redis" /\ new.age = 1 =>
                  new.left + (IF older = 1 THEN 0 ELSE tick + 1) + 1 <= Patience
<1>. DEFINE old == call[c]
            new == Waited(c, older)
<1>1. old \in CallRecord /\ tick \in Nat
  BY DEF LimitInv, TypeOK, CallRecord
<1>2. CASE old.at # "redis"
  BY <1>1, <1>2 DEF Waited
<1>3. CASE old.at = "redis"
  <2>1. /\ old.key \in Keys /\ old.age \in {0, 1} /\ old.left \in 0..Patience
        /\ old \in [at : {"redis"}, key : Keys, age : Ages, left : 0..Patience]
    BY <1>1, <1>3, CallShape
  <2>2. old.left > 0
    BY <1>3 DEF InTime
  <2>3. old.age = 1 => old.left + tick + 1 <= Patience
    BY <1>3 DEF LimitInv, WaitInv
  <2>. DEFINE left == old.left - 1
              age == old.age + older
              once == [old EXCEPT !.left = left]
  <2>4. left \in 0..Patience /\ left + 1 = old.left
    BY <2>1, <2>2, Numbers
  <2>5. age \in {0, 1}
    BY <1>1, <2>1, <2>2, <2>3, Numbers
  <2>6. new = [once EXCEPT !.age = age]
    BY <1>3, <2>1 DEF Waited
  <2>. HIDE DEF left, age
  <2>7. /\ once \in [at : {"redis"}, key : Keys, age : Ages, left : 0..Patience]
        /\ once.left = left
    BY <2>1, <2>4
  <2>. HIDE DEF once
  <2>8. /\ new \in [at : {"redis"}, key : Keys, age : Ages, left : 0..Patience]
        /\ new.left = left /\ new.age = age
    BY <2>5, <2>6, <2>7 DEF Ages
  <2>9. age = 1 => left + (IF older = 1 THEN 0 ELSE tick + 1) + 1 <= Patience
    BY <1>1, <2>1, <2>3, <2>4, Numbers DEF age
  <2>. QED
    BY <2>8, <2>9 DEF CallRecord
<1>. QED
  BY <1>2, <1>3

\* A tick within the window: counters still asked for do not expire.
LEMMA TickKeeps ==
    ASSUME LimitInv, TickWithin
    PROVE  LimitInv'
<1>1. /\ InTime /\ tick + 1 < WindowTicks /\ tick' = tick + 1
      /\ redis' = [k \in Keys |-> [a \in Ages |-> Aged(redis[k][a])]]
      /\ call' = [c \in Calls |-> Waited(c, 0)]
      /\ UNCHANGED <<local, granted, unheard, granted0>>
  BY DEF TickWithin
<1>2. /\ tick \in 0..(WindowTicks - 1) /\ tick' \in 0..(WindowTicks - 1)
      /\ redis \in [Keys -> [Ages -> [count : Counts, life : 0..ExpiryTicks]]]
      /\ granted \in [Keys -> [Ages -> Nat]]
  BY <1>1, Numbers DEF LimitInv, TypeOK
<1>3. ASSUME NEW c \in Calls
      PROVE  /\ call'[c] \in CallRecord
             /\ call'[c].at = "redis" /\ call'[c].age = 1
                    => call'[c].left + tick' + 1 <= Patience
  BY <1>1, <1>3, WaitedCall
<1>4. call' \in [Calls -> CallRecord]
  BY <1>1, <1>3
<1>5. WaitInv'
  BY <1>3 DEF WaitInv
<1>6. ASSUME NEW k \in Keys, NEW a \in Ages
      PROVE  /\ redis'[k][a] = Aged(redis[k][a])
             /\ redis[k][a] \in [count : Counts, life : 0..ExpiryTicks]
  BY <1>1, <1>2
<1>7. redis' \in [Keys -> [Ages -> [count : Counts, life : 0..ExpiryTicks]]]
  BY <1>1, <1>2, AgedCounter
<1>8. ASSUME NEW k \in Keys
      PROVE  /\ granted'[k][0] > 0 =>
                    /\ granted'[k][0] <= redis'[k][0].count
                    /\ ExpiryTicks <= redis'[k][0].life + tick'
             /\ granted'[k][1] > 0 /\ tick' + WindowTicks < ExpiryTicks =>
                    /\ granted'[k][1] <= redis'[k][1].count
                    /\ ExpiryTicks <= redis'[k][1].life + tick' + WindowTicks
  <2>. DEFINE old0 == redis[k][0]
              old1 == redis[k][1]
  <2>1. 0 \in Ages /\ 1 \in Ages
    BY DEF Ages
  <2>2. /\ old0 \in [count : Counts, life : 0..ExpiryTicks]
        /\ old1 \in [count : Counts, life : 0..ExpiryTicks]
        /\ redis'[k][0] = Aged(old0) /\ redis'[k][1] = Aged(old1)
    BY <1>6, <2>1
  <2>3. /\ granted[k][0] > 0 =>
               /\ granted[k][0] <= old0.count
               /\ ExpiryTicks <= old0.life + tick
        /\ granted[k][1] > 0 /\ tick + WindowTicks < ExpiryTicks =>
               /\ granted[k][1] <= old1.count
               /\ ExpiryTicks <= old1.life + tick + WindowTicks
    BY DEF LimitInv, CounterInv
  <2>4. old0.life \in Nat /\ old1.life \in Nat
    BY <2>2, Numbers
  <2>. HIDE DEF old0, old1
  <2>5. ASSUME granted[k][0] > 0
        PROVE  /\ granted[k][0] <= redis'[k][0].count
               /\ ExpiryTicks <= redis'[k][0].life + tick'
    <3>1. old0.life > 1
      BY <1>1, <1>2, <2>3, <2>4, <2>5, Numbers
    <3>2. Aged(old0).count = old0.count /\ Aged(old0).life = old0.life - 1
      BY <2>2, <3>1, AgedCounter
    <3>. QED
      BY <1>1, <1>2, <2>2, <2>3, <2>4, <2>5, <3>2, Numbers
  <2>6. ASSUME granted[k][1] > 0, tick' + WindowTicks < ExpiryTicks
        PROVE  /\ granted[k][1] <= redis'[k][1].count
               /\ ExpiryTicks <= redis'[k][1].life + tick' + WindowTicks
    <3>1. old1.life > 1 /\ tick + WindowTicks < ExpiryTicks
      BY <1>1, <1>2, <2>3, <2>4, <2>6, Numbers
    <3>2. Aged(old1).count = old1.count /\ Aged(old1).life = old1.life - 1
      BY <2>2, <3>1, AgedCounter
    <3>. QED
      BY <1>1, <1>2, <2>2, <2>3, <2>4, <2>6, <3>1, <3>2, Numbers
  <2>. QED
    BY <1>1, <2>5, <2>6
<1>9. CounterInv'
  BY <1>8 DEF CounterInv
<1>10. UnheardInv'
  <2>. SUFFICES ASSUME NEW k \in Keys, NEW a \in Ages
                PROVE  \/ redis'[k][a].count <= granted[k][a] + unheard[k][a]
                       \/ granted[k][a] + unheard[k][a] >= Limit
    BY <1>1 DEF UnheardInv
  <2>. QED
    BY <1>6, AgedUnheard
<1>. QED
  BY <1>1, <1>2, <1>4, <1>5, <1>7, <1>9, <1>10
     DEF LimitInv, TypeOK, BucketInv, RedisWithinLimit, CallRecord

\* A bucket a window later is one of the past, unless there is none.
LEMMA OvertakenBucket ==
    ASSUME NEW bucket \in Bucket
    PROVE  /\ Overtaken(bucket) \in Bucket
           /\ Overtaken(bucket).window =
                  IF bucket.window = "now" THEN "last"
                  ELSE IF bucket.window = "last" THEN "older" ELSE bucket.window
           /\ Overtaken(bucket).window # "now"
<1>1. CASE bucket.window = "now"
  BY <1>1 DEF Overtaken, Bucket, Past
<1>2. CASE bucket.window = "last"
  BY <1>2 DEF Overtaken, Bucket, Past
<1>3. CASE bucket.window \notin {"now", "last"}
  BY <1>3 DEF Overtaken, Bucket, Past
<1>. QED
  BY <1>1, <1>2, <1>3

\* A new window: the counters of the last one live on for the calls that may
\* still arrive, and no bucket counts for the new window yet.
LEMMA WindowKeeps ==
    ASSUME LimitInv, NextWindow
    PROVE  LimitInv'
<1>1. /\ InTime /\ tick + 1 = WindowTicks /\ tick' = 0
      /\ redis' = [k \in Keys |-> [a \in Ages |->
                       IF a = 0 THEN NoCounter ELSE Aged(redis[k][0])]]
      /\ granted' = [k \in Keys |-> [a \in Ages |-> IF a = 0 THEN 0 ELSE granted[k][0]]]
      /\ unheard' = [k \in Keys |-> [a \in Ages |-> IF a = 0 THEN 0 ELSE unheard[k][0]]]
      /\ granted0' = [k \in Keys |-> 0]
      /\ local' = [k \in Keys |-> Overtaken(local[k])]
      /\ call' = [c \in Calls |-> Waited(c, 1)]
  BY DEF NextWindow
<1>2. /\ tick \in 0..(WindowTicks - 1) /\ tick' \in 0..(WindowTicks - 1)
      /\ redis \in [Keys -> [Ages -> [count : Counts, life : 0..ExpiryTicks]]]
      /\ granted \in [Keys -> [Ages -> Nat]]
  BY <1>1, Numbers DEF LimitInv, TypeOK
<1>3. ASSUME NEW c \in Calls
      PROVE  /\ call'[c] \in CallRecord
             /\ call'[c].at = "redis" /\ call'[c].age = 1
                    => call'[c].left + tick' + 1 <= Patience
  <2>1. call'[c] = Waited(c, 1)
    BY <1>1
  <2>2. /\ Waited(c, 1) \in CallRecord
        /\ Waited(c, 1).at = "redis" /\ Waited(c, 1).age = 1
               => Waited(c, 1).left + 0 + 1 <= Patience
    BY <1>1, WaitedCall
  <2>. QED
    BY <1>1, <2>1, <2>2
<1>4. call' \in [Calls -> CallRecord]
  BY <1>1, <1>3
<1>5. WaitInv'
  BY <1>3 DEF WaitInv
<1>6. 0 \in Ages /\ 1 \in Ages
  BY DEF Ages
<1>7. NoCounter \in [count : Counts, life : 0..ExpiryTicks]
  BY Numbers DEF NoCounter, Counts
<1>8. ASSUME NEW k \in Keys
      PROVE  /\ redis[k][0] \in [count : Counts, life : 0..ExpiryTicks]
             /\ Aged(redis[k][0]) \in [count : Counts, life : 0..ExpiryTicks]
             /\ redis'[k][0] = NoCounter /\ redis'[k][1] = Aged(redis[k][0])
             /\ granted'[k][0] = 0 /\ granted'[k][1] = granted[k][0]
             /\ granted[k][0] \in Nat
  BY <1>1, <1>2, <1>6, AgedCounter
<1>9. redis' \in [Keys -> [Ages -> [count : Counts, life : 0..ExpiryTicks]]]
  BY <1>1, <1>7, <1>8
<1>10. granted' \in [Keys -> [Ages -> Nat]]
  BY <1>1, <1>8
<1>11. RedisWithinLimit'
  BY <1>6, <1>8, Numbers DEF LimitInv, RedisWithinLimit, Ages
<1>12. ASSUME NEW k \in Keys, granted'[k][1] > 0
       PROVE  /\ granted'[k][1] <= redis'[k][1].count
              /\ ExpiryTicks <= redis'[k][1].life + tick' + WindowTicks
  <2>. DEFINE old == redis[k][0]
  <2>1. /\ granted[k][0] <= old.count /\ ExpiryTicks <= old.life + tick
        /\ old \in [count : Counts, life : 0..ExpiryTicks]
        /\ redis'[k][1] = Aged(old) /\ granted'[k][1] = granted[k][0]
    BY <1>8, <1>12 DEF LimitInv, CounterInv
  <2>2. old.life \in Nat
    BY <2>1, Numbers
  <2>. HIDE DEF old
  <2>3. old.life > 1
    BY <1>1, <1>2, <2>1, <2>2, Numbers
  <2>4. Aged(old).count = old.count /\ Aged(old).life = old.life - 1
    BY <2>1, <2>3, AgedCounter
  <2>. QED
    BY <1>1, <1>2, <2>1, <2>2, <2>4, Numbers
<1>13. CounterInv'
  BY <1>8, <1>12 DEF CounterInv
<1>14. local' \in [Keys -> Bucket] /\ BucketInv'
  <2>1. local \in [Keys -> Bucket]
    BY DEF LimitInv, TypeOK, Bucket
  <2>2. ASSUME NEW k \in Keys
        PROVE  local'[k] = Overtaken(local[k]) /\ local'[k] \in Bucket
               /\ local'[k].window # "now" /\ granted0'[k] = 0
    BY <1>1, <2>1, OvertakenBucket
  <2>. QED
    BY <1>1, <2>2 DEF BucketInv
<1>15. granted0' \in [Keys -> Nat]
  BY <1>1
<1>16. unheard' \in [Keys -> [Ages -> 0..Limit]] /\ UnheardInv'
  <2>1. unheard \in [Keys -> [Ages -> 0..Limit]]
    BY DEF LimitInv, TypeOK
  <2>2. ASSUME NEW k \in Keys
        PROVE  unheard'[k][0] = 0 /\ unheard'[k][1] = unheard[k][0]
    BY <1>1, <1>6
  <2>3. unheard' \in [Keys -> [Ages -> 0..Limit]]
    BY <1>1, <1>6, <2>1, Numbers
  <2>4. ASSUME NEW k \in Keys, NEW a \in Ages
        PROVE  \/ redis'[k][a].count <= granted'[k][a] + unheard'[k][a]
               \/ granted'[k][a] + unheard'[k][a] >= Limit
    <3>1. CASE a = 0
      BY <1>8, <2>2, <3>1 DEF NoCounter
    <3>2. CASE a = 1
      BY <1>6, <1>8, <2>2, <3>2, AgedUnheard
    <3>. QED
      BY <3>1, <3>2 DEF Ages
  <2>. QED
    BY <2>3, <2>4 DEF UnheardInv
<1>. QED
  BY <1>2, <1>4, <1>5, <1>9, <1>10, <1>11, <1>13, <1>14, <1>15, <1>16
     DEF LimitInv, TypeOK, CallRecord, Bucket

-----------------------------------------------------------------------------
(* The limit.                                                              *)

\* Nothing was counted yet.
LEMMA InitLimit == Init => LimitInv
<1>. SUFFICES ASSUME Init PROVE LimitInv
  OBVIOUS
<1>1. TypeOK
  BY Numbers DEF Init, TypeOK, NoCounter, NoBucket, Counts, Ages
<1>2. 0 \in Ages /\ 1 \in Ages
  BY DEF Ages
<1>3. CounterInv /\ RedisWithinLimit
  BY <1>2, Numbers DEF Init, CounterInv, RedisWithinLimit
<1>4. WaitInv /\ BucketInv
  BY DEF Init, WaitInv, BucketInv, Idle, NoBucket
<1>5. UnheardInv
  BY Numbers DEF Init, UnheardInv, NoCounter
<1>. QED
  BY <1>1, <1>3, <1>4, <1>5 DEF LimitInv

\* Every step keeps the invariant.
LEMMA NextLimit ==
    ASSUME LimitInv, [Next]_vars
    PROVE  LimitInv'
<1>1. CASE UNCHANGED vars
  BY <1>1
     DEF vars, LimitInv, TypeOK, WaitInv, CounterInv, BucketInv, RedisWithinLimit, UnheardInv
<1>. QED
  BY <1>1, ArriveKeeps, AnswerKeeps, RepeatKeeps, FailureKeeps, LocalKeeps, TickKeeps, WindowKeeps
     DEF Next, Serve, Tick

\* The invariant holds for ever.
LEMMA LimitInvariance == Spec => []LimitInv
<1>. QED
  BY InitLimit, NextLimit, PTL DEF Spec

\* Counts, lives and ages stay in their ranges: no call is ever older than the
\* window before the running one.
THEOREM TypeCorrectness == Spec => []TypeOK
<1>1. LimitInv => TypeOK
  BY DEF LimitInv
<1>. QED
  BY <1>1, LimitInvariance, PTL

\* No key is let through more often than the limit on the count of one backend
\* in one window (ratelimit.go 57-83), for any limit and any number of calls in
\* flight: two minutes of expiry cover every call that may still be counted.
THEOREM WithinLimit == Spec => []AdmittedWithinLimit
<1>1. LimitInv => AdmittedWithinLimit
  <2>. SUFFICES ASSUME LimitInv, NEW k \in Keys
                PROVE  granted0[k] <= Limit
    BY DEF AdmittedWithinLimit, LimitInv, RedisWithinLimit
  <2>1. local[k].count \in Nat
    BY Numbers DEF LimitInv, TypeOK, Counts
  <2>. QED
    BY <2>1, Numbers DEF LimitInv, BucketInv
<1>. QED
  BY <1>1, LimitInvariance, PTL

\* Whose call leaves Redis or the buckets is its own step.
LEMMA OwnStep ==
    ASSUME LimitInv, [Next]_vars, NEW c \in Calls,
           call[c].at \in {"local", "redis"}, call'[c] = Idle
    PROVE  \/ call[c].at = "redis" /\ RedisAnswers(c)
           \/ call[c].at = "local" /\ IncrementLocal(c)
<1>1. call \in [Calls -> CallRecord] /\ call[c] # Idle
  BY DEF LimitInv, TypeOK, CallRecord, Idle
<1>2. ~UNCHANGED vars
  BY <1>1 DEF vars
<1>3. ~Tick
  <2>1. ASSUME NEW older \in {0, 1} PROVE Waited(c, older) # Idle
    <3>1. CASE call[c].at = "local"
      BY <1>1, <3>1 DEF Waited
    <3>2. CASE call[c].at = "redis"
      <4>1. /\ call[c] \in [at : {"redis"}, key : Keys, age : Ages, left : 0..Patience]
        BY <1>1, <3>2, CallShape
      <4>. DEFINE once == [call[c] EXCEPT !.left = call[c].left - 1]
      <4>2. once.at = "redis"
        BY <4>1
      <4>3. Waited(c, older) = [once EXCEPT !.age = call[c].age + older]
        BY <3>2, <4>1 DEF Waited
      <4>. HIDE DEF once
      <4>4. "at" \in DOMAIN Idle /\ Idle.at = "idle"
        BY DEF Idle
      <4>5. Waited(c, older).at = "redis"
        BY <4>1, <4>2, <4>3 DEF once
      <4>. QED
        BY <4>4, <4>5
    <3>. QED
      BY <3>1, <3>2
  <2>. QED
    BY <2>1 DEF Tick, TickWithin, NextWindow
<1>4. ASSUME NEW d \in Calls, NEW k \in Keys, Arrive(d, k)
      PROVE  FALSE
  <2>1. call[d] = Idle /\ d # c
    BY <1>1, <1>4 DEF Arrive
  <2>2. call'[c] = call[c]
    BY <1>1, <1>4, <2>1 DEF Arrive
  <2>. QED
    BY <1>1, <2>2
<1>5. ASSUME NEW d \in Calls, d # c, Serve(d)
      PROVE  FALSE
  <2>1. call'[c] = call[c]
    BY <1>1, <1>5 DEF Serve, RedisAnswers, RedisRepeats, RedisFails, IncrementLocal
  <2>. QED
    BY <1>1, <2>1
<1>6. ~RedisRepeats(c) /\ ~RedisFails(c)
  BY <1>1 DEF RedisRepeats, RedisFails, Idle
<1>. QED
  BY <1>2, <1>3, <1>4, <1>5, <1>6 DEF Next, Serve, RedisAnswers, IncrementLocal

\* On its bucket a call is refused when the limit has been let through on it.
LEMMA LocalRefusal ==
    ASSUME LimitInv, NEW c \in Calls, IncrementLocal(c),
           granted0'[call[c].key] = granted0[call[c].key]
    PROVE  granted0[call[c].key] = Limit
<1>. DEFINE k == call[c].key
            bucket == Bumped(Cleaned[k])
<1>1. /\ k \in Keys /\ bucket \in Bucket
      /\ granted0' = IF bucket.count > Limit THEN granted0
                     ELSE [granted0 EXCEPT ![k] = granted0[k] + 1]
      /\ bucket.count = IF local[k].window = "now" THEN OneMore(local[k].count) ELSE 1
  BY LocalCount
<1>2. granted0 \in [Keys -> Nat] /\ local[k].count \in Counts
  BY <1>1 DEF LimitInv, TypeOK
<1>. HIDE DEF bucket
<1>3. bucket.count > Limit
  BY <1>1, <1>2
<1>4. local[k].window = "now" /\ OneMore(local[k].count) > Limit
  BY <1>1, <1>3, Numbers
<1>5. local[k].count >= Limit /\ local[k].count \in Nat
  BY <1>2, <1>4, OneMoreCounts, Numbers DEF Counts
<1>. QED
  BY <1>1, <1>4, <1>5, Numbers DEF LimitInv, BucketInv

\* In Redis, when what it let through and what it counted unheard are the limit.
LEMMA RedisRefusal ==
    ASSUME LimitInv, NEW c \in Calls, RedisAnswers(c),
           granted'[call[c].key] = granted[call[c].key]
    PROVE  granted[call[c].key][call[c].age] + unheard[call[c].key][call[c].age] >= Limit
<1>. DEFINE k == call[c].key
            a == call[c].age
            n == granted[k][a] + 1
<1>1. k \in Keys /\ a \in Ages
  BY CounterThere DEF RedisAnswers
<1>2. /\ redis[k][a] \in [count : Counts, life : 0..ExpiryTicks]
      /\ granted \in [Keys -> [Ages -> Nat]] /\ unheard[k][a] \in 0..Limit
  BY <1>1 DEF LimitInv, TypeOK
<1>3. granted' = IF Incremented(redis[k][a]).count > Limit THEN granted
                 ELSE [granted EXCEPT ![k] = [granted[k] EXCEPT ![a] = n]]
  BY <1>1, <1>2 DEF RedisAnswers, Counter
<1>. HIDE DEF n
<1>4. Incremented(redis[k][a]).count > Limit
  <2>. SUFFICES ASSUME ~(Incremented(redis[k][a]).count > Limit) PROVE FALSE
    OBVIOUS
  <2>1. granted'[k][a] = n
    BY <1>1, <1>2, <1>3
  <2>2. n # granted[k][a]
    BY <1>1, <1>2 DEF n
  <2>. QED
    BY <2>1, <2>2
<1>5. OneMore(redis[k][a].count) > Limit
  BY <1>2, <1>4, IncrementedCounter
<1>6. redis[k][a].count >= Limit /\ redis[k][a].count \in Nat
  BY <1>2, <1>5, OneMoreCounts, Numbers DEF Counts
<1>7. \/ redis[k][a].count <= granted[k][a] + unheard[k][a]
      \/ granted[k][a] + unheard[k][a] >= Limit
  BY <1>1 DEF LimitInv, UnheardInv
<1>8. granted[k][a] \in Nat
  BY <1>1, <1>2
<1>. QED
  BY <1>2, <1>6, <1>7, <1>8, Numbers

\* A call is refused only when the limit of its window is used up where it was
\* counted (ratelimit.go 41-51): on a bucket, by calls let through; in Redis, by
\* those and by what Redis counted without its answer arriving.  No count of a
\* past window or of another key takes part.
THEOREM RefusedOnlyAtLimit == Spec => RefusedAtLimit
<1>1. ASSUME LimitInv, [Next]_vars, NEW c \in Calls
      PROVE  /\ RefusedLocally(c) => granted0[call[c].key] = Limit
             /\ RefusedByRedis(c) =>
                    granted[call[c].key][call[c].age]
                        + unheard[call[c].key][call[c].age] >= Limit
  <2>1. ASSUME RefusedLocally(c) PROVE granted0[call[c].key] = Limit
    <3>1. IncrementLocal(c)
      BY <1>1, <2>1, OwnStep DEF RefusedLocally
    <3>. QED
      BY <1>1, <2>1, <3>1, LocalRefusal DEF RefusedLocally
  <2>2. ASSUME RefusedByRedis(c)
        PROVE  granted[call[c].key][call[c].age]
                   + unheard[call[c].key][call[c].age] >= Limit
    <3>1. RedisAnswers(c)
      BY <1>1, <2>2, OwnStep DEF RefusedByRedis
    <3>. QED
      BY <1>1, <2>2, <3>1, RedisRefusal DEF RefusedByRedis
  <2>. QED
    BY <2>1, <2>2
<1>2. ASSUME LimitInv, [Next]_vars
      PROVE  \A c \in Calls :
                 /\ RefusedLocally(c) => granted0[call[c].key] = Limit
                 /\ RefusedByRedis(c) =>
                        granted[call[c].key][call[c].age]
                            + unheard[call[c].key][call[c].age] >= Limit
  BY <1>1, <1>2
<1>. QED
  BY <1>2, LimitInvariance, PTL DEF Spec, RefusedAtLimit

-----------------------------------------------------------------------------
(* The map of buckets.                                                     *)

\* A call adds at most the bucket of its key; from the threshold on the
\* buckets of past windows go first.
LEMMA CallBounded ==
    ASSUME IsFiniteSet(Keys), LimitInv, NEW c \in Calls, IncrementLocal(c)
    PROVE  LocalBounded'
<1>. DEFINE k == call[c].key
            bucket == Bumped(Cleaned[k])
<1>1. /\ k \in Keys /\ bucket \in Bucket /\ bucket.window = "now"
      /\ local' = [Cleaned EXCEPT ![k] = bucket]
  BY LocalCount
<1>. HIDE DEF k, bucket
<1>2. local \in [Keys -> Bucket] /\ Cleaned \in [Keys -> Bucket]
  <2>1. local \in [Keys -> Bucket]
    BY DEF LimitInv, TypeOK, Bucket
  <2>. QED
    BY <1>1, <2>1, CleanedBuckets DEF LimitInv
<1>3. IsFiniteSet(Tracked)
  BY FS_Subset DEF Tracked
<1>4. CASE Cardinality(Tracked) < Threshold
  <2>1. Cleaned = local
    BY <1>4 DEF Cleaned
  <2>2. Tracked' = Tracked \cup {k}
    BY <1>1, <1>2, <2>1 DEF Tracked
  <2>3. Cardinality(Tracked') <= Threshold /\ Cardinality(Tracked') \in Nat
    <3>1. Cardinality(Tracked) \in Nat
      BY <1>3, FS_CardinalityType
    <3>2. Cardinality(Tracked \cup {k}) =
              IF k \in Tracked THEN Cardinality(Tracked) ELSE Cardinality(Tracked) + 1
      BY <1>3, FS_AddElement
    <3>3. Cardinality(Tracked') \in {Cardinality(Tracked), Cardinality(Tracked) + 1}
      BY <2>2, <3>2
    <3>. QED
      BY <1>4, <3>1, <3>3, Numbers
  <2>. QED
    BY <2>3, Numbers DEF LocalBounded
<1>5. CASE ~(Cardinality(Tracked) < Threshold)
  <2>1. Cleaned = [x \in Keys |-> IF local[x].window \in Past THEN NoBucket ELSE local[x]]
    BY <1>5 DEF Cleaned
  <2>2. ASSUME NEW x \in Keys
        PROVE  local'[x].window \in {"none", "now"}
    <3>1. local[x].window \in {"none", "now"} \cup Past
      BY <1>2 DEF Bucket
    <3>2. Cleaned[x].window \in {"none", "now"}
      BY <2>1, <3>1 DEF NoBucket
    <3>. QED
      BY <1>1, <1>2, <3>2
  <2>. QED
    BY <2>2 DEF LocalBounded, Tracked
<1>. QED
  BY <1>4, <1>5

\* Beyond the threshold the buckets kept are all of one window, that of the
\* latest call (ratelimit.go 85-94): the map may grow with the keys of that
\* window, however many they are, but not with those of windows gone by.
THEOREM IdleMapBounded ==
    ASSUME IsFiniteSet(Keys)
    PROVE  Spec => []LocalBounded
<1>1. Init => LocalBounded
  BY DEF Init, LocalBounded, Tracked, NoBucket
<1>2. ASSUME LimitInv, LocalBounded, [Next]_vars
      PROVE  LocalBounded'
  <2>1. CASE local' = local
    <3>1. Tracked' = Tracked
      BY <2>1 DEF Tracked
    <3>. QED
      BY <1>2, <2>1, <3>1 DEF LocalBounded
  <2>2. CASE NextWindow
    <3>1. local \in [Keys -> Bucket] /\ local' = [k \in Keys |-> Overtaken(local[k])]
      BY <1>2, <2>2 DEF NextWindow, LimitInv, TypeOK, Bucket
    <3>2. ASSUME NEW k \in Keys
          PROVE  /\ local'[k].window =
                        IF local[k].window = "now" THEN "last"
                        ELSE IF local[k].window = "last" THEN "older" ELSE local[k].window
                 /\ local'[k].window = "none" <=> local[k].window = "none"
      BY <3>1, OvertakenBucket
    <3>3. Tracked' = Tracked
      BY <3>2 DEF Tracked
    <3>. QED
      BY <1>2, <3>2, <3>3 DEF LocalBounded, Tracked
  <2>3. ASSUME NEW c \in Calls, IncrementLocal(c)
        PROVE  LocalBounded'
    BY <1>2, <2>3, CallBounded
  <2>. QED
    BY <1>2, <2>1, <2>2, <2>3
       DEF Next, vars, Serve, Tick, Arrive, RedisAnswers, RedisRepeats, RedisFails,
           TickWithin
<1>. QED
  BY <1>1, <1>2, LimitInvariance, PTL DEF Spec
=============================================================================
