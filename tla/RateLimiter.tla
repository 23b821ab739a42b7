----------------------------- MODULE RateLimiter -----------------------------
(***************************************************************************)
(* One limiter of the router: how often a key, a client's address with a   *)
(* route, is let through per window.  The count is kept in Redis under the *)
(* window and the key; when Redis does not answer, in buckets of this      *)
(* process, under a mutex.                                                 *)
(*                                                                         *)
(* Time passes in ticks.  A window is known by its age: 0 is the one that  *)
(* runs, 1 the one before; no call is older, because the Redis client      *)
(* gives up after Patience ticks, all its attempts together (external, as  *)
(* are the counters' expiry and the outcomes of a command).                *)
(***************************************************************************)
EXTENDS Naturals, FiniteSets

CONSTANTS Keys, Calls,
          Limit,        \* lets through, per window and key
          Threshold,    \* buckets from which on they are cleaned (512)
          WithRedis,    \* whether a Redis client is configured
          WindowTicks,  \* one minute
          ExpiryTicks,  \* two minutes
          Patience      \* ticks a call may wait for Redis, repeated or not

ASSUME LimiterAssumption ==
    /\ {Limit, Threshold, WindowTicks, ExpiryTicks, Patience} \subseteq Nat \ {0}
    /\ WithRedis \in BOOLEAN
    /\ Patience <= WindowTicks
    /\ WindowTicks + Patience <= ExpiryTicks

Ages == {0, 1}

VARIABLES tick,     \* of the running window
          redis,    \* key, age of the window -> its counter and its life
          local,    \* key -> its bucket in this process
          call,     \* call -> where the middleware stands
          granted,  \* key, age -> let through on the count of Redis
          unheard,  \* key, age -> counted there without an answer to the call
          granted0  \* key -> let through on its bucket, in the running window

vars == <<tick, redis, local, call, granted, unheard, granted0>>

NoCounter == [count |-> 0, life |-> 0]
NoBucket == [window |-> "none", count |-> 0]
Idle == [at |-> "idle"]

Init ==
    /\ tick = 0
    /\ redis = [k \in Keys |-> [a \in Ages |-> NoCounter]]
    /\ local = [k \in Keys |-> NoBucket]
    /\ call = [c \in Calls |-> Idle]
    /\ granted = [k \in Keys |-> [a \in Ages |-> 0]]
    /\ unheard = [k \in Keys |-> [a \in Ages |-> 0]]
    /\ granted0 = [k \in Keys |-> 0]

\* Counts beyond the limit are alike; so are as many unheard ones as the limit.
OneMore(n) == IF n > Limit THEN n ELSE n + 1
UpToLimit(n) == IF n < Limit THEN n + 1 ELSE n

\* The counter is named after the window in which the call was made.
Arrive(c, k) ==
    /\ call[c] = Idle
    /\ call' = [call EXCEPT ![c] =
           IF WithRedis THEN [at |-> "redis", key |-> k, age |-> 0, left |-> Patience]
                        ELSE [at |-> "local", key |-> k]]
    /\ UNCHANGED <<tick, redis, local, granted, unheard, granted0>>

-----------------------------------------------------------------------------
(* The count in Redis.                                                     *)

\* INCR and EXPIRE, in one transaction of Redis.  (Faulty variant: a counter
\* lives for one window.)
IncrementedBriefly(counter) == [count |-> OneMore(counter.count), life |-> WindowTicks]
Incremented(counter) == [count |-> OneMore(counter.count), life |-> ExpiryTicks]

Counter(c) == redis[call[c].key][call[c].age]
Increment(c) == redis' = [redis EXCEPT ![call[c].key][call[c].age] = Incremented(@)]

\* The command is carried out, and the client does not hear of it.
CountsUnheard(c) ==
    /\ Increment(c)
    /\ unheard' = [unheard EXCEPT ![call[c].key][call[c].age] = UpToLimit(@)]

\* (Faulty variant: the limit itself is refused.)
RedisAnswersBelow(c) ==
    /\ call[c].at = "redis"
    /\ Increment(c)
    /\ granted' = IF Incremented(Counter(c)).count >= Limit THEN granted
                  ELSE [granted EXCEPT ![call[c].key][call[c].age] = @ + 1]
    /\ call' = [call EXCEPT ![c] = Idle]
    /\ UNCHANGED <<tick, local, unheard, granted0>>

RedisAnswers(c) ==
    /\ call[c].at = "redis"
    /\ Increment(c)
    /\ granted' = IF Incremented(Counter(c)).count > Limit THEN granted
                  ELSE [granted EXCEPT ![call[c].key][call[c].age] = @ + 1]
    /\ call' = [call EXCEPT ![c] = Idle]
    /\ UNCHANGED <<tick, local, unheard, granted0>>

\* The client repeats by itself a command that failed, which Redis may have
\* carried out before.  How often is left open: three times by default.
RedisRepeats(c) ==
    /\ call[c].at = "redis"
    /\ CountsUnheard(c)
    /\ UNCHANGED <<tick, local, call, granted, granted0>>

\* No answer to the last attempt, whether it was carried out or not.
RedisFails(c) ==
    /\ call[c].at = "redis"
    /\ CountsUnheard(c) \/ UNCHANGED <<redis, unheard>>
    /\ call' = [call EXCEPT ![c] = [at |-> "local", key |-> call[c].key]]
    /\ UNCHANGED <<tick, local, granted, granted0>>

-----------------------------------------------------------------------------
(* The count in the process, one call at a time.                           *)

Tracked == {k \in Keys : local[k].window # "none"}
Past == {"last", "older"}

Cleaned ==
    IF Cardinality(Tracked) < Threshold THEN local
    ELSE [k \in Keys |-> IF local[k].window \in Past THEN NoBucket ELSE local[k]]

Bumped(bucket) ==
    [window |-> "now", count |-> IF bucket.window = "now" THEN OneMore(bucket.count) ELSE 1]

IncrementLocal(c) ==
    /\ call[c].at = "local"
    /\ LET k == call[c].key
           bucket == Bumped(Cleaned[k])
       IN  /\ local' = [Cleaned EXCEPT ![k] = bucket]
           /\ granted0' = IF bucket.count > Limit THEN granted0
                          ELSE [granted0 EXCEPT ![k] = @ + 1]
    /\ call' = [call EXCEPT ![c] = Idle]
    /\ UNCHANGED <<tick, redis, granted, unheard>>

-----------------------------------------------------------------------------
(* Time.                                                                   *)

Aged(counter) == IF counter.life <= 1 THEN NoCounter ELSE [counter EXCEPT !.life = @ - 1]

\* No call waits for Redis any longer than it may.  (Faulty variant: the client
\* has no time limit.)
NoTimeLimit == TRUE
InTime == \A c \in Calls : call[c].at = "redis" => call[c].left > 0

Waited(c, older) == IF call[c].at = "redis"
                    THEN [call[c] EXCEPT !.left = @ - 1, !.age = @ + older]
                    ELSE call[c]

TickWithin ==
    /\ InTime /\ tick + 1 < WindowTicks
    /\ tick' = tick + 1
    /\ redis' = [k \in Keys |-> [a \in Ages |-> Aged(redis[k][a])]]
    /\ call' = [c \in Calls |-> Waited(c, 0)]
    /\ UNCHANGED <<local, granted, unheard, granted0>>

\* The minute a bucket was made in is no longer the current one; beyond the last
\* one minutes are not told apart.
Overtaken(bucket) ==
    [bucket EXCEPT !.window = IF @ = "now" THEN "last"
                              ELSE IF @ = "last" THEN "older" ELSE @]

\* A new window: every name of a window is one older.
NextWindow ==
    /\ InTime /\ tick + 1 = WindowTicks
    /\ tick' = 0
    /\ redis' = [k \in Keys |-> [a \in Ages |->
                     IF a = 0 THEN NoCounter ELSE Aged(redis[k][0])]]
    /\ granted' = [k \in Keys |-> [a \in Ages |-> IF a = 0 THEN 0 ELSE granted[k][0]]]
    /\ unheard' = [k \in Keys |-> [a \in Ages |-> IF a = 0 THEN 0 ELSE unheard[k][0]]]
    /\ granted0' = [k \in Keys |-> 0]
    /\ local' = [k \in Keys |-> Overtaken(local[k])]
    /\ call' = [c \in Calls |-> Waited(c, 1)]

Tick == TickWithin \/ NextWindow

Serve(c) == RedisAnswers(c) \/ RedisRepeats(c) \/ RedisFails(c) \/ IncrementLocal(c)

Next == \/ \E c \in Calls : Serve(c) \/ \E k \in Keys : Arrive(c, k)
        \/ Tick

Spec == Init /\ [][Next]_vars
-----------------------------------------------------------------------------
Counts == 0..(Limit + 1)

TypeOK ==
    /\ tick \in 0..(WindowTicks - 1)
    /\ redis \in [Keys -> [Ages -> [count : Counts, life : 0..ExpiryTicks]]]
    /\ local \in [Keys -> [window : {"none", "now"} \cup Past, count : Counts]]
    /\ call \in [Calls -> {Idle} \cup [at : {"local"}, key : Keys]
                     \cup [at : {"redis"}, key : Keys, age : Ages, left : 0..Patience]]
    /\ granted \in [Keys -> [Ages -> Nat]] /\ granted0 \in [Keys -> Nat]
    /\ unheard \in [Keys -> [Ages -> 0..Limit]]

\* ratelimit.go 57-83: on the count of one backend no key is let through more
\* often than the limit in a window, though calls of the window arrive at Redis
\* in the next one, are counted without an answer, and counters and buckets are
\* dropped meanwhile.
AdmittedWithinLimit ==
    \A k \in Keys : /\ \A a \in Ages : granted[k][a] <= Limit
                    /\ granted0[k] <= Limit

\* ratelimit.go 85-94: beyond the threshold the process keeps buckets of one
\* window only, that of the latest call: the map may grow with the keys of that
\* window, however many they are, but not with those of windows gone by.
LocalBounded ==
    Cardinality(Tracked) > Threshold =>
        \A k, l \in Tracked : local[k].window = local[l].window

\* ratelimit.go 41-51: a call is refused only when the limit of its window is
\* used up where it was counted: on a bucket, by calls let through on it; in
\* Redis, by calls let through and by commands carried out there whose answer
\* did not arrive.  So Redis may refuse early, by as many as it counted unheard,
\* but no count of a past window or of another key takes part.
RefusedLocally(c) == /\ call[c].at = "local" /\ call'[c] = Idle
                     /\ granted0'[call[c].key] = granted0[call[c].key]
RefusedByRedis(c) == /\ call[c].at = "redis" /\ call'[c] = Idle
                     /\ granted'[call[c].key] = granted[call[c].key]

RefusedAtLimit ==
    [][\A c \in Calls :
           /\ RefusedLocally(c) => granted0[call[c].key] = Limit
           /\ RefusedByRedis(c) =>
                  granted[call[c].key][call[c].age]
                      + unheard[call[c].key][call[c].age] >= Limit]_vars
=============================================================================
