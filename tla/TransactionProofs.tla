-------------------------- MODULE TransactionProofs --------------------------
(***************************************************************************)
(* For all receipts, directives, gates and workers: no wait in a circle,   *)
(* and the commits implement AtomicStore.  Both follow from one invariant: *)
(* a transaction writes rows of rising rank, holds what it wrote, and has  *)
(* an entry for each row before it writes the next.                        *)
(***************************************************************************)
EXTENDS Transaction, TLAPS

\* The order in which the services write: receipt, directive, gate.
Rank(x) == IF x \in Confirmations THEN 1 ELSE IF x \in Directives THEN 2 ELSE 3

Units == {Listed(plan.todo) : plan \in Plans}

Transactions == [kind : Kinds, todo : Seq(Records), next : Steps,
                 copy : [Records -> Nat], wrote : SUBSET Records,
                 logged : SUBSET Records, signed : SUBSET Records]

Below(S, s) == \A x \in S, i \in DOMAIN s : Rank(x) < Rank(s[i])
Rising(s) == \A i, j \in DOMAIN s : i < j => Rank(s[i]) < Rank(s[j])

\* How far a transaction is.
Ahead(t) == t.next \in {"write", "approve", "entry"}

Sound(t) ==
    /\ Rising(t.todo)
    /\ Ahead(t) => Below(t.logged, t.todo)
    /\ t.next = "write" => t.wrote = t.logged
    /\ t.next \in {"approve", "entry"} =>
           t.todo # <<>> /\ t.wrote = t.logged \cup {Head(t.todo)}
    /\ Ahead(t) => /\ t.wrote \cup Listed(t.todo) \in Units
                   /\ t.kind \in {"delete", "sign"} =>
                          \E x \in Records : t.wrote \cup Listed(t.todo) = {x}
                   /\ t.kind # "sign" => t.signed = {} /\ t.next # "approve"
                   /\ t.kind = "sign" =>
                          t.signed = IF t.next = "approve" THEN {} ELSE t.wrote

\* What it wrote is held, and is still as it was found.
Keeps(w) ==
    \A x \in tx[w].wrote :
        /\ holder[x] = w
        /\ ~rows[x].deleted
        /\ tx[w].kind # "delete" => rows[x].version = tx[w].copy[x]

Inv ==
    /\ TypeOK
    /\ \A w \in Workers : Running(w) => tx[w].next # "begin" /\ Sound(tx[w]) /\ Keeps(w)
    /\ \A w \in Workers, x \in Records :
           holder[x] = w => Running(w) /\ (x \in tx[w].wrote \/ tx[w].next = "rollback")

-----------------------------------------------------------------------------
LEMMA RankType == \A x \in Records : Rank(x) \in 1..3
BY DEF Rank

LEMMA RankOf ==
    /\ \A c \in Confirmations : c \in Records /\ Rank(c) = 1
    /\ \A d \in Directives : d \in Records /\ Rank(d) = 2
    /\ \A g \in Gates : g \in Records /\ Rank(g) = 3
BY TransactionAssumption DEF Rank, Records

LEMMA RisingPair ==
    ASSUME NEW a \in Records, NEW b \in Records, Rank(a) < Rank(b)
    PROVE  <<a, b>> \in Seq(Records) /\ Rising(<<a, b>>)
<1> DEFINE s == <<a, b>>
<1>1. s \in Seq(Records) /\ DOMAIN s = 1..2 /\ s[1] = a /\ s[2] = b
    OBVIOUS
<1> HIDE DEF s
<1>2. Rising(s)
    BY <1>1 DEF Rising
<1>3. QED BY <1>1, <1>2 DEF s

LEMMA RisingTriple ==
    ASSUME NEW a \in Records, NEW b \in Records, NEW c \in Records,
           Rank(a) < Rank(b), Rank(b) < Rank(c)
    PROVE  <<a, b, c>> \in Seq(Records) /\ Rising(<<a, b, c>>)
<1> DEFINE s == <<a, b, c>>
<1>1. s \in Seq(Records) /\ DOMAIN s = 1..3 /\ s[1] = a /\ s[2] = b /\ s[3] = c
    OBVIOUS
<1> HIDE DEF s
<1>2. Rising(s)
    BY <1>1, RankType DEF Rising
<1>3. QED BY <1>1, <1>2 DEF s

LEMMA PlanFacts ==
    ASSUME NEW plan \in Plans
    PROVE  /\ plan.kind \in Kinds \ {"none"}
           /\ plan.todo \in Seq(Records)
           /\ Rising(plan.todo)
           /\ plan.kind \in {"delete", "sign"} =>
                  \E x \in Records : Listed(plan.todo) = {x}
<1>1. ASSUME NEW x \in Records, plan.todo = <<x>>, plan.kind \in Kinds \ {"none"}
      PROVE  plan.todo \in Seq(Records) /\ Rising(plan.todo) /\ Listed(plan.todo) = {x}
    BY <1>1 DEF Rising, Listed
<1>2. ASSUME NEW c \in Confirmations, plan.kind = "update", plan.todo \in Settlement(c)
      PROVE  plan.todo \in Seq(Records) /\ Rising(plan.todo)
  <2> DEFINE d == DirectiveOf[c]
             g == GateOf[d]
  <2>1. d \in Directives /\ g \in Gates
    BY TransactionAssumption
  <2>2. c \in Records /\ d \in Records /\ g \in Records /\ Rank(c) = 1 /\ Rank(d) = 2 /\ Rank(g) = 3
    BY <2>1, RankOf
  <2>3. plan.todo = <<c, d>> \/ plan.todo = <<c, d, g>>
    BY <1>2 DEF Settlement
  <2> HIDE DEF d, g
  <2>4. Rank(c) < Rank(d) /\ Rank(d) < Rank(g)
    BY <2>2
  <2>5. <<c, d>> \in Seq(Records) /\ Rising(<<c, d>>)
    BY <2>2, <2>4, RisingPair
  <2>6. <<c, d, g>> \in Seq(Records) /\ Rising(<<c, d, g>>)
    BY <2>2, <2>4, RisingTriple
  <2>7. QED BY <2>3, <2>5, <2>6
<1>3. ASSUME NEW d \in Directives, plan.kind = "move", plan.todo \in DirectiveMove(d)
      PROVE  plan.todo \in Seq(Records) /\ Rising(plan.todo)
  <2> DEFINE g == GateOf[d]
  <2>1. g \in Gates
    BY TransactionAssumption
  <2>2. d \in Records /\ g \in Records /\ Rank(d) = 2 /\ Rank(g) = 3
    BY <2>1, RankOf
  <2>3. plan.todo = <<d>> \/ plan.todo = <<d, g>>
    BY <1>3 DEF DirectiveMove
  <2> HIDE DEF g
  <2>4. <<d>> \in Seq(Records) /\ Rising(<<d>>)
    BY <2>2 DEF Rising
  <2>5. Rank(d) < Rank(g)
    BY <2>2
  <2>6. <<d, g>> \in Seq(Records) /\ Rising(<<d, g>>)
    BY <2>2, <2>5, RisingPair
  <2>7. QED BY <2>3, <2>4, <2>6
<1>4. \/ \E x \in Records : plan.todo = <<x>> /\ plan.kind \in {"update", "delete", "sign"}
      \/ \E c \in Confirmations : plan.kind = "update" /\ plan.todo \in Settlement(c)
      \/ \E d \in Directives : plan.kind = "move" /\ plan.todo \in DirectiveMove(d)
    BY RankOf DEF Plans
<1>5. QED BY <1>1, <1>2, <1>3, <1>4 DEF Kinds

LEMMA NoTransactionType == NoTransaction \in Transactions
BY DEF NoTransaction, Transactions, Kinds, Steps

LEMMA InitInv == Init => Inv
<1>1. Init => TypeOK
  BY NoTransactionType DEF Init, TypeOK, Transactions
<1>2. QED BY <1>1, TransactionAssumption DEF Init, Inv, Running

-----------------------------------------------------------------------------
\* The holders h fit a transaction t of w: what it wrote is held and as it was
\* found, and it took only what was free.
Fits(w, t, h) ==
    /\ h \in [Records -> Workers \cup {Nobody}]
    /\ \A x \in t.wrote : /\ h[x] = w
                          /\ ~rows[x].deleted
                          /\ t.kind # "delete" => rows[x].version = t.copy[x]
    /\ \A x \in Records : /\ h[x] # holder[x] => holder[x] = Nobody /\ h[x] = w
                          /\ h[x] = w => x \in t.wrote \/ t.next = "rollback"

\* A worker's transaction advances, nothing is committed.
LEMMA Advance ==
    ASSUME Inv, NEW w \in Workers, NEW t \in Transactions, NEW h,
           tx' = [tx EXCEPT ![w] = t], UNCHANGED committed,
           t.next # "begin", Sound(t), Fits(w, t, h), holder' = h
    PROVE  Inv'
<1>0. /\ h \in [Records -> Workers \cup {Nobody}]
      /\ \A y \in t.wrote : /\ h[y] = w
                            /\ ~rows[y].deleted
                            /\ t.kind # "delete" => rows[y].version = t.copy[y]
      /\ \A y \in Records : h[y] # holder[y] => holder[y] = Nobody /\ h[y] = w
      /\ \A y \in Records : h[y] = w => y \in t.wrote \/ t.next = "rollback"
    BY DEF Fits
<1>1. TypeOK'
    BY <1>0 DEF Inv, TypeOK, Transactions, committed
<1>2. tx'[w] = t /\ \A v \in Workers \ {w} : tx'[v] = tx[v]
    BY DEF Inv, TypeOK
<1>3. ASSUME NEW v \in Workers, Running(v)'
      PROVE (tx[v].next # "begin" /\ Sound(tx[v]) /\ Keeps(v))'
  <2>1. CASE v = w
    BY <1>0, <1>2, <2>1 DEF Keeps, committed
  <2>2. CASE v # w
    <3>1. Running(v) /\ tx'[v] = tx[v]
      BY <1>2, <1>3, <2>2 DEF Running
    <3>2. tx[v].next # "begin" /\ Sound(tx[v]) /\ Keeps(v)
      BY <3>1 DEF Inv
    <3>3. tx[v].wrote \subseteq Records
      BY DEF Inv, TypeOK
    <3>4. \A x \in tx[v].wrote : holder'[x] = v
      BY <1>0, <2>2, <3>2, <3>3, TransactionAssumption DEF Keeps
    <3>5. QED BY <3>1, <3>2, <3>4 DEF Keeps, committed
  <2>3. QED BY <2>1, <2>2
<1>4. ASSUME NEW v \in Workers, NEW x \in Records, holder'[x] = v
      PROVE Running(v)' /\ (x \in tx'[v].wrote \/ tx'[v].next = "rollback")
  <2>1. CASE v = w
    BY <1>0, <1>2, <1>4, <2>1 DEF Running, NoTransaction
  <2>2. CASE v # w
    <3>1. holder[x] = v
      BY <1>0, <1>4, <2>2
    <3>2. Running(v) /\ (x \in tx[v].wrote \/ tx[v].next = "rollback")
      BY <3>1 DEF Inv
    <3>3. QED BY <1>2, <2>2, <3>2 DEF Running
  <2>3. QED BY <2>1, <2>2
<1>5. QED BY <1>1, <1>3, <1>4 DEF Inv

LEMMA BeginInv ==
    ASSUME Inv, NEW w \in Workers, NEW plan \in Plans, Begin(w, plan) PROVE Inv'
<1> DEFINE read == [x \in Records |-> IF x \in Listed(plan.todo) THEN rows[x].version ELSE 0]
           t == [kind |-> plan.kind, todo |-> plan.todo, next |-> "write", copy |-> read,
                 wrote |-> {}, logged |-> {}, signed |-> {}]
<1>1. read \in [Records -> Nat]
    BY DEF Inv, TypeOK
<1>2. tx' = [tx EXCEPT ![w] = t] /\ UNCHANGED <<committed, holder>> /\ ~Running(w)
    BY DEF Begin
<1> HIDE DEF read
<1>3. t \in Transactions
    BY <1>1, PlanFacts DEF Transactions, Steps
<1>4. /\ t.todo = plan.todo /\ t.kind = plan.kind /\ t.next = "write"
      /\ t.wrote = {} /\ t.logged = {} /\ t.signed = {}
    OBVIOUS
<1> HIDE DEF t
<1>5. {} \cup Listed(plan.todo) = Listed(plan.todo)
    OBVIOUS
<1>6. Listed(plan.todo) \in Units
    BY DEF Units
<1>7. Sound(t)
    BY <1>4, <1>5, <1>6, PlanFacts DEF Sound, Below, Ahead
<1>8. \A x \in Records : holder[x] # w
    BY <1>2 DEF Inv
<1>9. Fits(w, t, holder)
    BY <1>2, <1>4, <1>8 DEF Fits, Inv, TypeOK
<1>10. t.next # "begin"
    BY <1>4
<1>11. holder' = holder
    BY <1>2
<1>12. QED BY <1>2, <1>3, <1>7, <1>9, <1>10, <1>11, Advance

-----------------------------------------------------------------------------
(* The statements.  What a running transaction is, in the terms of `Advance'. *)

LEMMA RunningFacts ==
    ASSUME Inv, NEW w \in Workers, Running(w)
    PROVE  /\ tx[w] \in Transactions
           /\ tx[w].next # "begin" /\ Sound(tx[w]) /\ Keeps(w)
           /\ holder \in [Records -> Workers \cup {Nobody}]
           /\ \A x \in Records : holder[x] = w => x \in tx[w].wrote \/ tx[w].next = "rollback"
BY DEF Inv, TypeOK, Transactions

LEMMA HeadTail ==
    ASSUME NEW s \in Seq(Records), s # <<>>
    PROVE  /\ Head(s) \in Records /\ Tail(s) \in Seq(Records)
           /\ 1 \in DOMAIN s /\ Head(s) = s[1]
           /\ \A i \in DOMAIN Tail(s) :
                  i \in Nat /\ i + 1 \in DOMAIN s /\ 1 < i + 1 /\ Tail(s)[i] = s[i + 1]
           /\ Listed(s) = {Head(s)} \cup Listed(Tail(s))
<1>1. /\ Head(s) \in Records /\ Tail(s) \in Seq(Records)
      /\ 1 \in DOMAIN s /\ Head(s) = s[1]
      /\ DOMAIN s = 1..Len(s) /\ DOMAIN Tail(s) = 1..(Len(s) - 1) /\ Len(s) \in Nat
      /\ \A i \in 1..(Len(s) - 1) : Tail(s)[i] = s[i + 1]
    OBVIOUS
<1>2. Listed(s) \subseteq {Head(s)} \cup Listed(Tail(s))
  <2>1. ASSUME NEW i \in DOMAIN s PROVE s[i] \in {Head(s)} \cup Listed(Tail(s))
    <3>1. CASE i = 1
      BY <1>1, <3>1
    <3>2. CASE i # 1
      <4>1. i - 1 \in DOMAIN Tail(s) /\ Tail(s)[i - 1] = s[i]
        BY <1>1, <3>2
      <4>2. QED BY <4>1 DEF Listed
    <3>3. QED BY <3>1, <3>2
  <2>2. QED BY <2>1 DEF Listed
<1>3. {Head(s)} \cup Listed(Tail(s)) \subseteq Listed(s)
  <2>1. \A i \in DOMAIN Tail(s) : Tail(s)[i] \in Listed(s)
    BY <1>1 DEF Listed
  <2>2. Head(s) \in Listed(s)
    BY <1>1 DEF Listed
  <2>3. QED BY <2>1, <2>2 DEF Listed
<1>4. QED BY <1>1, <1>2, <1>3

LEMMA WriteInv == ASSUME Inv, NEW w \in Workers, Write(w) PROVE Inv'
<1> DEFINE s == tx[w]
           x == Target(w)
<1>1. Running(w) /\ s.next = "write" /\ s.todo # <<>> /\ Granted(w) /\ Found(w)
    BY DEF Write, Sends
<1>2. /\ s \in Transactions /\ Sound(s) /\ Keeps(w)
      /\ holder \in [Records -> Workers \cup {Nobody}]
      /\ \A y \in Records : holder[y] = w => y \in s.wrote
    BY <1>1, RunningFacts
<1>3. x \in Records /\ x = Head(s.todo) /\ x \in Listed(s.todo)
    BY <1>1, <1>2, HeadTail DEF Target, Transactions
<1> DEFINE t1 == [s EXCEPT !.wrote = @ \cup {x}]
           t == [t1 EXCEPT !.next = IF s.kind = "sign" THEN "approve" ELSE "entry"]
<1>4. tx' = [tx EXCEPT ![w] = t] /\ holder' = [holder EXCEPT ![x] = w] /\ UNCHANGED committed
    BY <1>2 DEF Write, Transactions, Inv, TypeOK
<1>5. /\ t \in Transactions
      /\ t.kind = s.kind /\ t.todo = s.todo /\ t.copy = s.copy /\ t.logged = s.logged
      /\ t.signed = s.signed /\ t.wrote = s.wrote \cup {x}
      /\ t.next = IF s.kind = "sign" THEN "approve" ELSE "entry"
  <2>1. /\ t1 \in Transactions
        /\ t1.kind = s.kind /\ t1.todo = s.todo /\ t1.copy = s.copy /\ t1.logged = s.logged
        /\ t1.signed = s.signed /\ t1.wrote = s.wrote \cup {x} /\ t1.next = s.next
    BY <1>2, <1>3 DEF Transactions
  <2> HIDE DEF t1
  <2>2. QED BY <2>1 DEF Transactions, Steps
<1> HIDE DEF t, t1
<1>6. t.wrote \cup Listed(t.todo) = s.wrote \cup Listed(s.todo)
    BY <1>3, <1>5
<1>7. Sound(t)
  <2>1. Sound(s) /\ Ahead(s) /\ Ahead(t)
    BY <1>1, <1>2, <1>5 DEF Ahead
  <2>2. s.kind = "sign" => s.signed = {}
    <3>1. SUFFICES ASSUME s.kind = "sign" PROVE s.wrote = {}
      BY <1>1, <2>1 DEF Sound
    <3>2. PICK u \in Records : s.wrote \cup Listed(s.todo) = {u}
      BY <2>1, <3>1 DEF Sound
    <3>3. x = u
      BY <1>3, <3>2
    <3>4. Below(s.wrote, s.todo)
      BY <1>1, <2>1 DEF Sound
    <3>5. x \notin s.wrote
      <4>1. s.todo \in Seq(Records)
        BY <1>2 DEF Transactions
      <4>2. 1 \in DOMAIN s.todo /\ x = s.todo[1]
        BY <1>1, <1>3, <4>1, HeadTail
      <4>3. Rank(x) \in Nat
        BY <1>3, RankType
      <4> HIDE DEF s, x
      <4>4. x \in s.wrote => Rank(x) < Rank(x)
        BY <3>4, <4>2 DEF Below
      <4>5. QED BY <4>3, <4>4
    <3>6. QED BY <3>2, <3>3, <3>5
  <2>3. QED BY <1>1, <1>3, <1>5, <1>6, <2>1, <2>2 DEF Sound
<1> DEFINE h == [holder EXCEPT ![x] = w]
<1>8. Fits(w, t, h)
  <2>1. \A y \in t.wrote : /\ h[y] = w
                           /\ ~rows[y].deleted
                           /\ t.kind # "delete" => rows[y].version = t.copy[y]
    BY <1>1, <1>2, <1>3, <1>5 DEF Keeps, Found, Transactions
  <2>2. \A y \in Records : /\ h[y] # holder[y] => holder[y] = Nobody /\ h[y] = w
                           /\ h[y] = w => y \in t.wrote \/ t.next = "rollback"
    BY <1>1, <1>2, <1>3, <1>5 DEF Granted
  <2>3. h \in [Records -> Workers \cup {Nobody}]
    BY <1>2
  <2> HIDE DEF h
  <2>4. QED BY <2>1, <2>2, <2>3 DEF Fits
<1>9. holder' = h
    BY <1>4
<1> HIDE DEF h
<1>11. t.next # "begin"
    BY <1>5
<1>12. t \in Transactions /\ tx' = [tx EXCEPT ![w] = t] /\ UNCHANGED committed
    BY <1>4, <1>5
<1>13. QED BY <1>7, <1>8, <1>9, <1>11, <1>12, Advance

\* A transaction that has failed: nothing is asked of it but what it holds.
LEMMA FailedSound ==
    ASSUME NEW s \in Transactions, Sound(s), NEW t \in Transactions,
           t.todo = s.todo, t.next \in {"rollback_to", "rollback"}
    PROVE  Sound(t)
BY DEF Sound, Ahead

LEMMA UndoInv ==
    ASSUME Inv, NEW w \in Workers, Running(w), Undo(w), UNCHANGED <<committed, holder>>,
           tx[w].next \in {"write", "approve", "entry"}
    PROVE  Inv'
<1> DEFINE s == tx[w]
           t == [s EXCEPT !.next = IF Nested(w) THEN "rollback_to" ELSE "rollback"]
<1>1. /\ s \in Transactions /\ Sound(s) /\ Keeps(w)
      /\ holder \in [Records -> Workers \cup {Nobody}]
      /\ \A y \in Records : holder[y] = w => y \in s.wrote
    BY RunningFacts
<1>2. tx' = [tx EXCEPT ![w] = t] /\ UNCHANGED committed /\ holder' = holder
    BY DEF Undo, Inv, TypeOK
<1>3. /\ t \in Transactions
      /\ t.kind = s.kind /\ t.todo = s.todo /\ t.copy = s.copy /\ t.wrote = s.wrote
      /\ t.next \in {"rollback_to", "rollback"}
    BY <1>1 DEF Transactions, Steps
<1> HIDE DEF t
<1>4. Sound(t)
    BY <1>1, <1>3, FailedSound
<1>5. Fits(w, t, holder)
    BY <1>1, <1>3 DEF Fits, Keeps
<1>6. t.next # "begin"
    BY <1>3
<1>7. t \in Transactions /\ holder' = holder
    BY <1>2, <1>3
<1>8. QED BY <1>2, <1>4, <1>5, <1>6, <1>7, Advance

LEMMA MissInv == ASSUME Inv, NEW w \in Workers, Miss(w) PROVE Inv'
BY UndoInv DEF Miss, Sends

LEMMA StatementFailsInv == ASSUME Inv, NEW w \in Workers, StatementFails(w) PROVE Inv'
BY UndoInv DEF StatementFails

LEMMA ApproveInv == ASSUME Inv, NEW w \in Workers, Approve(w) PROVE Inv'
<1> DEFINE s == tx[w]
           x == Target(w)
           t1 == [s EXCEPT !.signed = @ \cup {x}]
           t == [t1 EXCEPT !.next = "entry"]
<1>1. /\ Running(w) /\ s.next = "approve" /\ s \in Transactions /\ Sound(s) /\ Keeps(w)
      /\ holder \in [Records -> Workers \cup {Nobody}]
      /\ \A y \in Records : holder[y] = w => y \in s.wrote
    BY RunningFacts DEF Approve, Sends
<1>2. /\ s.todo # <<>> /\ s.kind = "sign" /\ s.signed = {}
      /\ s.wrote = s.logged \cup {Head(s.todo)}
    BY <1>1 DEF Sound, Ahead
<1>3. x = Head(s.todo) /\ x \in Records
    BY <1>1, <1>2, HeadTail DEF Target, Transactions
<1>4. tx' = [tx EXCEPT ![w] = t] /\ UNCHANGED committed /\ holder' = holder
    BY <1>1 DEF Approve, Inv, TypeOK, Transactions
<1>5. /\ t \in Transactions
      /\ t.kind = s.kind /\ t.todo = s.todo /\ t.copy = s.copy /\ t.wrote = s.wrote
      /\ t.logged = s.logged /\ t.signed = s.signed \cup {x} /\ t.next = "entry"
  <2>1. /\ t1 \in Transactions
        /\ t1.kind = s.kind /\ t1.todo = s.todo /\ t1.copy = s.copy /\ t1.wrote = s.wrote
        /\ t1.logged = s.logged /\ t1.signed = s.signed \cup {x}
    BY <1>1, <1>3 DEF Transactions
  <2> HIDE DEF t1
  <2>2. QED BY <2>1 DEF Transactions, Steps
<1> HIDE DEF t, t1
<1>6. s.wrote = {x}
  <2>1. PICK u \in Records : s.wrote \cup Listed(s.todo) = {u}
    BY <1>1, <1>2 DEF Sound, Ahead
  <2>2. QED BY <1>2, <1>3, <2>1
<1>7. Sound(t)
    BY <1>1, <1>2, <1>5, <1>6 DEF Sound, Ahead
<1>8. Fits(w, t, holder)
    BY <1>1, <1>5 DEF Fits, Keeps
<1>9. t.next # "begin" /\ t \in Transactions /\ holder' = holder
    BY <1>4, <1>5
<1>10. QED BY <1>4, <1>7, <1>8, <1>9, Advance

LEMMA EntryInv == ASSUME Inv, NEW w \in Workers, Entry(w) PROVE Inv'
<1> DEFINE s == tx[w]
           x == Target(w)
           t1 == [s EXCEPT !.logged = @ \cup {x}]
           t2 == [t1 EXCEPT !.todo = Tail(@)]
           t == [t2 EXCEPT !.next = "write"]
<1>1. /\ Running(w) /\ s.next = "entry" /\ s \in Transactions /\ Sound(s) /\ Keeps(w)
      /\ holder \in [Records -> Workers \cup {Nobody}]
      /\ \A y \in Records : holder[y] = w => y \in s.wrote
    BY RunningFacts DEF Entry, Sends
<1>2. /\ s.todo # <<>> /\ s.wrote = s.logged \cup {Head(s.todo)} /\ Rising(s.todo)
      /\ Below(s.logged, s.todo)
      /\ s.todo \in Seq(Records) /\ s.logged \subseteq Records
    BY <1>1 DEF Sound, Ahead, Transactions
<1>3. /\ x = Head(s.todo) /\ x \in Records /\ Tail(s.todo) \in Seq(Records)
      /\ Listed(s.todo) = {x} \cup Listed(Tail(s.todo))
      /\ 1 \in DOMAIN s.todo /\ x = s.todo[1]
      /\ \A i \in DOMAIN Tail(s.todo) :
             i \in Nat /\ i + 1 \in DOMAIN s.todo /\ 1 < i + 1 /\ Tail(s.todo)[i] = s.todo[i + 1]
    BY <1>2, HeadTail DEF Target
<1>4. tx' = [tx EXCEPT ![w] = t] /\ UNCHANGED committed /\ holder' = holder
    BY <1>1 DEF Entry, Inv, TypeOK, Transactions
<1>5. /\ t \in Transactions
      /\ t.kind = s.kind /\ t.todo = Tail(s.todo) /\ t.copy = s.copy /\ t.wrote = s.wrote
      /\ t.logged = s.logged \cup {x} /\ t.signed = s.signed /\ t.next = "write"
  <2>1. /\ t1 \in Transactions
        /\ t1.kind = s.kind /\ t1.todo = s.todo /\ t1.copy = s.copy /\ t1.wrote = s.wrote
        /\ t1.logged = s.logged \cup {x} /\ t1.signed = s.signed
    BY <1>1, <1>3 DEF Transactions
  <2> HIDE DEF t1
  <2>2. /\ t2 \in Transactions
        /\ t2.kind = s.kind /\ t2.todo = Tail(s.todo) /\ t2.copy = s.copy /\ t2.wrote = s.wrote
        /\ t2.logged = s.logged \cup {x} /\ t2.signed = s.signed
    BY <1>3, <2>1 DEF Transactions
  <2> HIDE DEF t2
  <2>3. QED BY <2>2 DEF Transactions, Steps
<1> HIDE DEF t, t1, t2
<1>6. Rising(t.todo) /\ Below(t.logged, t.todo)
  <2>1. ASSUME NEW i \in DOMAIN t.todo, NEW j \in DOMAIN t.todo, i < j
        PROVE  Rank(t.todo[i]) < Rank(t.todo[j])
    <3>1. i + 1 \in DOMAIN s.todo /\ j + 1 \in DOMAIN s.todo /\ i + 1 < j + 1
      BY <1>3, <1>5, <2>1
    <3>2. QED BY <1>2, <1>3, <1>5, <3>1 DEF Rising
  <2>2. ASSUME NEW y \in t.logged, NEW i \in DOMAIN t.todo PROVE Rank(y) < Rank(t.todo[i])
    <3>1. i + 1 \in DOMAIN s.todo /\ 1 < i + 1 /\ t.todo[i] = s.todo[i + 1]
      BY <1>3, <1>5
    <3>2. CASE y = x
      BY <1>2, <1>3, <3>1, <3>2 DEF Rising
    <3>3. CASE y \in s.logged
      BY <1>2, <3>1, <3>3 DEF Below
    <3>4. QED BY <1>5, <3>2, <3>3
  <2>3. QED BY <2>1, <2>2 DEF Rising, Below
<1>7. t.wrote = t.logged /\ t.wrote \cup Listed(t.todo) = s.wrote \cup Listed(s.todo)
    BY <1>2, <1>3, <1>5
<1>8. Sound(t)
    BY <1>1, <1>5, <1>6, <1>7 DEF Sound, Ahead
<1>9. Fits(w, t, holder)
    BY <1>1, <1>5 DEF Fits, Keeps
<1>10. t.next # "begin" /\ t \in Transactions /\ holder' = holder
    BY <1>4, <1>5
<1>11. QED BY <1>4, <1>8, <1>9, <1>10, Advance

LEMMA RollbackToInv == ASSUME Inv, NEW w \in Workers, RollbackTo(w) PROVE Inv'
<1> DEFINE s == tx[w]
           t1 == [s EXCEPT !.wrote = {}]
           t2 == [t1 EXCEPT !.signed = {}]
           t == [t2 EXCEPT !.next = "rollback"]
<1>1. /\ Running(w) /\ s \in Transactions /\ Sound(s)
      /\ holder \in [Records -> Workers \cup {Nobody}]
    BY RunningFacts DEF RollbackTo, Sends
<1>2. tx' = [tx EXCEPT ![w] = t] /\ UNCHANGED committed /\ holder' = holder
    BY <1>1 DEF RollbackTo, Inv, TypeOK, Transactions
<1>3. t \in Transactions /\ t.todo = s.todo /\ t.wrote = {} /\ t.next = "rollback"
  <2>1. t1 \in Transactions /\ t1.todo = s.todo /\ t1.wrote = {}
    BY <1>1 DEF Transactions
  <2> HIDE DEF t1
  <2>2. t2 \in Transactions /\ t2.todo = s.todo /\ t2.wrote = {}
    BY <2>1 DEF Transactions
  <2> HIDE DEF t2
  <2>3. QED BY <2>2 DEF Transactions, Steps
<1> HIDE DEF t, t1, t2
<1>4. Sound(t)
    BY <1>1, <1>3, FailedSound
<1>5. Fits(w, t, holder)
    BY <1>1, <1>3 DEF Fits
<1>6. t.next # "begin" /\ t \in Transactions /\ holder' = holder
    BY <1>2, <1>3
<1>7. QED BY <1>2, <1>4, <1>5, <1>6, Advance

-----------------------------------------------------------------------------
\* A transaction ends, committed or rolled back: only its own rows change.
LEMMA EndInv ==
    ASSUME Inv, NEW w \in Workers,
           tx' = [tx EXCEPT ![w] = NoTransaction], holder' = Released(w),
           rows' \in [Records -> [version : Nat, deleted : BOOLEAN]],
           entries' \in [Records -> Nat], approvals' \in [Records -> Nat],
           \A x \in Records : holder[x] # w => rows'[x] = rows[x]
    PROVE  Inv'
<1>1. /\ holder' \in [Records -> Workers \cup {Nobody}]
      /\ \A x \in Records : holder'[x] = IF holder[x] = w THEN Nobody ELSE holder[x]
    BY DEF Released, Inv, TypeOK
<1>2. TypeOK'
    BY <1>1, NoTransactionType DEF Inv, TypeOK, Transactions
<1>3. tx'[w] = NoTransaction /\ \A v \in Workers \ {w} : tx'[v] = tx[v]
    BY DEF Inv, TypeOK
<1>4. ASSUME NEW v \in Workers, Running(v)'
      PROVE (tx[v].next # "begin" /\ Sound(tx[v]) /\ Keeps(v))'
  <2>1. v # w /\ tx'[v] = tx[v] /\ Running(v)
    BY <1>3, <1>4 DEF Running
  <2>2. tx[v].next # "begin" /\ Sound(tx[v]) /\ Keeps(v) /\ tx[v] \in Transactions
    BY <2>1, RunningFacts
  <2>3. \A x \in tx[v].wrote : x \in Records /\ holder'[x] = v /\ rows'[x] = rows[x]
    BY <1>1, <2>1, <2>2 DEF Keeps, Transactions
  <2>4. QED BY <2>1, <2>2, <2>3 DEF Keeps
<1>5. ASSUME NEW v \in Workers, NEW x \in Records, holder'[x] = v
      PROVE Running(v)' /\ (x \in tx'[v].wrote \/ tx'[v].next = "rollback")
  <2>1. v # w /\ holder[x] = v
    BY <1>1, <1>5, TransactionAssumption
  <2>2. QED BY <1>3, <2>1 DEF Inv, Running
<1>6. QED BY <1>2, <1>4, <1>5 DEF Inv

LEMMA RollbackInv == ASSUME Inv, NEW w \in Workers, Rollback(w) PROVE Inv'
BY EndInv DEF Rollback, committed, Inv, TypeOK

\* What there is to commit: every row with its entry, and with its approval row
\* if it is to have one.
LEMMA Complete ==
    ASSUME Inv, NEW w \in Workers, Commit(w)
    PROVE  /\ Keeps(w) /\ tx[w] \in Transactions
           /\ tx[w].logged = tx[w].wrote /\ tx[w].wrote \in Units
           /\ tx[w].kind = "delete" => \E x \in Records : tx[w].wrote = {x}
           /\ tx[w].signed \in {{}, tx[w].wrote}
           /\ tx[w].kind = "delete" => tx[w].signed = {}
<1>1. /\ tx[w] \in Transactions /\ Sound(tx[w]) /\ Keeps(w)
      /\ tx[w].next = "write" /\ tx[w].todo = <<>>
    BY RunningFacts DEF Commit, Sends
<1>2. Listed(tx[w].todo) = {}
    BY <1>1 DEF Listed
<1>3. tx[w].wrote \cup Listed(tx[w].todo) = tx[w].wrote
    BY <1>2
<1>4. QED BY <1>1, <1>3 DEF Sound, Ahead

LEMMA CommittedRows ==
    ASSUME Inv, NEW w \in Workers, Commit(w), NEW x \in Records
    PROVE  rows'[x] = IF x \notin tx[w].wrote THEN rows[x]
                      ELSE IF tx[w].kind = "delete"
                           THEN [version |-> rows[x].version, deleted |-> TRUE]
                      ELSE [version |-> rows[x].version + 1, deleted |-> rows[x].deleted]
<1>1. rows'[x] = RowAfter(w, x)
    BY DEF Commit
<1>2. rows[x] \in [version : Nat, deleted : BOOLEAN]
    BY DEF Inv, TypeOK
<1>3. CASE x \notin tx[w].wrote
    BY <1>1, <1>3 DEF RowAfter
<1>4. CASE x \in tx[w].wrote /\ tx[w].kind = "delete"
  <2>1. rows'[x] = [rows[x] EXCEPT !.deleted = TRUE]
    BY <1>1, <1>4 DEF RowAfter
  <2>2. QED BY <1>2, <1>4, <2>1
<1>5. CASE x \in tx[w].wrote /\ tx[w].kind # "delete"
  <2>1. rows[x].version = tx[w].copy[x]
    BY <1>5, Complete DEF Keeps
  <2>2. rows'[x] = [rows[x] EXCEPT !.version = rows[x].version + 1]
    BY <1>1, <1>5, <2>1 DEF RowAfter
  <2>3. QED BY <1>2, <1>5, <2>2
<1>6. QED BY <1>3, <1>4, <1>5

LEMMA CommitInv == ASSUME Inv, NEW w \in Workers, Commit(w) PROVE Inv'
<1>1. rows' \in [Records -> [version : Nat, deleted : BOOLEAN]]
  <2>1. ASSUME NEW x \in Records PROVE rows'[x] \in [version : Nat, deleted : BOOLEAN]
    <3>1. rows[x].version \in Nat /\ rows[x].deleted \in BOOLEAN
          /\ rows[x] \in [version : Nat, deleted : BOOLEAN]
      BY DEF Inv, TypeOK
    <3>2. rows[x].version + 1 \in Nat
      BY <3>1
    <3>3. \/ rows'[x] = rows[x]
          \/ rows'[x] = [version |-> rows[x].version, deleted |-> TRUE]
          \/ rows'[x] = [version |-> rows[x].version + 1, deleted |-> rows[x].deleted]
      BY CommittedRows
    <3>4. \A n \in Nat, b \in BOOLEAN :
              [version |-> n, deleted |-> b] \in [version : Nat, deleted : BOOLEAN]
      OBVIOUS
    <3>5. TRUE \in BOOLEAN
      OBVIOUS
    <3>6. QED BY <3>1, <3>2, <3>3, <3>4, <3>5, Zenon
  <2>2. rows' = [x \in Records |-> RowAfter(w, x)]
    BY DEF Commit
  <2> DEFINE R == [version : Nat, deleted : BOOLEAN]
  <2>3. \A x \in Records : rows'[x] \in R /\ rows'[x] = RowAfter(w, x)
    BY <2>1, <2>2
  <2> HIDE DEF R
  <2>4. rows' \in [Records -> R]
    BY <2>2, <2>3
  <2>5. QED BY <2>4 DEF R
<1>2. entries' \in [Records -> Nat] /\ approvals' \in [Records -> Nat]
    BY DEF Commit, Plus, Inv, TypeOK
<1>3. \A x \in Records : holder[x] # w => rows'[x] = rows[x]
    BY CommittedRows, Complete DEF Keeps
<1>4. QED BY <1>1, <1>2, <1>3, EndInv DEF Commit

LEMMA CrashInv == Inv /\ Crash => Inv'
<1>1. SUFFICES ASSUME Inv, Crash PROVE Inv'
    OBVIOUS
<1>2. TypeOK'
    BY <1>1, NoTransactionType DEF Crash, committed, Inv, TypeOK, Transactions
<1>3. QED BY <1>1, <1>2, TransactionAssumption DEF Crash, Inv, Running

LEMMA StutterInv == Inv /\ UNCHANGED vars => Inv'
BY DEF vars, Inv, TypeOK, Running, Keeps

LEMMA NextInv == Inv /\ [Next]_vars => Inv'
<1>1. SUFFICES ASSUME Inv, Next PROVE Inv'
    BY StutterInv
<1>2. ASSUME NEW w \in Workers, Proceed(w) PROVE Inv'
    BY <1>1, <1>2, WriteInv, MissInv, ApproveInv, EntryInv, CommitInv, RollbackToInv,
       RollbackInv DEF Proceed
<1>3. QED BY <1>1, <1>2, BeginInv, StatementFailsInv, CrashInv DEF Next

LEMMA Invariance == Spec => []Inv
BY InitInv, NextInv, PTL DEF Spec

-----------------------------------------------------------------------------
\* What a transaction waits for has a lower rank than what its holder waits for.
LEMMA WaitsRise ==
    ASSUME Inv, NEW w \in Workers, NEW v \in Workers, NEW u \in Workers,
           Waits(w, v), Waits(v, u)
    PROVE  Rank(Target(w)) < Rank(Target(v))
<1>1. /\ tx[w].todo # <<>> /\ tx[w].todo \in Seq(Records) /\ holder[Target(w)] = v
      /\ Running(v) /\ tx[v].next = "write" /\ tx[v].todo # <<>> /\ tx[v].todo \in Seq(Records)
    BY DEF Waits, Sends, Inv, TypeOK
<1>2. Target(w) \in Records
    BY <1>1, HeadTail DEF Target
<1>3. 1 \in DOMAIN tx[v].todo /\ Target(v) = tx[v].todo[1]
    BY <1>1, HeadTail DEF Target
<1>4. Target(w) \in tx[v].wrote
    BY <1>1, <1>2 DEF Inv
<1>5. Below(tx[v].wrote, tx[v].todo)
    BY <1>1 DEF Inv, Sound, Ahead
<1>6. QED BY <1>3, <1>4, <1>5 DEF Below

\* base.go 84-121, execution_confirmation.go 164-195: the services write rows of
\* rising rank, of three ranks, so a circle of waits would need a fourth.
THEOREM NoCircle == Spec => []NoWaitCycle
<1>1. Inv => NoWaitCycle
  <2>1. SUFFICES ASSUME Inv, NEW S \in SUBSET Workers, NEW w0 \in S,
                        \A w \in S : \E v \in S : Waits(w, v)
                 PROVE  FALSE
    BY DEF NoWaitCycle
  <2>2. PICK w1 \in S : Waits(w0, w1)
    BY <2>1
  <2>3. PICK w2 \in S : Waits(w1, w2)
    BY <2>1
  <2>4. PICK w3 \in S : Waits(w2, w3)
    BY <2>1
  <2>5. PICK w4 \in S : Waits(w3, w4)
    BY <2>1
  <2>6. /\ Rank(Target(w0)) < Rank(Target(w1))
        /\ Rank(Target(w1)) < Rank(Target(w2))
        /\ Rank(Target(w2)) < Rank(Target(w3))
    BY <2>1, <2>2, <2>3, <2>4, <2>5, WaitsRise
  <2>7. ASSUME NEW w \in S, NEW v \in S, Waits(w, v) PROVE Rank(Target(w)) \in 1..3
    <3>1. tx[w].todo \in Seq(Records) /\ tx[w].todo # <<>>
      BY <2>1, <2>7 DEF Waits, Inv, TypeOK
    <3>2. Target(w) \in Records
      BY <3>1, HeadTail DEF Target
    <3>3. QED BY <3>2, RankType
  <2>8. QED BY <2>2, <2>3, <2>4, <2>5, <2>6, <2>7
<1>2. QED BY <1>1, Invariance, PTL

\* execution_confirmation.go 164-195: a statement is held up by a transaction that
\* is open, so a chain of transactions that are all held up has no end, and four
\* of them would again rise through three ranks.
THEOREM SomeoneAlwaysProceeds == Spec => []SomeoneProceeds
<1>1. Inv => SomeoneProceeds
  <2>1. SUFFICES ASSUME Inv, NEW w0 \in Workers, Running(w0),
                        \A w \in Workers : Running(w) =>
                            Sends(w, "write") /\ tx[w].todo # <<>> /\ ~Granted(w)
                 PROVE  FALSE
    BY DEF SomeoneProceeds
  <2>2. ASSUME NEW w \in Workers, Running(w)
        PROVE  \E v \in Workers : Running(v) /\ Waits(w, v)
    <3>1. Sends(w, "write") /\ tx[w].todo # <<>> /\ ~Granted(w)
      BY <2>1, <2>2
    <3>2. Target(w) \in Records
      BY <2>1, <3>1, HeadTail DEF Target, Inv, TypeOK
    <3>3. holder[Target(w)] \in Workers /\ holder[Target(w)] # w
      BY <2>1, <3>1, <3>2 DEF Granted, Inv, TypeOK
    <3>4. Running(holder[Target(w)])
      BY <2>1, <3>2, <3>3 DEF Inv
    <3>. QED
      BY <2>2, <3>1, <3>3, <3>4 DEF Waits
  <2>3. PICK w1 \in Workers : Running(w1) /\ Waits(w0, w1)
    BY <2>1, <2>2
  <2>4. PICK w2 \in Workers : Running(w2) /\ Waits(w1, w2)
    BY <2>2, <2>3
  <2>5. PICK w3 \in Workers : Running(w3) /\ Waits(w2, w3)
    BY <2>2, <2>4
  <2>6. PICK w4 \in Workers : Waits(w3, w4)
    BY <2>2, <2>5
  <2>7. /\ Rank(Target(w0)) < Rank(Target(w1))
        /\ Rank(Target(w1)) < Rank(Target(w2))
        /\ Rank(Target(w2)) < Rank(Target(w3))
    BY <2>1, <2>3, <2>4, <2>5, <2>6, WaitsRise
  <2>8. \A w \in Workers : Running(w) => Rank(Target(w)) \in 1..3
    <3>1. SUFFICES ASSUME NEW w \in Workers, Running(w) PROVE Rank(Target(w)) \in 1..3
      OBVIOUS
    <3>2. Target(w) \in Records
      BY <2>1, <3>1, HeadTail DEF Target, Inv, TypeOK
    <3>. QED
      BY <3>2, RankType
  <2>. QED
    BY <2>1, <2>3, <2>4, <2>5, <2>7, <2>8
<1>2. QED BY <1>1, Invariance, PTL

\* The invariant in the terms of AtomicStore: a commit is one of its changes.
LEMMA CommitIsOne == ASSUME Inv, NEW w \in Workers, Commit(w) PROVE A!Next
<1> DEFINE S == tx[w].wrote
<1>1. /\ Keeps(w) /\ S \in Units /\ S \subseteq Records
      /\ tx[w].logged = S /\ tx[w].signed \in {{}, S}
    BY Complete DEF Transactions
<1>2. \A x \in S : ~rows[x].deleted
    BY <1>1 DEF Keeps
<1>3. entries' = A!Counted(entries, S) /\ approvals' = A!Counted(approvals, tx[w].signed)
    BY <1>1 DEF Commit, Plus, A!Counted
<1>4. rows' = [x \in Records |-> RowAfter(w, x)]
    BY DEF Commit
<1>5. CASE tx[w].kind = "delete"
  <2>1. PICK x \in Records : S = {x}
    BY <1>5, Complete
  <2>2. tx[w].signed = {}
    BY <1>5, Complete
  <2>3. rows' = [rows EXCEPT ![x].deleted = TRUE]
    BY <1>4, <1>5, <2>1 DEF RowAfter, Inv, TypeOK
  <2>4. approvals' = approvals
    BY <1>3, <2>2 DEF A!Counted, Inv, TypeOK
  <2>5. A!Remove(x)
    BY <1>2, <1>3, <2>1, <2>3, <2>4 DEF A!Remove
  <2>6. QED BY <2>5 DEF A!Next
<1>6. CASE tx[w].kind # "delete"
  <2>1. ASSUME NEW x \in Records
        PROVE  RowAfter(w, x) = IF x \in S THEN [rows[x] EXCEPT !.version = @ + 1] ELSE rows[x]
    BY <1>1, <1>6 DEF RowAfter, Keeps
  <2>2. rows' = A!Rewritten(S)
    BY <1>4, <2>1 DEF A!Rewritten
  <2>3. A!Change(S, tx[w].signed)
    BY <1>2, <1>3, <2>2 DEF A!Change
  <2>4. tx[w].signed = {} \/ tx[w].signed = S
    BY <1>1
  <2>5. S \in {Listed(plan.todo) : plan \in Plans}
    BY <1>1 DEF Units
  <2> HIDE DEF S
  <2>6. \E signed \in BOOLEAN : A!Change(S, IF signed THEN S ELSE {})
    BY <2>3, <2>4
  <2>7. QED BY <2>5, <2>6 DEF A!Next
<1>7. QED BY <1>5, <1>6

\* base.go 101-102: statement by statement, with savepoints, failures and crashes,
\* the transactions of the services are the changes of AtomicStore.
THEOREM Atomicity == Spec => ImplementsAtomicStore
<1>1. Init => A!Init
    BY DEF Init, A!Init
<1>2. Inv /\ [Next]_vars => [A!Next]_<<rows, entries, approvals>>
  <2>1. SUFFICES ASSUME Inv, [Next]_vars, ~UNCHANGED committed PROVE A!Next
    BY DEF committed
  <2>2. \E w \in Workers : Commit(w)
    BY <2>1 DEF Next, Begin, Proceed, Write, Miss, Approve, Entry, StatementFails,
                RollbackTo, Rollback, Crash, vars, committed
  <2>3. QED BY <2>1, <2>2, CommitIsOne
<1>3. QED BY <1>1, <1>2, Invariance, PTL DEF Spec, ImplementsAtomicStore, A!Spec
=============================================================================
