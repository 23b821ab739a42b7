--------------------------- MODULE EntityStoreProofs ---------------------------
(***************************************************************************)
(* The safety of a page, for any number of loads and changes that overlap. *)
(***************************************************************************)
EXTENDS EntityStore, TLAPS

Lists == [version : 1..MaxVersion, codes : SUBSET Codes]
Names == Codes \cup 1..(MaxVersion - 1)
Callers == Posts \cup {"nobody"}

TypeInv ==
    /\ server \in Lists
    /\ items \in Lists \cup {NoItems}
    /\ error \in BOOLEAN /\ loading \in BOOLEAN
    /\ load \in [Loads -> {IdleLoad}
                          \cup [at : {"sent", "failed"}, for : Callers]
                          \cup [at : {"answered"}, for : Callers, list : Lists]]
    /\ post \in [Posts -> {IdlePost}
                          \cup [at : {"sent", "ok", "loading", "failed"},
                                names : Names, done : BOOLEAN]]
    /\ taken \in [Codes \cup 0..MaxVersion -> 0..1]

\* A form that is open or will be has a code.
WindowsInv ==
    /\ form \in [open : BOOLEAN, code : Codes \cup {NoCode}]
    /\ preparing \in Nat /\ dialog \in 0..MaxVersion
    /\ form.open \/ preparing > 0 => form.code \in Codes

\* What the server has taken it does not take again: the record is there, or
\* the row has gone past the version named.
Counted == /\ \A c \in Codes : taken[c] = 1 => c \in server.codes
           /\ \A v \in 0..MaxVersion : taken[v] = 1 => v < server.version

\* A load that a change waits for is its only one, and the change was taken.
LoadFor(l, p) == ~Free(l) /\ load[l].for = p
Awaited ==
    \A p \in Posts :
        /\ post[p].at \in {"ok", "loading"} => post[p].done
        /\ \A l \in Loads : LoadFor(l, p) => post[p].at = "loading"
        /\ \A l, m \in Loads : LoadFor(l, p) /\ LoadFor(m, p) => l = m

StoreInv == TypeInv /\ WindowsInv /\ Counted /\ Awaited /\ NoStuckSpinner

-----------------------------------------------------------------------------
(* Records.                                                                *)

LoadRecords == {IdleLoad} \cup [at : {"sent", "failed"}, for : Callers]
               \cup [at : {"answered"}, for : Callers, list : Lists]
PostRecords == {IdlePost} \cup [at : {"sent", "ok", "loading", "failed"},
                                names : Names, done : BOOLEAN]

LEMMA LoadIs ==
    ASSUME TypeInv, NEW l \in Loads
    PROVE  /\ load[l] \in LoadRecords
           /\ Free(l) <=> load[l].at = "idle"
           /\ ~Free(l) => load[l].for \in Callers /\ load[l].at \in {"sent", "answered", "failed"}
           /\ load[l].at = "answered" => load[l].list \in Lists
BY DEF TypeInv, LoadRecords, Free, IdleLoad

LEMMA PostIs ==
    ASSUME TypeInv, NEW p \in Posts
    PROVE  /\ post[p] \in PostRecords
           /\ post[p] = IdlePost <=> post[p].at = "idle"
           /\ post[p] # IdlePost => /\ post[p].at \in {"sent", "ok", "loading", "failed"}
                                   /\ post[p].names \in Names
                                   /\ post[p].done \in BOOLEAN
BY DEF TypeInv, PostRecords, IdlePost

\* What the server has is what it had, or more.
LEMMA StaysCounted ==
    ASSUME TypeInv, Counted, taken' = taken, server' \in Lists,
           server.version <= server'.version, server.codes \subseteq server'.codes
    PROVE  Counted'
BY PageAssumption DEF PageAssumption, TypeInv, Counted, Lists

LEMMA InitKept == Init => StoreInv
<1>. SUFFICES ASSUME Init PROVE StoreInv
  OBVIOUS
<1>0. MaxVersion \in Nat \ {0}
  BY PageAssumption DEF PageAssumption
<1>1. TypeInv
  <2>1. server \in Lists
    BY <1>0 DEF Init, Lists
  <2>3. taken \in [Codes \cup 0..MaxVersion -> 0..1]
    BY DEF Init
  <2>4. /\ load \in [Loads -> {IdleLoad}] /\ post \in [Posts -> {IdlePost}]
        /\ items = NoItems /\ error = FALSE /\ loading = FALSE
    BY DEF Init
  <2>. QED
    BY <2>1, <2>3, <2>4 DEF TypeInv
<1>6. WindowsInv
  BY <1>0 DEF Init, Closed, WindowsInv
<1>2. Counted /\ NoStuckSpinner
  BY DEF Init, Counted, NoStuckSpinner
<1>3. \A l \in Loads : Free(l)
  BY DEF Init, Free
<1>4. \A p \in Posts : post[p].at = "idle"
  BY DEF Init, IdlePost
<1>5. Awaited
  BY <1>3, <1>4 DEF Awaited, LoadFor
<1>. QED
  BY <1>1, <1>2, <1>5, <1>6 DEF StoreInv

\* A load begins, is answered or is lost: it stays its caller's.
LEMMA LoadMoves ==
    ASSUME StoreInv, NEW l \in Loads, NEW q \in LoadRecords, q # IdleLoad,
           load' = [load EXCEPT ![l] = q],
           q.for = "nobody" \/ (~Free(l) /\ q.for = load[l].for),
           error' \in BOOLEAN, loading' \in BOOLEAN,
           UNCHANGED <<server, items, windows, post, taken>>
    PROVE  StoreInv'
<1>1. /\ server' = server /\ items' = items /\ post' = post /\ taken' = taken
      /\ form' = form /\ preparing' = preparing /\ dialog' = dialog
  BY DEF windows
<1>7. WindowsInv'
  BY <1>1 DEF StoreInv, WindowsInv
<1>2. TypeInv'
  BY <1>1 DEF StoreInv, TypeInv, LoadRecords
<1>3. Counted'
  BY <1>1 DEF StoreInv, Counted
<1>4. \A m \in Loads : load'[m] = IF m = l THEN q ELSE load[m]
  BY DEF StoreInv, TypeInv
<1>5. Awaited'
  BY <1>1, <1>4, PageAssumption DEF StoreInv, Awaited, LoadFor, Free, PageAssumption
<1>6. NoStuckSpinner'
  BY <1>4 DEF NoStuckSpinner, Free
<1>. QED
  BY <1>2, <1>3, <1>5, <1>6, <1>7 DEF StoreInv

\* A change that no load is for is sent, taken or fails.
LEMMA PostMoves ==
    ASSUME StoreInv, NEW p \in Posts, NEW q \in PostRecords, q # IdlePost,
           post[p].at # "loading", q.at # "loading", q.at = "ok" => q.done,
           post' = [post EXCEPT ![p] = q],
           load' = load, error' \in BOOLEAN, loading' \in BOOLEAN,
           windows' = windows, items' = items, server' \in Lists,
           taken' \in [Codes \cup 0..MaxVersion -> 0..1], Counted'
    PROVE  StoreInv'
<1>1. TypeInv'
  BY DEF StoreInv, TypeInv, PostRecords
<1>2. \A r \in Posts : post'[r] = IF r = p THEN q ELSE post[r]
  BY DEF StoreInv, TypeInv
<1>3. Awaited'
  BY <1>2 DEF StoreInv, Awaited, LoadFor, Free
<1>4. NoStuckSpinner'
  BY <1>2 DEF NoStuckSpinner
<1>5. WindowsInv'
  BY DEF StoreInv, WindowsInv, windows
<1>. QED
  BY <1>1, <1>3, <1>4, <1>5 DEF StoreInv

\* The dialogs, the error text and the other users.
LEMMA ElsewhereKept ==
    ASSUME StoreInv, load' = load, post' = post, items' = items, taken' = taken,
           loading' = loading, error' \in BOOLEAN,
           WindowsInv', server' \in Lists, Counted'
    PROVE  StoreInv'
<1>1. TypeInv'
  BY DEF StoreInv, TypeInv
<1>2. Awaited'
  BY DEF StoreInv, Awaited, LoadFor, Free
<1>3. NoStuckSpinner'
  BY DEF StoreInv, NoStuckSpinner, Free
<1>. QED
  BY <1>1, <1>2, <1>3 DEF StoreInv

-----------------------------------------------------------------------------
(* The steps.                                                              *)

LEMMA LoadKept ==
    ASSUME StoreInv, NEW l \in Loads, Load(l)
    PROVE  StoreInv'
<1>. DEFINE q == [at |-> "sent", for |-> "nobody"]
<1>1. /\ load' = [load EXCEPT ![l] = q] /\ loading' \in BOOLEAN /\ error' \in BOOLEAN
      /\ UNCHANGED <<server, items, windows, post, taken>>
  BY DEF Load, Begins
<1>2. q \in LoadRecords /\ q # IdleLoad /\ q.for = "nobody"
  BY DEF LoadRecords, Callers, IdleLoad
<1>. HIDE DEF q
<1>. QED
  BY <1>1, <1>2, LoadMoves

LEMMA AnswerLoadKept ==
    ASSUME StoreInv, NEW l \in Loads, AnswerLoad(l)
    PROVE  StoreInv'
<1>. DEFINE q == [at |-> "answered", for |-> load[l].for, list |-> server]
<1>1. /\ load' = [load EXCEPT ![l] = q] /\ loading' \in BOOLEAN /\ error' \in BOOLEAN
      /\ UNCHANGED <<server, items, windows, post, taken>>
  BY DEF AnswerLoad, StoreInv, TypeInv
<1>2. ~Free(l) /\ load[l].for \in Callers /\ server \in Lists
  BY LoadIs DEF AnswerLoad, StoreInv, TypeInv
<1>3. q \in LoadRecords /\ q # IdleLoad /\ q.for = load[l].for
  BY <1>2 DEF LoadRecords, IdleLoad
<1>. HIDE DEF q
<1>. QED
  BY <1>1, <1>2, <1>3, LoadMoves

LEMMA LoseLoadKept ==
    ASSUME StoreInv, NEW l \in Loads, LoseLoad(l)
    PROVE  StoreInv'
<1>. DEFINE q == [load[l] EXCEPT !.at = "failed"]
<1>1. /\ load' = [load EXCEPT ![l] = q] /\ loading' \in BOOLEAN /\ error' \in BOOLEAN
      /\ UNCHANGED <<server, items, windows, post, taken>>
  BY DEF LoseLoad, StoreInv, TypeInv
<1>2. ~Free(l) /\ load[l] \in [at : {"sent", "failed"}, for : Callers]
  BY LoadIs DEF LoseLoad, StoreInv, LoadRecords, IdleLoad
<1>3. q \in LoadRecords /\ q # IdleLoad /\ q.for = load[l].for
  BY <1>2 DEF LoadRecords, IdleLoad
<1>. HIDE DEF q
<1>. QED
  BY <1>1, <1>2, <1>3, LoadMoves

LEMMA SendsKept ==
    ASSUME StoreInv, NEW p \in Posts, NEW n \in Names, Sends(p, n)
    PROVE  StoreInv'
<1>. DEFINE q == [at |-> "sent", names |-> n, done |-> FALSE]
<1>1. /\ post' = [post EXCEPT ![p] = q] /\ loading' \in BOOLEAN /\ error' \in BOOLEAN
      /\ server' = server /\ items' = items /\ windows' = windows /\ load' = load
      /\ taken' = taken
  BY DEF Sends
<1>2. q \in PostRecords /\ q # IdlePost /\ q.at = "sent"
  BY DEF PostRecords, IdlePost
<1>3. post[p].at # "loading"
  BY DEF Sends, IdlePost
<1>4. server' \in Lists /\ taken' \in [Codes \cup 0..MaxVersion -> 0..1] /\ Counted'
  BY <1>1 DEF StoreInv, TypeInv, Counted
<1>. HIDE DEF q
<1>. QED
  BY <1>1, <1>2, <1>3, <1>4, PostMoves

LEMMA PressedKept ==
    ASSUME StoreInv, NEW p \in Posts, CreateRecord(p) \/ ConfirmTransition(p)
    PROVE  StoreInv'
<1>1. CASE CreateRecord(p)
  <2>1. form.code \in Names
    BY <1>1 DEF CreateRecord, StoreInv, WindowsInv, Names
  <2>. QED
    BY <1>1, <2>1, SendsKept DEF CreateRecord
<1>2. CASE ConfirmTransition(p)
  <2>1. dialog \in 1..(MaxVersion - 1)
    BY <1>2, PageAssumption
       DEF ConfirmTransition, StoreInv, WindowsInv, Closed, PageAssumption
  <2>. QED
    BY <1>2, <2>1, SendsKept DEF ConfirmTransition, Names
<1>. QED
  BY <1>1, <1>2

LEMMA ServePostKept ==
    ASSUME StoreInv, NEW p \in Posts, ServePost(p)
    PROVE  StoreInv'
<1>. DEFINE n == post[p].names
            q == [post[p] EXCEPT !.at = "ok", !.done = TRUE]
<1>1. /\ post' = [post EXCEPT ![p] = q] /\ taken' = [taken EXCEPT ![n] = taken[n] + 1]
      /\ items' = items /\ windows' = windows /\ load' = load /\ error' = error
      /\ loading' = loading /\ post[p].at = "sent"
      /\ \/ n \in Codes /\ NewCode(n) /\ Added(n)
         \/ n \notin Codes /\ AtVersion(n) /\ Moved
  BY DEF ServePost, StoreInv, TypeInv
<1>2. /\ post[p] \in [at : {"sent", "ok", "loading", "failed"}, names : Names, done : BOOLEAN]
      /\ n \in Names
  BY <1>1, PostIs DEF StoreInv, PostRecords, IdlePost
<1>3. q \in PostRecords /\ q.at = "ok" /\ q.done
  BY <1>2, Zenon DEF PostRecords
<1>4. q # IdlePost
  BY <1>3 DEF IdlePost
<1>5. MaxVersion \in Nat \ {0} /\ \A c \in Codes : c \notin 0..MaxVersion
  BY PageAssumption DEF PageAssumption
<1>6. /\ server \in Lists /\ taken \in [Codes \cup 0..MaxVersion -> 0..1]
      /\ n \in Codes \cup 0..MaxVersion
  BY <1>2, <1>5 DEF StoreInv, TypeInv, Names
<1>. HIDE DEF n, q
<1>7. server' \in Lists /\ taken' \in [Codes \cup 0..MaxVersion -> 0..1] /\ Counted'
  <2>1. CASE n \in Codes /\ NewCode(n) /\ Added(n)
    <3>1. taken[n] = 0
      BY <1>6, <2>1 DEF StoreInv, Counted, NewCode
    <3>2. taken' \in [Codes \cup 0..MaxVersion -> 0..1]
      BY <1>1, <1>6, <3>1
    <3>3. /\ server' \in Lists /\ server'.codes = server.codes \cup {n}
          /\ server'.version = server.version
      BY <1>6, <2>1 DEF Added, Lists
    <3>4. \A m \in Codes \cup 0..MaxVersion : m # n => taken'[m] = taken[m]
      BY <1>1, <1>6
    <3>5. ASSUME NEW c \in Codes, taken'[c] = 1 PROVE c \in server'.codes
      BY <3>3, <3>4, <3>5 DEF StoreInv, Counted
    <3>6. ASSUME NEW v \in 0..MaxVersion, taken'[v] = 1 PROVE v < server'.version
      BY <1>5, <2>1, <3>3, <3>4, <3>6 DEF StoreInv, Counted
    <3>. QED
      BY <3>2, <3>3, <3>5, <3>6 DEF Counted
  <2>2. CASE n \notin Codes /\ AtVersion(n) /\ Moved
    <3>1. n \in 1..(MaxVersion - 1) /\ n = server.version
      BY <1>2, <2>2 DEF Names, AtVersion
    <3>2. taken[n] = 0
      BY <1>5, <1>6, <3>1 DEF StoreInv, Counted
    <3>3. taken' \in [Codes \cup 0..MaxVersion -> 0..1]
      BY <1>1, <1>6, <3>2
    <3>4. /\ server' \in Lists /\ server'.codes = server.codes
          /\ server'.version = server.version + 1
      BY <1>5, <1>6, <2>2, <3>1 DEF Moved, Lists
    <3>5. \A m \in Codes \cup 0..MaxVersion : m # n => taken'[m] = taken[m]
      BY <1>1, <1>6
    <3>6. ASSUME NEW c \in Codes, taken'[c] = 1 PROVE c \in server'.codes
      BY <2>2, <3>4, <3>5, <3>6 DEF StoreInv, Counted
    <3>7. ASSUME NEW v \in 0..MaxVersion, taken'[v] = 1 PROVE v < server'.version
      <4>1. CASE v = n
        BY <3>1, <3>4, <4>1
      <4>2. CASE v # n
        <5>1. v < server.version
          BY <3>5, <3>7, <4>2 DEF StoreInv, Counted
        <5>. QED
          BY <1>5, <1>6, <3>4, <5>1 DEF Lists
      <4>. QED
        BY <4>1, <4>2
    <3>. QED
      BY <3>3, <3>4, <3>6, <3>7 DEF Counted
  <2>. QED
    BY <1>1, <2>1, <2>2
<1>8. error' \in BOOLEAN /\ loading' \in BOOLEAN
  BY <1>1 DEF StoreInv, TypeInv
<1>. QED
  BY <1>1, <1>3, <1>4, <1>7, <1>8, PostMoves

LEMMA FailPostKept ==
    ASSUME StoreInv, NEW p \in Posts, FailPost(p)
    PROVE  StoreInv'
<1>. DEFINE q == [post[p] EXCEPT !.at = "failed"]
<1>1. /\ post' = [post EXCEPT ![p] = q] /\ loading' \in BOOLEAN /\ error' \in BOOLEAN
      /\ server' = server /\ items' = items /\ windows' = windows /\ load' = load
      /\ taken' = taken
  BY DEF FailPost, StoreInv, TypeInv
<1>2. /\ post[p].at # "loading"
      /\ post[p] \in [at : {"sent", "ok", "loading", "failed"},
                      names : Names, done : BOOLEAN]
  BY PostIs DEF FailPost, StoreInv, PostRecords, IdlePost
<1>3. q \in PostRecords /\ q.at = "failed"
  BY <1>2, Zenon DEF PostRecords
<1>4. q # IdlePost
  BY <1>3 DEF IdlePost
<1>5. server' \in Lists /\ taken' \in [Codes \cup 0..MaxVersion -> 0..1] /\ Counted'
  BY <1>1 DEF StoreInv, TypeInv, Counted
<1>. HIDE DEF q
<1>. QED
  BY <1>1, <1>2, <1>3, <1>4, <1>5, PostMoves

\* A change that was taken loads the list: no other load is for it.
LEMMA PostSucceedsKept ==
    ASSUME StoreInv, NEW p \in Posts, NEW l \in Loads, PostSucceeds(p, l)
    PROVE  StoreInv'
<1>. DEFINE k == [at |-> "sent", for |-> p]
            q == [post[p] EXCEPT !.at = "loading"]
<1>1. /\ post' = [post EXCEPT ![p] = q] /\ load' = [load EXCEPT ![l] = k]
      /\ loading' = TRUE /\ error' = FALSE /\ Free(l) /\ post[p].at = "ok"
      /\ server' = server /\ items' = items /\ windows' = windows /\ taken' = taken
  BY DEF PostSucceeds, Begins, StoreInv, TypeInv
<1>2. post[p] \in [at : {"sent", "ok", "loading", "failed"},
                   names : Names, done : BOOLEAN]
  BY <1>1, PostIs DEF StoreInv, PostRecords, IdlePost
<1>3. /\ q \in PostRecords /\ q.at = "loading" /\ q.done = post[p].done
      /\ k \in LoadRecords /\ k.for = p /\ k # IdleLoad
  <2>1. q \in PostRecords /\ q.at = "loading" /\ q.done = post[p].done
    BY <1>2, Zenon DEF PostRecords
  <2>2. k \in LoadRecords /\ k.for = p /\ k # IdleLoad
    BY DEF LoadRecords, Callers, IdleLoad
  <2>. QED
    BY <2>1, <2>2
<1>. HIDE DEF q, k
<1>4. TypeInv'
  BY <1>1, <1>3 DEF StoreInv, TypeInv, LoadRecords, PostRecords
<1>5. Counted' /\ WindowsInv'
  BY <1>1 DEF StoreInv, Counted, WindowsInv, windows
<1>6. /\ \A m \in Loads : load'[m] = IF m = l THEN k ELSE load[m]
      /\ \A r \in Posts : post'[r] = IF r = p THEN q ELSE post[r]
  BY <1>1 DEF StoreInv, TypeInv
<1>7. \A m \in Loads : ~LoadFor(m, p)
  BY <1>1 DEF StoreInv, Awaited
<1>8. Awaited'
  <2>. SUFFICES ASSUME NEW r \in Posts
                PROVE  /\ post'[r].at \in {"ok", "loading"} => post'[r].done
                       /\ \A m \in Loads : LoadFor(m, r)' => post'[r].at = "loading"
                       /\ \A m, n \in Loads : LoadFor(m, r)' /\ LoadFor(n, r)' => m = n
    BY DEF Awaited
  <2>1. CASE r = p
    <3>1. \A m \in Loads : LoadFor(m, r)' => m = l
      BY <1>6, <1>7, <2>1 DEF LoadFor, Free
    <3>2. post'[r].at = "loading" /\ post'[r].done
      BY <1>1, <1>3, <1>6, <2>1 DEF StoreInv, Awaited
    <3>. QED
      BY <3>1, <3>2
  <2>2. CASE r # p
    <3>1. \A m \in Loads : LoadFor(m, r)' => LoadFor(m, r)
      BY <1>3, <1>6, <2>2 DEF LoadFor, Free
    <3>. QED
      BY <1>6, <2>2, <3>1 DEF StoreInv, Awaited
  <2>. QED
    BY <2>1, <2>2
<1>9. NoStuckSpinner'
  BY <1>3, <1>6 DEF NoStuckSpinner, Free
<1>. QED
  BY <1>4, <1>5, <1>8, <1>9 DEF StoreInv

LEMMA PostFailsKept ==
    ASSUME StoreInv, NEW p \in Posts, PostFails(p)
    PROVE  StoreInv'
<1>1. /\ post' = [post EXCEPT ![p] = IdlePost] /\ loading' = FALSE /\ error' = TRUE
      /\ server' = server /\ items' = items /\ windows' = windows /\ load' = load
      /\ taken' = taken /\ post[p].at = "failed"
  BY DEF PostFails
<1>2. TypeInv'
  BY <1>1 DEF StoreInv, TypeInv
<1>3. \A r \in Posts : post'[r] = IF r = p THEN IdlePost ELSE post[r]
  BY <1>1 DEF StoreInv, TypeInv
<1>4. Awaited'
  BY <1>1, <1>3 DEF StoreInv, Awaited, LoadFor, Free, IdlePost
<1>5. Counted' /\ WindowsInv' /\ NoStuckSpinner'
  BY <1>1 DEF StoreInv, Counted, WindowsInv, windows, NoStuckSpinner
<1>. QED
  BY <1>2, <1>4, <1>5 DEF StoreInv

\* A load ends, and with it the change it was for.
LEMMA EndsKept ==
    ASSUME StoreInv, NEW l \in Loads, Ends(l)
    PROVE  StoreInv'
<1>1. /\ load' = [load EXCEPT ![l] = IdleLoad] /\ loading' = FALSE
      /\ server' = server /\ taken' = taken /\ ~Free(l)
      /\ error' \in BOOLEAN /\ items' \in Lists \cup {NoItems}
      /\ dialog' \in {dialog, Closed} /\ preparing' = preparing
      /\ form' = form \/ form' = [form EXCEPT !.open = FALSE]
      /\ IF load[l].for = "nobody" THEN post' = post
         ELSE post' = [post EXCEPT ![load[l].for] = IdlePost]
  <2>1. form.open \in BOOLEAN /\ form = [form EXCEPT !.open = form.open]
    BY DEF StoreInv, WindowsInv
  <2>2. CASE LoadEnds(l)
    BY <2>1, <2>2, LoadIs DEF LoadEnds, Returns, StoreInv, TypeInv, windows
  <2>3. CASE LoadFails(l)
    BY <2>1, <2>3, LoadIs DEF LoadFails, Returns, StoreInv, TypeInv, windows
  <2>. QED
    BY <2>2, <2>3 DEF Ends
<1>2. WindowsInv'
  <2>1. /\ form \in [open : BOOLEAN, code : Codes \cup {NoCode}]
        /\ form.open \/ preparing > 0 => form.code \in Codes
    BY DEF StoreInv, WindowsInv
  <2>2. form' \in [open : BOOLEAN, code : Codes \cup {NoCode}] /\ form'.code = form.code
    <3>1. CASE form' = form
      BY <2>1, <3>1
    <3>2. CASE form' = [form EXCEPT !.open = FALSE]
      <4>1. form' = [open |-> FALSE, code |-> form.code]
        BY <2>1, <3>2
      <4>. QED
        BY <2>1, <4>1
    <3>. QED
      BY <1>1, <3>1, <3>2
  <2>3. form'.open => form.open
    BY <1>1, <2>1, Zenon
  <2>4. dialog' \in 0..MaxVersion /\ preparing' \in Nat
    BY <1>1, PageAssumption DEF StoreInv, WindowsInv, Closed, PageAssumption
  <2>. QED
    BY <1>1, <2>1, <2>2, <2>3, <2>4 DEF WindowsInv
<1>3. post' \in [Posts -> PostRecords] /\ load' \in [Loads -> LoadRecords]
  BY <1>1 DEF StoreInv, TypeInv, PostRecords, LoadRecords
<1>4. TypeInv'
  BY <1>1, <1>3 DEF StoreInv, TypeInv, PostRecords, LoadRecords
<1>5. /\ \A m \in Loads : load'[m] = IF m = l THEN IdleLoad ELSE load[m]
      /\ \A p \in Posts : post'[p] = IF load[l].for = p THEN IdlePost ELSE post[p]
  BY <1>1, PageAssumption DEF StoreInv, TypeInv, PageAssumption
<1>6. Awaited'
  <2>. SUFFICES ASSUME NEW p \in Posts
                PROVE  /\ post'[p].at \in {"ok", "loading"} => post'[p].done
                       /\ \A m \in Loads : LoadFor(m, p)' => post'[p].at = "loading"
                       /\ \A m, n \in Loads : LoadFor(m, p)' /\ LoadFor(n, p)' => m = n
    BY DEF Awaited
  <2>1. \A m \in Loads : LoadFor(m, p)' => LoadFor(m, p) /\ m # l
    BY <1>5 DEF LoadFor, Free
  <2>2. CASE load[l].for = p
    <3>1. LoadFor(l, p)
      BY <1>1, <2>2 DEF LoadFor
    <3>2. \A m \in Loads : ~LoadFor(m, p)'
      BY <2>1, <3>1 DEF StoreInv, Awaited
    <3>3. post'[p].at = "idle"
      BY <1>5, <2>2 DEF IdlePost
    <3>. QED
      BY <3>2, <3>3
  <2>3. CASE load[l].for # p
    BY <1>5, <2>1, <2>3 DEF StoreInv, Awaited
  <2>. QED
    BY <2>2, <2>3
<1>7. Counted' /\ NoStuckSpinner'
  BY <1>1 DEF StoreInv, Counted, NoStuckSpinner
<1>. QED
  BY <1>2, <1>4, <1>6, <1>7 DEF StoreInv

Windows == \/ PressCreate \/ Prepared \/ PrepareFails \/ TypeCode
           \/ SelectTransition \/ Cancel

\* What opens and closes windows: a form keeps its code.
LEMMA WindowsKept ==
    ASSUME StoreInv, Windows
    PROVE  StoreInv'
<1>1. /\ load' = load /\ post' = post /\ items' = items /\ taken' = taken
      /\ loading' = loading /\ server' = server /\ error' \in BOOLEAN
  BY DEF Windows, PressCreate, Prepared, PrepareFails, TypeCode, SelectTransition, Cancel,
         StoreInv, TypeInv
<1>2. server' \in Lists /\ Counted'
  BY <1>1 DEF StoreInv, TypeInv, Counted
<1>3. WindowsInv'
  <2>0. /\ form \in [open : BOOLEAN, code : Codes \cup {NoCode}]
        /\ preparing \in Nat /\ dialog \in 0..MaxVersion
        /\ form.open \/ preparing > 0 => form.code \in Codes
    BY DEF StoreInv, WindowsInv
  <2>1. CASE PressCreate
    BY <2>0, <2>1 DEF PressCreate, WindowsInv
  <2>2. CASE Prepared
    <3>1. form' = [open |-> TRUE, code |-> form.code]
      <4>1. form' = [form EXCEPT !.open = TRUE]
        BY <2>2 DEF Prepared
      <4>. QED
        BY <2>0, <4>1
    <3>2. preparing' \in Nat /\ dialog' = dialog /\ form.code \in Codes
      BY <2>0, <2>2 DEF Prepared
    <3>. QED
      BY <2>0, <3>1, <3>2 DEF WindowsInv
  <2>3. CASE PrepareFails
    BY <2>0, <2>3 DEF PrepareFails, WindowsInv
  <2>4. CASE TypeCode
    <3>1. PICK c \in Codes : form' = [form EXCEPT !.code = c]
      BY <2>4 DEF TypeCode
    <3>2. form' = [open |-> form.open, code |-> c]
      BY <2>0, <3>1
    <3>. QED
      BY <2>0, <2>4, <3>2 DEF TypeCode, WindowsInv
  <2>5. CASE SelectTransition
    <3>1. items.version \in 0..MaxVersion
      BY PageAssumption DEF PageAssumption, StoreInv, TypeInv, Lists, NoItems
    <3>. QED
      BY <2>0, <2>5, <3>1 DEF SelectTransition, WindowsInv
  <2>6. CASE Cancel
    <3>1. /\ dialog' \in 0..MaxVersion /\ preparing' = preparing
          /\ form' = form \/ form' = [form EXCEPT !.open = FALSE]
      BY <2>0, <2>6, PageAssumption DEF Cancel, Closed, PageAssumption
    <3>2. CASE form' = form
      BY <2>0, <3>1, <3>2 DEF WindowsInv
    <3>3. CASE form' = [form EXCEPT !.open = FALSE]
      <4>1. form' = [open |-> FALSE, code |-> form.code]
        BY <2>0, <3>3
      <4>. QED
        BY <2>0, <3>1, <4>1 DEF WindowsInv
    <3>. QED
      BY <3>1, <3>2, <3>3
  <2>. QED
    BY <2>1, <2>2, <2>3, <2>4, <2>5, <2>6 DEF Windows
<1>. QED
  BY <1>1, <1>2, <1>3, ElsewhereKept

LEMMA OthersKept ==
    ASSUME StoreInv, DismissError \/ OtherChange
    PROVE  StoreInv'
<1>0. /\ MaxVersion \in Nat \ {0} /\ server \in Lists /\ error \in BOOLEAN
      /\ TypeInv /\ Counted
  BY PageAssumption DEF PageAssumption, StoreInv, TypeInv
<1>1. /\ load' = load /\ post' = post /\ items' = items /\ taken' = taken
      /\ loading' = loading /\ windows' = windows /\ error' \in BOOLEAN
  BY <1>0 DEF DismissError, OtherChange
<1>2. WindowsInv'
  BY <1>1 DEF StoreInv, WindowsInv, windows
<1>3. /\ server' \in Lists /\ server.version <= server'.version
      /\ server.codes \subseteq server'.codes
  <2>1. CASE DismissError
    BY <1>0, <2>1 DEF DismissError, Lists
  <2>2. CASE server.version < MaxVersion /\ Moved
    BY <1>0, <2>2 DEF Moved, Lists
  <2>3. ASSUME NEW c \in Codes, Added(c)
        PROVE  /\ server' \in Lists /\ server.version <= server'.version
               /\ server.codes \subseteq server'.codes
    BY <1>0, <2>3 DEF Added, Lists
  <2>. QED
    BY <2>1, <2>2, <2>3 DEF OtherChange
<1>4. Counted'
  BY <1>0, <1>1, <1>3, StaysCounted
<1>. QED
  BY <1>1, <1>2, <1>3, <1>4, ElsewhereKept

LEMMA QuietKept ==
    ASSUME StoreInv, UNCHANGED vars
    PROVE  StoreInv'
<1>1. Counted' /\ WindowsInv'
  BY DEF StoreInv, Counted, WindowsInv, vars, windows
<1>2. server' \in Lists /\ error' \in BOOLEAN
  BY DEF StoreInv, TypeInv, vars
<1>. QED
  BY <1>1, <1>2, ElsewhereKept DEF vars

\* Every step keeps the invariant.
LEMMA NextKept ==
    ASSUME StoreInv, [Next]_vars
    PROVE  StoreInv'
<1>1. ASSUME NEW l \in Loads, Load(l) \/ AnswerLoad(l) \/ LoseLoad(l) \/ Ends(l)
      PROVE  StoreInv'
  BY <1>1, LoadKept, AnswerLoadKept, LoseLoadKept, EndsKept
<1>2. ASSUME NEW l \in Loads, NEW p \in Posts, PostSucceeds(p, l) PROVE StoreInv'
  BY <1>2, PostSucceedsKept
<1>3. ASSUME NEW p \in Posts,
             \/ CreateRecord(p) \/ ConfirmTransition(p)
             \/ ServePost(p) \/ FailPost(p) \/ PostFails(p)
      PROVE  StoreInv'
  BY <1>3, PressedKept, ServePostKept, FailPostKept, PostFailsKept
<1>. QED
  BY <1>1, <1>2, <1>3, WindowsKept, OthersKept, QuietKept DEF Next, Windows

-----------------------------------------------------------------------------

LEMMA Invariance == Spec => []StoreInv
BY InitKept, NextKept, PTL DEF Spec

\* However loads and changes overlap and in whichever order they end, the
\* spinner is on only while something is under way (stores/factory.ts 9-11).
THEOREM SpinnerEnds == Spec => []NoStuckSpinner
<1>1. StoreInv => NoStuckSpinner
  BY DEF StoreInv
<1>. QED
  BY <1>1, Invariance, PTL

\* Pressed twice, or again after an answer was lost, and with others changing
\* the row and adding records, a change is carried out once: a version is left
\* once, a code added once (EntityPage.vue 98, 122).
THEOREM NeverTwice == Spec => []CarriedOutOnce
<1>1. StoreInv => CarriedOutOnce
  BY DEF StoreInv, TypeInv, CarriedOutOnce
<1>. QED
  BY <1>1, Invariance, PTL

\* A change whose end closes the form or the dialog was carried out, whoever's
\* error is shown and whatever polls and the preparation of a form do meanwhile
\* (EntityPage.vue 98-99, 122-123).
THEOREM ClosedOnlyDone == Spec => ClosedWhenDone
<1>1. ASSUME StoreInv, [Next]_vars, NEW p \in Posts,
             post[p] # IdlePost, post'[p] = IdlePost, Closes
      PROVE  post[p].done
  <2>1. PICK l \in Loads : Ends(l)
    <3>1. ASSUME NEW l \in Loads, Load(l) \/ AnswerLoad(l) \/ LoseLoad(l) PROVE FALSE
      BY <1>1, <3>1 DEF Load, AnswerLoad, LoseLoad
    <3>2. ASSUME NEW l \in Loads, NEW q \in Posts, PostSucceeds(q, l) PROVE FALSE
      BY <1>1, <3>2 DEF PostSucceeds, Closes, windows
    <3>3. ASSUME NEW q \in Posts,
                 \/ CreateRecord(q) \/ ConfirmTransition(q)
                 \/ ServePost(q) \/ FailPost(q) \/ PostFails(q)
          PROVE  FALSE
      BY <1>1, <3>3 DEF CreateRecord, ConfirmTransition, Sends, ServePost, FailPost, PostFails,
                        Closes, windows
    <3>4. CASE Windows \/ DismissError \/ OtherChange \/ UNCHANGED vars
      BY <1>1, <3>4 DEF Windows, PressCreate, Prepared, PrepareFails, TypeCode,
                        SelectTransition, Cancel, DismissError, OtherChange, vars
    <3>. QED
      BY <1>1, <3>1, <3>2, <3>3, <3>4 DEF Next, Windows
  <2>2. ~Free(l) /\ load[l].for = p
    BY <1>1, <2>1, LoadIs DEF Ends, LoadEnds, LoadFails, Returns, StoreInv, TypeInv
  <2>. QED
    BY <1>1, <2>2 DEF StoreInv, Awaited, LoadFor
<1>2. StoreInv /\ [Next]_vars =>
          [\A p \in Posts :
               post[p] # IdlePost /\ post'[p] = IdlePost /\ Closes => post[p].done]_vars
  BY <1>1
<1>. QED
  BY <1>2, Invariance, PTL DEF Spec, ClosedWhenDone
=============================================================================
