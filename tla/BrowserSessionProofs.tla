------------------------- MODULE BrowserSessionProofs -------------------------
(***************************************************************************)
(* With one tab no late answer brings a left session back, for any number  *)
(* of tokens, of calls in flight and of reloads.                           *)
(***************************************************************************)
EXTENDS BrowserSession, TLAPS

Known == Tokens \cup {None}
TabRecord == [session : Known, boot : {"no", "waiting", "done", "closed"}]
CallRecord == [at : {"sent", "ok", "denied", "failed"}, tab : Tabs,
               kind : {"login", "session", "api"}, token : Known]

TypeInv ==
    /\ stored \in Known
    /\ tab \in [Tabs -> TabRecord]
    /\ call \in [Calls -> {Idle} \cup CallRecord]

\* What a request of the only tab tells of the tab: a bootstrap is its only
\* one and is about the token that is stored; others come after the bootstrap.
Told(b, c) ==
    /\ call[c].tab = b
    /\ IF call[c].kind = "session"
       THEN /\ tab[b].boot = "waiting" /\ call[c].token = stored
            /\ \A d \in Calls : ~Free(d) => d = c
       ELSE tab[b].boot = "done"

Alone == \A b \in Tabs : Open = {b} => \A c \in Calls : ~Free(c) => Told(b, c)

SessionInv == TypeInv /\ Open # {} /\ Alone

-----------------------------------------------------------------------------
(* Records.                                                                *)

LEMMA CallIs ==
    ASSUME TypeInv, NEW c \in Calls
    PROVE  /\ Free(c) <=> call[c].at = "idle"
           /\ ~Free(c) => /\ call[c] \in CallRecord /\ call[c].tab \in Tabs
                         /\ call[c].at \in {"sent", "ok", "denied", "failed"}
                         /\ call[c].kind \in {"login", "session", "api"}
                         /\ call[c].token \in Known
BY DEF TypeInv, CallRecord, Free, Idle

LEMMA LoadedIs ==
    ASSUME TypeInv
    PROVE  Loaded \in {stored, None} /\ Loaded \in Known
BY DEF TypeInv, Loaded, Known

LEMMA SentIs ==
    ASSUME NEW b \in Tabs, NEW kind \in {"login", "session", "api"}, NEW t \in Known
    PROVE  LET q == [at |-> "sent", tab |-> b, kind |-> kind, token |-> t]
           IN  q \in CallRecord /\ q # Idle
BY DEF CallRecord, Idle

\* A tab keeps to being open or closed.
LEMMA SameOpen ==
    ASSUME TypeInv, NEW b \in Open, NEW q \in TabRecord, q.boot # "closed",
           tab' = [tab EXCEPT ![b] = q]
    PROVE  /\ Open' = Open /\ tab' \in [Tabs -> TabRecord]
           /\ \A d \in Tabs : tab'[d] = IF d = b THEN q ELSE tab[d]
BY DEF TypeInv, Open

LEMMA InitKept == Init => SessionInv
<1>. SUFFICES ASSUME Init PROVE SessionInv
  OBVIOUS
<1>1. TypeInv
  BY DEF Init, TypeInv, Known, TabRecord
<1>2. \A c \in Calls : Free(c)
  BY DEF Init, Free
<1>. QED
  BY <1>1, <1>2 DEF SessionInv, Alone, Init

-----------------------------------------------------------------------------
(* The tabs.                                                               *)

LEMMA ReloadKept ==
    ASSUME SessionInv, NEW b \in Tabs, Reload(b)
    PROVE  SessionInv'
<1>. DEFINE q == [session |-> Loaded, boot |-> "no"]
<1>1. /\ b \in Open /\ stored' = Loaded /\ tab' = [tab EXCEPT ![b] = q]
      /\ call' = [c \in Calls |-> IF call[c] # Idle /\ call[c].tab = b THEN Idle ELSE call[c]]
  BY DEF Reload
<1>2. q \in TabRecord /\ q.boot # "closed" /\ Loaded \in Known
  BY LoadedIs DEF SessionInv, TabRecord
<1>. HIDE DEF q
<1>3. Open' = Open /\ tab' \in [Tabs -> TabRecord]
  BY <1>1, <1>2, SameOpen DEF SessionInv
<1>4. TypeInv'
  BY <1>1, <1>2, <1>3 DEF SessionInv, TypeInv
<1>5. Alone'
  <2>. SUFFICES ASSUME NEW d \in Tabs, Open = {d}, NEW c \in Calls, ~Free(c)'
                PROVE  FALSE
    BY <1>3 DEF Alone
  <2>1. d = b
    BY <1>1
  <2>2. ~Free(c) /\ call[c].tab # b
    BY <1>1 DEF Free
  <2>. QED
    BY <2>1, <2>2 DEF SessionInv, Alone, Told
<1>. QED
  BY <1>3, <1>4, <1>5 DEF SessionInv

\* A tab that waits for nothing changes: there are requests of it only when its
\* bootstrap was done, and then it still is.
LEMMA TabMoves ==
    ASSUME SessionInv, NEW b \in Open, NEW q \in TabRecord, q.boot = "done",
           tab[b].boot \in {"no", "done"}, tab' = [tab EXCEPT ![b] = q],
           stored' \in Known, call' = call
    PROVE  SessionInv'
<1>1. /\ Open' = Open /\ tab' \in [Tabs -> TabRecord]
      /\ \A d \in Tabs : tab'[d] = IF d = b THEN q ELSE tab[d]
  BY SameOpen DEF SessionInv
<1>2. TypeInv'
  BY <1>1 DEF SessionInv, TypeInv
<1>3. Alone'
  <2>. SUFFICES ASSUME NEW d \in Tabs, Open = {d}, NEW c \in Calls, ~Free(c)'
                PROVE  Told(d, c)'
    BY <1>1 DEF Alone
  <2>1. d = b /\ ~Free(c)
    BY DEF Free
  <2>2. Told(d, c)
    BY <2>1 DEF SessionInv, Alone
  <2>3. call[c].kind # "session"
    BY <2>1, <2>2 DEF Told
  <2>. QED
    BY <1>1, <2>1, <2>2, <2>3 DEF Told
<1>. QED
  BY <1>1, <1>2, <1>3 DEF SessionInv

LEMMA BootWithoutKept ==
    ASSUME SessionInv, NEW b \in Tabs, BootWithout(b)
    PROVE  SessionInv'
<1>1. b \in Open /\ None \in Known /\ [session |-> None, boot |-> "done"] \in TabRecord
  BY DEF BootWithout, Open, Known, TabRecord
<1>. QED
  BY <1>1, TabMoves DEF BootWithout

LEMMA LogoutKept ==
    ASSUME SessionInv, NEW b \in Tabs, Logout(b)
    PROVE  SessionInv'
<1>. DEFINE q == [tab[b] EXCEPT !.session = None]
<1>1. b \in Open /\ tab[b] \in TabRecord /\ tab[b].boot = "done"
      /\ tab' = [tab EXCEPT ![b] = q] /\ stored' = None /\ call' = call
  BY DEF Logout, Ready, Open, SessionInv, TypeInv
<1>2. q \in TabRecord /\ q.boot = "done" /\ None \in Known
  BY <1>1 DEF TabRecord, Known
<1>. HIDE DEF q
<1>. QED
  BY <1>1, <1>2, TabMoves

LEMMA BootKept ==
    ASSUME SessionInv, NEW b \in Tabs, NEW c \in Calls, Boot(b, c)
    PROVE  SessionInv'
<1>. DEFINE q == [tab[b] EXCEPT !.boot = "waiting"]
            k == [at |-> "sent", tab |-> b, kind |-> "session", token |-> stored]
<1>1. /\ b \in Open /\ tab[b] \in TabRecord /\ tab[b].boot = "no"
      /\ tab' = [tab EXCEPT ![b] = q] /\ call' = [call EXCEPT ![c] = k]
      /\ stored' = stored /\ stored \in Known
  BY DEF Boot, Sends, Open, SessionInv, TypeInv
<1>2. q \in TabRecord /\ q.boot = "waiting"
  BY <1>1 DEF TabRecord
<1>3. k \in CallRecord /\ k # Idle /\ k.tab = b /\ k.kind = "session" /\ k.token = stored
  BY <1>1, SentIs
<1>. HIDE DEF q, k
<1>4. /\ Open' = Open /\ tab' \in [Tabs -> TabRecord]
      /\ \A d \in Tabs : tab'[d] = IF d = b THEN q ELSE tab[d]
  BY <1>1, <1>2, SameOpen DEF SessionInv
<1>5. TypeInv'
  BY <1>1, <1>3, <1>4 DEF SessionInv, TypeInv
<1>6. \A d \in Calls : call'[d] = IF d = c THEN k ELSE call[d]
  BY <1>1 DEF SessionInv, TypeInv
<1>7. Alone'
  <2>. SUFFICES ASSUME NEW d \in Tabs, Open = {d}, NEW e \in Calls, ~Free(e)'
                PROVE  Told(d, e)'
    BY <1>4 DEF Alone
  <2>1. d = b
    BY <1>1
  <2>2. \A x \in Calls : Free(x)
    BY <1>1, <2>1 DEF SessionInv, Alone, Told
  <2>3. \A x \in Calls : ~Free(x)' => x = c
    BY <1>6, <2>2 DEF Free
  <2>4. e = c /\ call'[e] = k
    BY <1>6, <2>3
  <2>. QED
    BY <1>1, <1>2, <1>3, <1>4, <2>1, <2>3, <2>4 DEF Told
<1>. QED
  BY <1>4, <1>5, <1>7 DEF SessionInv

\* A tab whose bootstrap is done sends a request.
LEMMA SendMoves ==
    ASSUME SessionInv, NEW b \in Tabs, NEW c \in Calls, Ready(b), Free(c),
           NEW kind \in {"login", "api"}, Sends(c, b, kind, Loaded),
           stored' = Loaded, tab' = tab
    PROVE  SessionInv'
<1>. DEFINE k == [at |-> "sent", tab |-> b, kind |-> kind, token |-> Loaded]
<1>1. call' = [call EXCEPT ![c] = k] /\ b \in Open /\ Loaded \in Known
  BY LoadedIs DEF Sends, Ready, Open, SessionInv
<1>2. k \in CallRecord /\ k # Idle /\ k.tab = b /\ k.kind # "session"
  BY <1>1, SentIs
<1>. HIDE DEF k
<1>3. TypeInv' /\ Open' = Open
  BY <1>1, <1>2 DEF SessionInv, TypeInv, Open
<1>4. \A d \in Calls : call'[d] = IF d = c THEN k ELSE call[d]
  BY <1>1 DEF SessionInv, TypeInv
<1>5. Alone'
  <2>. SUFFICES ASSUME NEW d \in Tabs, Open = {d}, NEW e \in Calls, ~Free(e)'
                PROVE  Told(d, e)'
    BY <1>3 DEF Alone
  <2>1. d = b /\ tab[b].boot = "done"
    BY <1>1 DEF Ready
  <2>2. CASE e = c
    BY <1>2, <1>4, <2>1, <2>2 DEF Told
  <2>3. CASE e # c
    <3>1. ~Free(e) /\ call'[e] = call[e]
      BY <1>4, <2>3 DEF Free
    <3>2. Told(d, e) /\ call[e].kind # "session"
      BY <2>1, <3>1 DEF SessionInv, Alone, Told
    <3>. QED
      BY <3>1, <3>2 DEF Told
  <2>. QED
    BY <2>2, <2>3
<1>. QED
  BY <1>3, <1>5 DEF SessionInv

-----------------------------------------------------------------------------
(* The server and the answers.                                             *)

\* A request is served or lost: it stays the one it was, but a login may get
\* another token.
LEMMA CallMoves ==
    ASSUME SessionInv, NEW c \in Calls, NEW k \in CallRecord, ~Free(c),
           call' = [call EXCEPT ![c] = k],
           k.tab = call[c].tab, k.kind = call[c].kind,
           k.kind = "login" \/ k.token = call[c].token,
           stored' = stored, tab' = tab
    PROVE  SessionInv'
<1>1. TypeInv' /\ Open' = Open
  BY DEF SessionInv, TypeInv, Open
<1>2. \A d \in Calls : call'[d] = IF d = c THEN k ELSE call[d]
  BY DEF SessionInv, TypeInv
<1>3. Alone'
  <2>. SUFFICES ASSUME NEW b \in Tabs, Open = {b}, NEW e \in Calls, ~Free(e)'
                PROVE  Told(b, e)'
    BY <1>1 DEF Alone
  <2>1. \A d \in Calls : ~Free(d)' => ~Free(d)
    BY <1>2 DEF Free
  <2>2. Told(b, e)
    BY <2>1 DEF SessionInv, Alone
  <2>. QED
    BY <1>2, <2>1, <2>2 DEF Told
<1>. QED
  BY <1>1, <1>3 DEF SessionInv

LEMMA ServeKept ==
    ASSUME SessionInv, NEW c \in Calls, Serve(c)
    PROVE  SessionInv'
<1>1. ~Free(c) /\ call[c] \in CallRecord
  BY CallIs DEF Serve, SessionInv
<1>2. CASE call' = [call EXCEPT ![c].at = "denied"] \/ call' = [call EXCEPT ![c].at = "ok"]
  <2>1. PICK at \in {"denied", "ok"} : call' = [call EXCEPT ![c] = [call[c] EXCEPT !.at = at]]
    BY <1>2
  <2>. DEFINE k == [call[c] EXCEPT !.at = at]
  <2>2. /\ k \in CallRecord /\ k.tab = call[c].tab /\ k.kind = call[c].kind
        /\ k.token = call[c].token
    BY <1>1 DEF CallRecord
  <2>. HIDE DEF k
  <2>. QED
    BY <1>1, <2>1, <2>2, CallMoves DEF Serve, k
<1>3. ASSUME NEW t \in Tokens, call[c].kind = "login",
             call' = [call EXCEPT ![c].at = "ok", ![c].token = t]
      PROVE  SessionInv'
  <2>. DEFINE k == [call[c] EXCEPT !.at = "ok", !.token = t]
  <2>1. k \in CallRecord /\ k.tab = call[c].tab /\ k.kind = call[c].kind
    BY <1>1 DEF CallRecord, Known
  <2>2. call' = [call EXCEPT ![c] = k]
    BY <1>3 DEF SessionInv, TypeInv
  <2>. HIDE DEF k
  <2>. QED
    BY <1>1, <1>3, <2>1, <2>2, CallMoves DEF Serve
<1>. QED
  BY <1>2, <1>3 DEF Serve

LEMMA DisconnectKept ==
    ASSUME SessionInv, NEW c \in Calls, Disconnect(c)
    PROVE  SessionInv'
<1>. DEFINE k == [call[c] EXCEPT !.at = "failed"]
<1>1. ~Free(c) /\ call[c] \in CallRecord /\ call' = [call EXCEPT ![c] = k]
  BY CallIs DEF Disconnect, SessionInv
<1>2. /\ k \in CallRecord /\ k.tab = call[c].tab /\ k.kind = call[c].kind
      /\ k.token = call[c].token
  BY <1>1 DEF CallRecord
<1>. HIDE DEF k
<1>. QED
  BY <1>1, <1>2, CallMoves DEF Disconnect

\* An answer comes in.  Unless it is the bootstrap's, which is then the last
\* request, the tab's bootstrap was done before.
LEMMA DeliverKept ==
    ASSUME SessionInv, NEW c \in Calls, Deliver(c)
    PROVE  SessionInv'
<1>1. /\ ~Free(c) /\ call[c].tab \in Tabs /\ call[c].token \in Known
      /\ call' = [call EXCEPT ![c] = Idle]
  BY CallIs DEF Deliver, Welcome, Denied, Shown, Delivered, SessionInv
<1>. DEFINE d == call[c].tab
<1>2. stored' \in Known
  BY <1>1 DEF Deliver, Welcome, Denied, Shown, Known, SessionInv, TypeInv
<1>3. \A e \in Calls : call'[e] = IF e = c THEN Idle ELSE call[e]
  BY <1>1 DEF SessionInv, TypeInv
<1>4. CASE tab' = tab /\ call[c].kind # "session"
  <2>1. TypeInv' /\ Open' = Open
    BY <1>1, <1>2, <1>4 DEF SessionInv, TypeInv, Open
  <2>2. Alone'
    <3>. SUFFICES ASSUME NEW b \in Tabs, Open = {b}, NEW e \in Calls, ~Free(e)'
                  PROVE  Told(b, e)'
      BY <2>1 DEF Alone
    <3>1. ~Free(e) /\ e # c
      BY <1>3 DEF Free
    <3>2. Told(b, e) /\ Told(b, c)
      BY <1>1, <3>1 DEF SessionInv, Alone
    <3>3. call[e].kind # "session"
      BY <1>1, <3>1, <3>2 DEF Told
    <3>. QED
      BY <1>3, <1>4, <3>1, <3>2, <3>3 DEF Told
  <2>. QED
    BY <2>1, <2>2 DEF SessionInv
<1>5. ASSUME NEW t \in Known, tab' = [tab EXCEPT ![d] = [session |-> t, boot |-> "done"]]
      PROVE  SessionInv'
  <2>. DEFINE q == [session |-> t, boot |-> "done"]
  <2>1. q \in TabRecord /\ q.boot = "done"
    BY DEF TabRecord
  <2>2. tab' \in [Tabs -> TabRecord]
        /\ \A b \in Tabs : tab'[b] = IF b = d THEN q ELSE tab[b]
    BY <1>1, <1>5, <2>1 DEF SessionInv, TypeInv
  <2>3. TypeInv'
    BY <1>1, <1>2, <2>2 DEF SessionInv, TypeInv
  <2>4. Alone'
    <3>. SUFFICES ASSUME NEW b \in Tabs, Open' = {b}, NEW e \in Calls, ~Free(e)'
                  PROVE  Told(b, e)'
      BY DEF Alone
    <3>1. ~Free(e) /\ e # c
      BY <1>3 DEF Free
    <3>2. Open = {b}
      <4>1. \A x \in Open : x \in Open'
        BY <2>1, <2>2 DEF Open
      <4>. QED
        BY <4>1 DEF SessionInv
    <3>3. Told(b, e) /\ Told(b, c)
      BY <1>1, <3>1, <3>2 DEF SessionInv, Alone
    <3>4. call[e].kind # "session" /\ b = d
      BY <1>1, <3>1, <3>3 DEF Told
    <3>. QED
      BY <1>3, <2>1, <2>2, <3>1, <3>3, <3>4 DEF Told
  <2>5. Open' # {}
    BY <1>1, <2>1, <2>2 DEF Open
  <2>. QED
    BY <2>3, <2>4, <2>5 DEF SessionInv
<1>. QED
  BY <1>1, <1>4, <1>5 DEF Deliver, Welcome, Denied, Shown, Known

-----------------------------------------------------------------------------

LEMMA QuietKept ==
    ASSUME SessionInv, UNCHANGED <<stored, tab, call>>
    PROVE  SessionInv'
<1>1. TypeInv' /\ Open' = Open
  BY DEF SessionInv, TypeInv, Open
<1>. QED
  BY <1>1 DEF SessionInv, Alone, Told, Free

\* Every step keeps the invariant.
LEMMA NextKept ==
    ASSUME SessionInv, [Next]_vars
    PROVE  SessionInv'
<1>1. ASSUME NEW b \in Tabs, Reload(b) \/ BootWithout(b) \/ Logout(b) PROVE SessionInv'
  BY <1>1, ReloadKept, BootWithoutKept, LogoutKept
<1>2. ASSUME NEW b \in Tabs, NEW c \in Calls, Boot(b, c) PROVE SessionInv'
  BY <1>2, BootKept
<1>3. ASSUME NEW b \in Tabs, NEW c \in Calls, SubmitLogin(b, c) \/ Ask(b, c)
      PROVE  SessionInv'
  BY <1>3, SendMoves DEF SubmitLogin, Ask
<1>4. ASSUME NEW c \in Calls, Serve(c) \/ Disconnect(c) \/ Deliver(c) PROVE SessionInv'
  BY <1>4, ServeKept, DisconnectKept, DeliverKept
<1>5. CASE Spoil \/ UNCHANGED vars
  BY <1>5, QuietKept DEF Spoil, vars
<1>. QED
  BY <1>1, <1>2, <1>3, <1>4, <1>5 DEF Next

LEMMA Invariance == Spec => []SessionInv
BY InitKept, NextKept, PTL DEF Spec

\* With one tab, and however late its requests are answered, a session that was
\* left is stored again by a new login only (hooks/useAuth.ts 66-70).
THEOREM NeverBroughtBack == Spec => LeftForGood
<1>1. ASSUME SessionInv, [Next]_vars, NEW t \in Tokens, OneTab, stored' = t, stored # t
      PROVE  \E c \in Calls : ~Free(c) /\ call[c].kind = "login" /\ call[c].token = t
  <2>1. t # None /\ Loaded \in {stored, None}
    BY <1>1, BrowserAssumption, LoadedIs DEF BrowserAssumption, SessionInv
  <2>2. PICK c \in Calls : Deliver(c)
    <3>1. ASSUME NEW b \in Tabs, Reload(b) \/ BootWithout(b) \/ Logout(b) PROVE FALSE
      BY <1>1, <2>1, <3>1 DEF Reload, BootWithout, Logout
    <3>2. ASSUME NEW b \in Tabs, NEW c \in Calls,
                 Boot(b, c) \/ SubmitLogin(b, c) \/ Ask(b, c)
          PROVE  FALSE
      BY <1>1, <2>1, <3>2 DEF Boot, SubmitLogin, Ask
    <3>3. ASSUME NEW c \in Calls, Serve(c) \/ Disconnect(c) PROVE FALSE
      BY <1>1, <3>3 DEF Serve, Disconnect
    <3>4. CASE Spoil \/ UNCHANGED vars
      BY <1>1, <3>4 DEF Spoil, vars
    <3>. QED
      BY <1>1, <3>1, <3>2, <3>3, <3>4 DEF Next
  <2>3. Welcome(c)
    BY <1>1, <2>1, <2>2 DEF Deliver, Denied, Shown
  <2>4. ~Free(c) /\ call[c].token = t /\ call[c].kind \in {"login", "session"}
    BY <1>1, <2>3, CallIs DEF Welcome, SessionInv
  <2>5. call[c].kind # "session"
    BY <1>1, <2>4 DEF SessionInv, Alone, Told, OneTab
  <2>. QED
    BY <2>4, <2>5
<1>2. SessionInv /\ [Next]_vars =>
          [\A t \in Tokens : (OneTab /\ stored' = t /\ stored # t) =>
               \E c \in Calls : ~Free(c) /\ call[c].kind = "login" /\ call[c].token = t]_vars
  BY <1>1
<1>. QED
  BY <1>2, Invariance, PTL DEF Spec, LeftForGood
=============================================================================
