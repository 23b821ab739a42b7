--------------------------- MODULE SessionsProofs ---------------------------
(***************************************************************************)
(* CurrentRoleOnly for all users, roles, logins and requests.              *)
(***************************************************************************)
EXTENDS Sessions, TLAPS

\* What the account is now has been seen, and so has the role that a request
\* went on with: the conjunct that Resolve and Becomes preserve together.
SeenInv ==
    \A r \in Requests :
        request[r] # Idle =>
            /\ Standing(account[request[r].token.user]) \subseteq request[r].seen
            /\ request[r].at \in {"resolved", "handling"} =>
                   <<request[r].token.id, request[r].role>> \in request[r].seen
            /\ request[r].at = "handling" => request[r].role \in request[r].allowed

Inv == TypeOK /\ SeenInv

RequestStates == [at : {"parsed", "resolved", "handling"}, token : Tokens,
                  allowed : Routes, role : Roles, seen : SUBSET Standings]
LoginStates == [at : {"compare"}, user : Users, copy : Accounts]

-----------------------------------------------------------------------------
LEMMA StandingType == ASSUME NEW a \in Accounts PROVE Standing(a) \subseteq Standings
BY DEF Standing, Accounts, Standings

LEMMA InitInv == Init => Inv
BY SessionsAssumption DEF Init, Inv, TypeOK, SeenInv, Idle, Accounts

\* A request that moves or ends alone: what the others need is unchanged.
LEMMA RequestStep ==
    ASSUME Inv, NEW r \in Requests, NEW q \in RequestStates \cup {Idle},
           request' = [request EXCEPT ![r] = q],
           UNCHANGED <<account, tokens, login>>,
           q # Idle => /\ Standing(account[q.token.user]) \subseteq q.seen
                       /\ q.at \in {"resolved", "handling"} =>
                              <<q.token.id, q.role>> \in q.seen
                       /\ q.at = "handling" => q.role \in q.allowed
    PROVE  Inv'
<1>1. TypeOK'
    BY DEF Inv, TypeOK, RequestStates
<1>2. SeenInv'
  <2>1. SUFFICES ASSUME NEW s \in Requests, request'[s] # Idle
                 PROVE /\ Standing(account[request'[s].token.user]) \subseteq request'[s].seen
                       /\ request'[s].at \in {"resolved", "handling"} =>
                              <<request'[s].token.id, request'[s].role>> \in request'[s].seen
                       /\ request'[s].at = "handling" => request'[s].role \in request'[s].allowed
    BY DEF SeenInv
  <2>2. CASE s = r
    BY <2>1, <2>2 DEF Inv, TypeOK
  <2>3. CASE s # r
    <3>1. request'[s] = request[s]
      BY <2>3 DEF Inv, TypeOK
    <3>2. QED BY <2>1, <3>1 DEF Inv, SeenInv
  <2>4. QED BY <2>2, <2>3
<1>3. QED BY <1>1, <1>2 DEF Inv

LEMMA LoginInv == ASSUME Inv, NEW l \in Logins, Login(l) PROVE Inv'
<1>1. CASE SignToken(l)
  <2>1. login[l] \in LoginStates
    BY <1>1 DEF SignToken, Inv, TypeOK, LoginStates, Idle
  <2>2. login[l].user \in Users /\ login[l].copy \in Accounts
    BY <2>1 DEF LoginStates
  <2>3. [user |-> login[l].user, id |-> login[l].copy.id, role |-> login[l].copy.role] \in Tokens
    BY <2>2 DEF Tokens, Accounts
  <2>4. tokens' \subseteq Tokens
    BY <1>1, <2>3 DEF SignToken, Inv, TypeOK
  <2>5. login' \in [Logins -> {Idle} \cup LoginStates]
    BY <1>1 DEF SignToken, Inv, TypeOK, LoginStates
  <2>6. QED BY <1>1, <2>4, <2>5 DEF SignToken, Inv, TypeOK, SeenInv, LoginStates
<1>2. CASE WrongPassword(l)
    BY <1>2 DEF WrongPassword, Inv, TypeOK, SeenInv
<1>3. ASSUME NEW u \in Users, ReadAccount(l, u) PROVE Inv'
  <2>1. [at |-> "compare", user |-> u, copy |-> account[u]] \in LoginStates
    BY DEF Inv, TypeOK, LoginStates
  <2>2. login' \in [Logins -> {Idle} \cup LoginStates]
    BY <1>3, <2>1 DEF ReadAccount, Inv, TypeOK, LoginStates
  <2>3. QED BY <1>3, <2>2 DEF ReadAccount, Inv, TypeOK, SeenInv, LoginStates
<1>4. QED BY <1>1, <1>2, <1>3 DEF Login

LEMMA RequestInv == ASSUME Inv, NEW r \in Requests, Request(r) PROVE Inv'
<1>0. request[r] \in RequestStates \cup {Idle}
    BY DEF Inv, TypeOK, RequestStates
<1>1. ASSUME NEW t \in tokens, NEW allowed \in Routes, Arrive(r, t, allowed) PROVE Inv'
  <2> DEFINE q == [at |-> "parsed", token |-> t, allowed |-> allowed, role |-> t.role,
                   seen |-> Standing(account[t.user])]
  <2>1. t \in Tokens
    BY DEF Inv, TypeOK
  <2>2. account[t.user] \in Accounts
    BY <2>1 DEF Inv, TypeOK, Tokens
  <2>3. q \in RequestStates
    BY <1>1, <2>1, <2>2, StandingType DEF Arrive, RequestStates
  <2>4. request' = [request EXCEPT ![r] = q]
    BY <1>1 DEF Arrive
  <2>5. QED BY <1>1, <2>3, <2>4, RequestStep DEF Arrive
<1>2. CASE Resolve(r)
  <2>1. request[r] \in RequestStates /\ request[r].at = "parsed"
    BY <1>0, <1>2 DEF Resolve, Idle
  <2> DEFINE t == request[r].token
             a == account[t.user]
  <2>2. CASE Found(t)
    <3>1. t \in Tokens /\ a \in Accounts
      BY <2>1 DEF RequestStates, Inv, TypeOK, Tokens
    <3>2. a.active /\ a.id = t.id /\ a.role \in Roles
      BY <2>2 DEF Found
    <3> DEFINE q == [request[r] EXCEPT !.at = "resolved", !.role = a.role]
    <3>3. request' = [request EXCEPT ![r] = q]
      BY <1>2, <2>2 DEF Resolve, Inv, TypeOK
    <3>4. /\ q \in RequestStates
          /\ q.token = t /\ q.seen = request[r].seen /\ q.role = a.role /\ q.at = "resolved"
      BY <2>1, <3>2 DEF RequestStates
    <3>5. request[r] # Idle
      BY <2>1 DEF Idle
    <3>6. Standing(a) \subseteq request[r].seen
      BY <3>5 DEF Inv, SeenInv
    <3>7. <<t.id, a.role>> \in Standing(a)
      BY <3>2 DEF Standing
    <3> HIDE DEF q
    <3>8. QED BY <1>2, <3>3, <3>4, <3>6, <3>7, RequestStep DEF Resolve
  <2>3. CASE ~Found(t)
    BY <1>2, <2>3, RequestStep DEF Resolve, End
  <2>4. QED BY <2>2, <2>3
<1>3. CASE Authorize(r)
  <2>1. request[r] \in RequestStates /\ request[r].at = "resolved" /\ request[r] # Idle
    BY <1>0, <1>3 DEF Authorize, Idle
  <2>2. CASE request[r].role \in request[r].allowed
    <3> DEFINE q == [request[r] EXCEPT !.at = "handling"]
    <3>1. request' = [request EXCEPT ![r] = q]
      BY <1>3, <2>2 DEF Authorize, Inv, TypeOK
    <3>2. /\ q \in RequestStates /\ q.at = "handling"
          /\ q.token = request[r].token /\ q.seen = request[r].seen
          /\ q.role = request[r].role /\ q.allowed = request[r].allowed
      BY <2>1 DEF RequestStates
    <3> HIDE DEF q
    <3>3. /\ Standing(account[request[r].token.user]) \subseteq request[r].seen
          /\ <<request[r].token.id, request[r].role>> \in request[r].seen
      BY <2>1 DEF Inv, SeenInv
    <3>4. QED BY <1>3, <2>2, <3>1, <3>2, <3>3, RequestStep DEF Authorize
  <2>3. CASE request[r].role \notin request[r].allowed
    BY <1>3, <2>3, RequestStep DEF Authorize, End
  <2>4. QED BY <2>2, <2>3
<1>4. CASE Answer(r)
    BY <1>4, RequestStep DEF Answer, End
<1>5. QED BY <1>1, <1>2, <1>3, <1>4 DEF Request

LEMMA BecomesInv ==
    ASSUME Inv, NEW u \in Users, NEW a \in Accounts, Becomes(u, a) PROVE Inv'
<1>1. Standing(a) \subseteq Standings
    BY StandingType
<1>2. ASSUME NEW r \in Requests, request[r] # Idle, request[r].token.user = u
      PROVE /\ request'[r] \in RequestStates
            /\ request'[r].at = request[r].at /\ request'[r].token = request[r].token
            /\ request'[r].role = request[r].role /\ request'[r].allowed = request[r].allowed
            /\ request'[r].seen = request[r].seen \cup Standing(a)
  <2>1. request[r] \in RequestStates
    BY <1>2 DEF Inv, TypeOK, RequestStates
  <2>2. request'[r] = [request[r] EXCEPT !.seen = @ \cup Standing(a)]
    BY <1>2 DEF Becomes
  <2>3. QED BY <1>1, <2>1, <2>2 DEF RequestStates
<1>3. ASSUME NEW r \in Requests, request[r] = Idle \/ request[r].token.user # u
      PROVE request'[r] = request[r]
    BY <1>3 DEF Becomes
<1>4. TypeOK'
  <2>1. account' \in [Users -> Accounts] /\ UNCHANGED <<tokens, login>>
    BY DEF Becomes, Inv, TypeOK
  <2>2. ASSUME NEW r \in Requests PROVE request'[r] \in {Idle} \cup RequestStates
    BY <1>2, <1>3 DEF Inv, TypeOK, RequestStates
  <2>3. \E f : request' = [r \in Requests |-> f[r]]
    <3>1. request' = [r \in Requests |-> request'[r]]
      BY DEF Becomes
    <3>2. QED BY <3>1
  <2>4. request' \in [Requests -> {Idle} \cup RequestStates]
    BY <2>2, <2>3
  <2>5. QED BY <2>1, <2>4 DEF Inv, TypeOK, RequestStates
<1>5. SeenInv'
  <2>1. SUFFICES ASSUME NEW r \in Requests, request'[r] # Idle
                 PROVE /\ Standing(account'[request'[r].token.user]) \subseteq request'[r].seen
                       /\ request'[r].at \in {"resolved", "handling"} =>
                              <<request'[r].token.id, request'[r].role>> \in request'[r].seen
                       /\ request'[r].at = "handling" => request'[r].role \in request'[r].allowed
    BY DEF SeenInv
  <2>2. request[r] # Idle
    BY <1>3, <2>1
  <2>3. CASE request[r].token.user = u
    <3>1. account'[u] = a
      BY DEF Becomes, Inv, TypeOK
    <3>2. QED BY <1>2, <2>2, <2>3, <3>1 DEF Inv, SeenInv
  <2>4. CASE request[r].token.user # u
    <3>1. request'[r] = request[r]
      BY <1>3, <2>4
    <3>2. account'[request[r].token.user] = account[request[r].token.user]
      BY <2>4 DEF Becomes, Inv, TypeOK
    <3>3. QED BY <2>2, <3>1, <3>2 DEF Inv, SeenInv
  <2>5. QED BY <2>3, <2>4
<1>6. QED BY <1>4, <1>5 DEF Inv

LEMMA AccountChangeInv == ASSUME Inv, NEW u \in Users, AccountChange(u) PROVE Inv'
<1>0. account[u] \in Accounts
    BY DEF Inv, TypeOK
<1>1. ASSUME NEW active \in BOOLEAN, SetActive(u, active) PROVE Inv'
  <2>1. [account[u] EXCEPT !.active = active] \in Accounts
    BY <1>0 DEF Accounts
  <2>2. QED BY <1>1, <2>1, BecomesInv DEF SetActive
<1>2. ASSUME NEW role \in Roles \cup {OtherRole}, SetRole(u, role) PROVE Inv'
  <2>1. [account[u] EXCEPT !.role = role] \in Accounts
    BY <1>0 DEF Accounts
  <2>2. QED BY <1>2, <2>1, BecomesInv DEF SetRole
<1>3. ASSUME NEW role \in Roles \cup {OtherRole}, MakeAnew(u, role) PROVE Inv'
  <2>1. account[u].id + 1 \in 1..MaxId
    BY <1>0, <1>3, SessionsAssumption DEF MakeAnew, Accounts
  <2>2. [id |-> account[u].id + 1, active |-> TRUE, role |-> role] \in Accounts
    BY <2>1 DEF Accounts
  <2>3. QED BY <1>3, <2>2, BecomesInv DEF MakeAnew
<1>4. QED BY <1>1, <1>2, <1>3 DEF AccountChange

LEMMA NextInv == Inv /\ [Next]_vars => Inv'
<1>1. ASSUME Inv, NEW t \in tokens, Expire(t) PROVE Inv'
    BY <1>1 DEF Expire, Inv, TypeOK, SeenInv
<1>2. ASSUME Inv, UNCHANGED vars PROVE Inv'
    BY <1>2 DEF vars, Inv, TypeOK, SeenInv
<1>3. QED BY <1>1, <1>2, LoginInv, RequestInv, AccountChangeInv DEF Next

\* Every variable keeps its type, with whatever accounts are made meanwhile.
THEOREM TypeCorrectness == Spec => []TypeOK
<1>1. Inv => TypeOK
  BY DEF Inv
<1>2. QED BY <1>1, InitInv, NextInv, PTL DEF Spec

\* auth.go 61-67: the account is looked up for every request, so that a role is
\* used only by a request during which the account the token was signed for has
\* had it, active; the token's own role does not count.
THEOREM ActsWithCurrentRole == Spec => []CurrentRoleOnly
<1>1. Inv => CurrentRoleOnly
  <2>1. ASSUME Inv, NEW r \in Requests, request[r].at = "handling" PROVE request[r] # Idle
    BY <2>1 DEF Idle
  <2>2. QED BY <2>1 DEF Inv, SeenInv, CurrentRoleOnly
<1>2. QED BY <1>1, InitInv, NextInv, PTL DEF Spec
=============================================================================
