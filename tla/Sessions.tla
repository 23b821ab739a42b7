------------------------------- MODULE Sessions -------------------------------
(***************************************************************************)
(* Login, tokens and the authentication of requests.  A token carries the  *)
(* account as it was at login and expires at some time; every request      *)
(* looks the account up again, and its handler runs with what was found    *)
(* then.                                                                   *)
(*                                                                         *)
(* External: there is no operation on accounts, they are changed in the    *)
(* database - deactivated, given another role, deleted and made anew.      *)
(***************************************************************************)
EXTENDS Naturals

CONSTANTS Users,
          Roles,      \* the roles with a rank
          OtherRole,  \* any text that is none of them
          Routes,     \* the sets of roles that routes ask for
          Logins, Requests,
          MaxId       \* bound: accounts made under one name

ASSUME SessionsAssumption ==
    /\ OtherRole \notin Roles
    /\ Routes \subseteq SUBSET Roles
    /\ MaxId \in Nat \ {0}

VARIABLES account,  \* user name -> the account of that name
          tokens,   \* the tokens signed and not expired
          login,    \* login -> the account it has read
          request   \* request -> where its authentication stands

vars == <<account, tokens, login, request>>

Accounts == [id : 1..MaxId, active : BOOLEAN, role : Roles \cup {OtherRole}]
Tokens == [user : Users, id : 1..MaxId, role : Roles \cup {OtherRole}]

Idle == [at |-> "idle"]

Init ==
    /\ account \in [Users -> {a \in Accounts : a.id = 1 /\ a.active /\ a.role \in Roles}]
    /\ tokens = {}
    /\ login = [l \in Logins |-> Idle]
    /\ request = [r \in Requests |-> Idle]

-----------------------------------------------------------------------------
(* Login.                                                                  *)

\* Only an active account is found; then its password is compared.
ReadAccount(l, u) ==
    /\ login[l] = Idle /\ account[u].active
    /\ login' = [login EXCEPT ![l] = [at |-> "compare", user |-> u, copy |-> account[u]]]
    /\ UNCHANGED <<account, tokens, request>>

\* Signed with what was read.
SignToken(l) ==
    /\ login[l].at = "compare"
    /\ tokens' = tokens \cup {[user |-> login[l].user, id |-> login[l].copy.id,
                               role |-> login[l].copy.role]}
    /\ login' = [login EXCEPT ![l] = Idle]
    /\ UNCHANGED <<account, request>>

WrongPassword(l) == /\ login[l].at = "compare"
                    /\ login' = [login EXCEPT ![l] = Idle]
                    /\ UNCHANGED <<account, tokens, request>>

-----------------------------------------------------------------------------
(* A request.  `seen' is what the account has been since it arrived.       *)

Standing(a) == IF a.active THEN {<<a.id, a.role>>} ELSE {}

\* The token is parsed: signed by us, not expired, its claims complete.  (Faulty
\* variant: any role is a complete claim.)
ArriveUnranked(r, t, allowed) ==
    /\ request[r] = Idle
    /\ request' = [request EXCEPT ![r] =
           [at |-> "parsed", token |-> t, allowed |-> allowed, role |-> t.role,
            seen |-> Standing(account[t.user])]]
    /\ UNCHANGED <<account, tokens, login>>

Arrive(r, t, allowed) ==
    /\ request[r] = Idle
    /\ t.role \in Roles
    /\ request' = [request EXCEPT ![r] =
           [at |-> "parsed", token |-> t, allowed |-> allowed, role |-> t.role,
            seen |-> Standing(account[t.user])]]
    /\ UNCHANGED <<account, tokens, login>>

End(r) == request' = [request EXCEPT ![r] = Idle]

\* The account is looked up by its name.  (Faulty variant: the role of the
\* token is kept.)
Found(t) == /\ account[t.user].active
            /\ account[t.user].id = t.id
            /\ account[t.user].role \in Roles

ResolveByClaim(r) ==
    /\ request[r].at = "parsed"
    /\ IF Found(request[r].token)
       THEN request' = [request EXCEPT ![r].at = "resolved"]
       ELSE End(r)
    /\ UNCHANGED <<account, tokens, login>>

Resolve(r) ==
    /\ request[r].at = "parsed"
    /\ LET t == request[r].token
       IN  IF Found(t)
           THEN request' = [request EXCEPT ![r].at = "resolved",
                                           ![r].role = account[t.user].role]
           ELSE End(r)
    /\ UNCHANGED <<account, tokens, login>>

\* The roles the route asks for.
Authorize(r) ==
    /\ request[r].at = "resolved"
    /\ IF request[r].role \in request[r].allowed
       THEN request' = [request EXCEPT ![r].at = "handling"]
       ELSE End(r)
    /\ UNCHANGED <<account, tokens, login>>

Answer(r) == request[r].at = "handling" /\ End(r) /\ UNCHANGED <<account, tokens, login>>

-----------------------------------------------------------------------------
(* What happens meanwhile.                                                 *)

Becomes(u, a) ==
    /\ account' = [account EXCEPT ![u] = a]
    /\ request' = [r \in Requests |->
           IF request[r] # Idle /\ request[r].token.user = u
           THEN [request[r] EXCEPT !.seen = @ \cup Standing(a)] ELSE request[r]]
    /\ UNCHANGED <<tokens, login>>

SetActive(u, active) == Becomes(u, [account[u] EXCEPT !.active = active])
SetRole(u, role) == Becomes(u, [account[u] EXCEPT !.role = role])
MakeAnew(u, role) == /\ account[u].id < MaxId
                     /\ Becomes(u, [id |-> account[u].id + 1, active |-> TRUE, role |-> role])

\* A request in progress keeps the token it was parsed from.
Expire(t) == /\ tokens' = tokens \ {t}
             /\ UNCHANGED <<account, login, request>>

Login(l) == SignToken(l) \/ WrongPassword(l) \/ \E u \in Users : ReadAccount(l, u)

Request(r) == \/ \E t \in tokens, allowed \in Routes : Arrive(r, t, allowed)
              \/ Resolve(r) \/ Authorize(r) \/ Answer(r)

AccountChange(u) ==
    \/ \E active \in BOOLEAN : SetActive(u, active)
    \/ \E role \in Roles \cup {OtherRole} : SetRole(u, role) \/ MakeAnew(u, role)

Next == \/ \E l \in Logins : Login(l)
        \/ \E r \in Requests : Request(r)
        \/ \E u \in Users : AccountChange(u)
        \/ \E t \in tokens : Expire(t)

Spec == Init /\ [][Next]_vars
-----------------------------------------------------------------------------
Standings == (1..MaxId) \X (Roles \cup {OtherRole})

TypeOK ==
    /\ account \in [Users -> Accounts]
    /\ tokens \subseteq Tokens
    /\ login \in [Logins -> {Idle} \cup [at : {"compare"}, user : Users, copy : Accounts]]
    /\ request \in [Requests -> {Idle} \cup
           [at : {"parsed", "resolved", "handling"}, token : Tokens,
            allowed : Routes, role : Roles, seen : SUBSET Standings]]

\* auth.go 61-67: nobody acts with what his account is no longer.  A handler
\* runs with a role, of those its route asks for, which the very account the
\* token was signed for has had, active, since the request arrived - whatever
\* the token says, and also when the account changed between login's read and
\* the signing, or was made anew.  So a token is of no use while its account is
\* not active, as README 26 says.  With a lesser role, of which README 26 says
\* the same, it is not refused: its owner acts with that role.
CurrentRoleOnly ==
    \A r \in Requests :
        request[r].at = "handling" =>
            /\ request[r].role \in request[r].allowed
            /\ <<request[r].token.id, request[r].role>> \in request[r].seen
=============================================================================
