---------------------------- MODULE BrowserSession ----------------------------
(***************************************************************************)
(* The session in the browser: its copy in the local storage, which all    *)
(* tabs share and every request takes its token from, and the copy each    *)
(* tab shows.  Answers come late and in any order; a tab that is loaded    *)
(* anew does not wait for them.                                            *)
(***************************************************************************)
EXTENDS Naturals

CONSTANTS Tokens, None,
          Tabs, Calls,
          MaxReloads  \* bound: how often the pages are loaded anew

ASSUME BrowserAssumption == None \notin Tokens

VARIABLES standing, \* token -> what the server makes of it
          stored,   \* the token in the local storage
          tab,      \* tab -> the token of the session it shows, and its bootstrap
          call,     \* call -> a request under way
          reloads

vars == <<standing, stored, tab, call, reloads>>

Idle == [at |-> "idle"]

Open == {b \in Tabs : tab[b].boot # "closed"}

\* One tab or several.
Init == /\ standing = [t \in Tokens |-> "unused"]
        /\ stored = None
        /\ tab \in [Tabs -> [session : {None}, boot : {"no", "closed"}]]
        /\ Open # {}
        /\ call = [c \in Calls |-> Idle]
        /\ reloads = 0

\* loadSession: an expired session is removed from the storage by who reads it.
Loaded == IF stored # None /\ standing[stored] = "expired" THEN None ELSE stored

Free(c) == call[c] = Idle
Sends(c, b, kind, token) ==
    call' = [call EXCEPT ![c] = [at |-> "sent", tab |-> b, kind |-> kind, token |-> token]]

\* The page is loaded anew: its requests are given up.
Reload(b) ==
    /\ b \in Open
    /\ reloads < MaxReloads /\ reloads' = reloads + 1
    /\ stored' = Loaded
    /\ tab' = [tab EXCEPT ![b] = [session |-> Loaded, boot |-> "no"]]
    /\ call' = [c \in Calls |-> IF call[c] # Idle /\ call[c].tab = b THEN Idle ELSE call[c]]
    /\ UNCHANGED standing

\* The first navigation: without a stored session there is none, with one the
\* server is asked.
BootWithout(b) ==
    /\ tab[b].boot = "no" /\ Loaded = None
    /\ stored' = None
    /\ tab' = [tab EXCEPT ![b] = [session |-> None, boot |-> "done"]]
    /\ UNCHANGED <<standing, call, reloads>>

Boot(b, c) ==
    /\ tab[b].boot = "no" /\ Loaded # None
    /\ Free(c) /\ Sends(c, b, "session", stored)
    /\ tab' = [tab EXCEPT ![b].boot = "waiting"]
    /\ UNCHANGED <<standing, stored, reloads>>

\* The login page, and the pages with their polls, are there once the bootstrap
\* is done, and so is the button to sign out.  (Faulty variant: at any time.)
Ready(b) == tab[b].boot = "done"

SubmitLogin(b, c) ==
    /\ Ready(b) /\ tab[b].session = None
    /\ \A d \in Calls : ~Free(d) => ~(call[d].tab = b /\ call[d].kind = "login")
    /\ Free(c) /\ stored' = Loaded /\ Sends(c, b, "login", Loaded)
    /\ UNCHANGED <<standing, tab, reloads>>

LogoutAnytime(b) ==
    /\ tab[b].session # None
    /\ stored' = None
    /\ tab' = [tab EXCEPT ![b].session = None, ![b].boot = "done"]
    /\ UNCHANGED <<standing, call, reloads>>

Logout(b) ==
    /\ Ready(b) /\ tab[b].session # None
    /\ stored' = None
    /\ tab' = [tab EXCEPT ![b].session = None]
    /\ UNCHANGED <<standing, call, reloads>>

Ask(b, c) ==
    /\ Ready(b) /\ tab[b].session # None
    /\ Free(c) /\ stored' = Loaded /\ Sends(c, b, "api", Loaded)
    /\ UNCHANGED <<standing, tab, reloads>>

-----------------------------------------------------------------------------
(* The server: external here, Sessions is its module.                      *)

Good(t) == t # None /\ standing[t] = "good"

Serve(c) ==
    /\ call[c].at = "sent"
    /\ IF call[c].kind = "login"
       THEN \/ /\ call' = [call EXCEPT ![c].at = "denied"]
               /\ UNCHANGED standing
            \/ \E t \in Tokens :
                   /\ standing[t] = "unused"
                   /\ standing' = [standing EXCEPT ![t] = "good"]
                   /\ call' = [call EXCEPT ![c].at = "ok", ![c].token = t]
       ELSE /\ call' = [call EXCEPT ![c].at = IF Good(call[c].token) THEN "ok" ELSE "denied"]
            /\ UNCHANGED standing
    /\ UNCHANGED <<stored, tab, reloads>>

Disconnect(c) == /\ call[c].at = "sent"
                 /\ call' = [call EXCEPT ![c].at = "failed"]
                 /\ UNCHANGED <<standing, stored, tab, reloads>>

Spoil == /\ \E t \in Tokens, how \in {"revoked", "expired"} :
                standing[t] = "good" /\ standing' = [standing EXCEPT ![t] = how]
         /\ UNCHANGED <<stored, tab, call, reloads>>

-----------------------------------------------------------------------------
(* An answer comes in.                                                     *)

Delivered(c) == call' = [call EXCEPT ![c] = Idle] /\ UNCHANGED <<standing, reloads>>

\* The session is stored, and stored again when the bootstrap is answered.
Welcome(c) ==
    /\ call[c].at = "ok" /\ call[c].kind \in {"login", "session"}
    /\ stored' = call[c].token
    /\ tab' = [tab EXCEPT ![call[c].tab] = [session |-> call[c].token, boot |-> "done"]]
    /\ Delivered(c)

\* A 401, whichever token it is about, clears the storage; the tab is told only
\* when it was the bootstrap, which any failure ends.  (Faulty variant: the
\* storage is left alone.)
DeniedOnlyBoots(c) ==
    /\ call[c].at \in {"denied", "failed"}
    /\ stored' = IF call[c].kind = "session" THEN None ELSE stored
    /\ tab' = IF call[c].kind = "session"
              THEN [tab EXCEPT ![call[c].tab] = [session |-> None, boot |-> "done"]]
              ELSE tab
    /\ Delivered(c)

Denied(c) ==
    /\ call[c].at \in {"denied", "failed"}
    /\ stored' = IF call[c].at = "denied" \/ call[c].kind = "session" THEN None ELSE stored
    /\ tab' = IF call[c].kind = "session"
              THEN [tab EXCEPT ![call[c].tab] = [session |-> None, boot |-> "done"]]
              ELSE tab
    /\ Delivered(c)

Shown(c) == /\ call[c].at = "ok" /\ call[c].kind = "api"
            /\ Delivered(c) /\ UNCHANGED <<stored, tab>>

Deliver(c) == Welcome(c) \/ Denied(c) \/ Shown(c)

Next == \/ \E b \in Tabs : \/ Reload(b) \/ BootWithout(b) \/ Logout(b)
                           \/ \E c \in Calls : Boot(b, c) \/ SubmitLogin(b, c) \/ Ask(b, c)
        \/ \E c \in Calls : Serve(c) \/ Disconnect(c) \/ Deliver(c)
        \/ Spoil

Spec == Init /\ [][Next]_vars

\* Tabs are polled and navigated in, answers come in, and not every request is
\* lost on its way.
FairSpec ==
    /\ Spec
    /\ \A b \in Tabs : /\ SF_vars(\E c \in Calls : Ask(b, c))
                       /\ SF_vars(BootWithout(b) \/ \E c \in Calls : Boot(b, c))
    /\ \A c \in Calls : WF_vars(Serve(c) \/ Disconnect(c)) /\ WF_vars(Deliver(c))
    /\ SF_vars(\E c \in Calls : call[c].at = "sent" /\ call[c].kind # "login" /\ Serve(c))
-----------------------------------------------------------------------------
OneTab == \E b \in Tabs : Open = {b}

\* useAuth.ts 66-70: with one tab a session that was left - signed out of, or
\* cleared by a 401 - is never stored again: no late answer brings it back.
LeftForGood ==
    [][\A t \in Tokens : (OneTab /\ stored' = t /\ stored # t) =>
           \E c \in Calls : ~Free(c) /\ call[c].kind = "login" /\ call[c].token = t]_vars

\* client.ts 31: a token the server no longer takes leaves the storage, in
\* however many tabs it is used.
SpoiltIsForgotten ==
    \A t \in Tokens : (stored = t /\ standing[t] \in {"revoked", "expired"}) ~> (stored # t)
=============================================================================
