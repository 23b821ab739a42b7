----------------------------- MODULE EntityStore -----------------------------
(***************************************************************************)
(* The page of one kind of record and its store in the browser: a list     *)
(* that is loaded when the page opens, on search, every thirty seconds and *)
(* after each change; the form for a new record and the dialog for a       *)
(* transition, which send a change.  Loads, changes and the preparation of *)
(* forms overlap, their answers come in any order, and they share one      *)
(* error text; loads and changes also share one loading flag, and only the *)
(* form's button waits for it.                                             *)
(*                                                                         *)
(* The list is one row that others change too, known by its version, and   *)
(* the records that are added, each known by its code.                     *)
(***************************************************************************)
EXTENDS Integers

CONSTANTS Loads,         \* loads under way at the same time
          Posts,         \* changes under way at the same time
          Codes,         \* of the records that are added
          NoCode,
          MaxVersion,    \* bound: the version from which on nobody changes the row
          MaxPreparing   \* bound: forms that are being prepared at once

ASSUME PageAssumption ==
    /\ MaxVersion \in Nat \ {0} /\ MaxPreparing \in Nat
    /\ "nobody" \notin Posts
    /\ NoCode \notin Codes /\ \A c \in Codes : c \notin 0..MaxVersion

VARIABLES server,     \* the row's version, and the codes of the records added
          items,      \* the list that is shown
          error,      \* whether an error is shown
          loading,
          form,       \* whether the form is open, and the code in it
          preparing,  \* the requests for what the form offers that are under way
          dialog,     \* the version of the row's copy in the transition dialog
          load,       \* load -> where it stands
          post,       \* change -> where it stands
          taken       \* code or version named -> the changes carried out with it

windows == <<form, preparing, dialog>>
vars == <<server, items, error, loading, windows, load, post, taken>>

NoItems == [version |-> 0, codes |-> {}]
Closed == 0
IdleLoad == [at |-> "idle"]
IdlePost == [at |-> "idle"]

Init ==
    /\ server = [version |-> 1, codes |-> {}]
    /\ items = NoItems
    /\ error = FALSE /\ loading = FALSE
    /\ form = [open |-> FALSE, code |-> NoCode] /\ preparing = 0
    /\ dialog = Closed
    /\ load = [l \in Loads |-> IdleLoad]
    /\ post = [p \in Posts |-> IdlePost]
    /\ taken = [n \in Codes \cup 0..MaxVersion |-> 0]

-----------------------------------------------------------------------------
(* load                                                                    *)

Free(l) == load[l] = IdleLoad

\* Every load begins like this, whoever `for' it is: a change or nobody.
Begins(l, for) == /\ load' = [load EXCEPT ![l] = [at |-> "sent", for |-> for]]
                  /\ loading' = TRUE /\ error' = FALSE

\* On mount, on search, by the timer.  (Faulty variant: not while an error is
\* shown.)
LoadUnlessError(l) == /\ Free(l) /\ ~error /\ Begins(l, "nobody")
                      /\ UNCHANGED <<server, items, windows, post, taken>>
Load(l) == /\ Free(l) /\ Begins(l, "nobody")
           /\ UNCHANGED <<server, items, windows, post, taken>>

AnswerLoad(l) == /\ load[l].at = "sent"
                 /\ load' = [load EXCEPT ![l] = [at |-> "answered", for |-> load[l].for,
                                                 list |-> server]]
                 /\ UNCHANGED <<server, items, error, loading, windows, post, taken>>

LoseLoad(l) == /\ load[l].at = "sent"
               /\ load' = [load EXCEPT ![l].at = "failed"]
               /\ UNCHANGED <<server, items, error, loading, windows, post, taken>>

\* What its caller does next: a change is done, and unless an error is shown,
\* whoever it is from, the form closes, or the dialog, whatever it is about now.
Returns(l, failed) ==
    /\ load' = [load EXCEPT ![l] = IdleLoad]
    /\ IF load[l].for = "nobody" THEN UNCHANGED <<windows, post>>
       ELSE LET p == load[l].for
            IN  /\ post' = [post EXCEPT ![p] = IdlePost]
                /\ form' = [form EXCEPT !.open =
                       @ /\ (failed \/ error \/ post[p].names \notin Codes)]
                /\ dialog' = IF failed \/ error \/ post[p].names \in Codes
                             THEN dialog ELSE Closed
                /\ UNCHANGED preparing

LoadEnds(l) ==
    /\ load[l].at = "answered"
    /\ items' = load[l].list /\ loading' = FALSE
    /\ Returns(l, FALSE)
    /\ UNCHANGED <<server, error, taken>>

\* (Faulty variant: the flag is left.)
LoadFailsLoading(l) ==
    /\ load[l].at = "failed"
    /\ error' = TRUE
    /\ Returns(l, TRUE)
    /\ UNCHANGED <<server, items, loading, taken>>
LoadFails(l) ==
    /\ load[l].at = "failed"
    /\ error' = TRUE /\ loading' = FALSE
    /\ Returns(l, TRUE)
    /\ UNCHANGED <<server, items, taken>>

-----------------------------------------------------------------------------
(* The form and the transition dialog.  Each covers the page, and the form *)
(* the dialog, which it may come to lie upon.                              *)

Covered == form.open \/ dialog # Closed

\* prepareCreate gives the form a new code and then asks for what the record may
\* hang on.  (A reservoir hangs on nothing: its form is open at once.)
PressCreate ==
    /\ ~Covered /\ preparing < MaxPreparing
    /\ \E c \in Codes : form' = [form EXCEPT !.code = c]
    /\ preparing' = preparing + 1
    /\ UNCHANGED <<server, items, error, loading, dialog, load, post, taken>>

\* The form opens, whatever the user has opened, sent or closed meanwhile.
Prepared ==
    /\ preparing > 0 /\ preparing' = preparing - 1
    /\ form' = [form EXCEPT !.open = TRUE]
    /\ UNCHANGED <<server, items, error, loading, dialog, load, post, taken>>

PrepareFails ==
    /\ preparing > 0 /\ preparing' = preparing - 1
    /\ error' = TRUE
    /\ UNCHANGED <<server, items, loading, form, dialog, load, post, taken>>

TypeCode == /\ form.open /\ \E c \in Codes : form' = [form EXCEPT !.code = c]
            /\ UNCHANGED <<server, items, error, loading, preparing, dialog, load, post, taken>>

\* selectTransition, on the copy that is shown.
SelectTransition ==
    /\ ~Covered /\ items # NoItems
    /\ dialog' = items.version
    /\ UNCHANGED <<server, items, error, loading, form, preparing, load, post, taken>>

Cancel == /\ \/ form.open /\ form' = [form EXCEPT !.open = FALSE] /\ UNCHANGED dialog
             \/ ~form.open /\ dialog # Closed /\ dialog' = Closed /\ UNCHANGED form
          /\ UNCHANGED <<server, items, error, loading, preparing, load, post, taken>>

-----------------------------------------------------------------------------
(* createRecord and transition.                                            *)

Sends(p, n) == /\ post[p] = IdlePost
               /\ post' = [post EXCEPT ![p] = [at |-> "sent", names |-> n, done |-> FALSE]]
               /\ loading' = TRUE /\ error' = FALSE
               /\ UNCHANGED <<server, items, windows, load, taken>>

\* The form's button waits for the loading flag; the dialog's can be pressed
\* again while a change is under way.
CreateRecord(p) == form.open /\ ~loading /\ Sends(p, form.code)
ConfirmTransition(p) ==
    dialog # Closed /\ ~form.open /\ dialog < MaxVersion /\ Sends(p, dialog)

\* The server's tests: a code is unique, a transition names the row's version.
\* (Faulty variants: an index that is not; an update by id alone.)
AnyCode(c) == TRUE
NewCode(c) == c \notin server.codes
AnyVersion(v) == TRUE
AtVersion(v) == v = server.version

Added(c) == server' = [server EXCEPT !.codes = @ \cup {c}]
Moved == server' = [server EXCEPT !.version = @ + 1]

ServePost(p) ==
    /\ post[p].at = "sent"
    /\ LET n == post[p].names
       IN  /\ \/ n \in Codes /\ NewCode(n) /\ Added(n)
              \/ n \notin Codes /\ AtVersion(n) /\ Moved
           /\ taken' = [taken EXCEPT ![n] = @ + 1]
    /\ post' = [post EXCEPT ![p].at = "ok", ![p].done = TRUE]
    /\ UNCHANGED <<items, error, loading, windows, load>>

\* Refused, or not arrived; or the answer is lost.
FailPost(p) == /\ post[p].at \in {"sent", "ok"}
               /\ post' = [post EXCEPT ![p].at = "failed"]
               /\ UNCHANGED <<server, items, error, loading, windows, load, taken>>

PostSucceeds(p, l) ==
    /\ post[p].at = "ok" /\ Free(l)
    /\ Begins(l, p)
    /\ post' = [post EXCEPT ![p].at = "loading"]
    /\ UNCHANGED <<server, items, windows, taken>>

\* The dialog stays as it is: there is an error.  (Faulty variant: the list is
\* loaded after a failure too.)
PostFailsAndLoads(p) ==
    /\ post[p].at = "failed"
    /\ \E l \in Loads : Free(l) /\ Begins(l, p)
    /\ post' = [post EXCEPT ![p].at = "loading"]
    /\ UNCHANGED <<server, items, windows, taken>>
PostFails(p) ==
    /\ post[p].at = "failed"
    /\ error' = TRUE /\ loading' = FALSE
    /\ post' = [post EXCEPT ![p] = IdlePost]
    /\ UNCHANGED <<server, items, windows, load, taken>>

DismissError == /\ error /\ error' = FALSE
                /\ UNCHANGED <<server, items, loading, windows, load, post, taken>>

\* Somebody else changes the row or adds a record.
OtherChange == /\ \/ server.version < MaxVersion /\ Moved
                  \/ \E c \in Codes : NewCode(c) /\ Added(c)
               /\ UNCHANGED <<items, error, loading, windows, load, post, taken>>

Ends(l) == LoadEnds(l) \/ LoadFails(l)

Next == \/ \E l \in Loads : \/ Load(l) \/ AnswerLoad(l) \/ LoseLoad(l) \/ Ends(l)
                            \/ \E p \in Posts : PostSucceeds(p, l)
        \/ \E p \in Posts : \/ CreateRecord(p) \/ ConfirmTransition(p)
                            \/ ServePost(p) \/ FailPost(p) \/ PostFails(p)
        \/ PressCreate \/ Prepared \/ PrepareFails \/ TypeCode
        \/ SelectTransition \/ Cancel \/ DismissError \/ OtherChange

Spec == Init /\ [][Next]_vars

\* The timer goes off again and again, of what it sends an answer comes again and
\* again, and while answers are there one is taken in.  A load may hang, nothing
\* is asked of the changes, nor of the user.
FairSpec ==
    /\ Spec
    /\ SF_vars(\E l \in Loads : Load(l))
    /\ SF_vars(\E l \in Loads : AnswerLoad(l))
    /\ WF_vars(\E l \in Loads : Ends(l))
-----------------------------------------------------------------------------
\* factory.ts 9-11: the spinner is on only while something is under way, in
\* whichever order what overlaps comes to an end.
NoStuckSpinner ==
    loading => \/ \E l \in Loads : ~Free(l)
               \/ \E p \in Posts : post[p] # IdlePost

\* EntityPage.vue 98-99, 122-123: a change whose end closes the form or the
\* dialog was carried out, whatever polls, other changes and the preparation of
\* a form have done to the error text meanwhile.
Closes == \/ form.open /\ ~form'.open
          \/ dialog # Closed /\ dialog' = Closed
ClosedWhenDone ==
    [][\A p \in Posts :
           post[p] # IdlePost /\ post'[p] = IdlePost /\ Closes => post[p].done]_vars

\* EntityPage.vue 98, 122: pressed twice, or again after an answer was lost, a
\* change is carried out once: a version is left once, a code added once.
CarriedOutOnce == \A n \in DOMAIN taken : taken[n] <= 1

\* usePolling.ts 14: an older list may replace a newer one, but when the records
\* no longer change the page comes to show them, and goes on to.
EventuallyShown == <>[](items = server)
=============================================================================
