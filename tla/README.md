# The hydropower gate dispatch permit in TLA+

This directory verifies the dispatch control system of the repository: the register of reservoirs
and gates, the dispatch permit (a *directive*) that two people sign before a gate is moved, the
*execution confirmation* (the receipt) that ends an execution, and what surrounds them: the
database transactions, the start and restart of the service, login and authentication, the rate
limiter, the audit log, and the state the browser keeps. The modules are translated from the Go
sources under `src/backend/` and the TypeScript under `src/frontend/src/`; TLC checks them on
small instances and TLAPS proves the central theorems for every instance. Paths below are
relative to `src/backend/internal/` unless they start with `src/`.

## 1. The system

### Components

| Component | State | Operations | Correct when |
|---|---|---|---|
| Status graphs (`constants/status.go`) | none | `CanTransition` | every writer keeps to what README 44 to 48 describe |
| Repository store (`repository/`, `model/`) | four tables, the approval rows, the audit log; unique indexes on `code`, on a receipt's `related_code`, on `(directive, stage)`; soft deletion; a `version` per row | `Get`, `GetByCode`, `Create`, `Update` on a version, `TransitionWithAudit`, `TransitionWithApproval`, `Delete`, counts | no committed change is overwritten by a stale copy; a change, its evidence and its approval are one commit; transactions do not wait in a circle |
| Reservoir service (`service/reservoir.go`) | table of reservoirs | create, update, transition, delete | a reservoir keeps to its graph under concurrent edits |
| Gate service (`service/gate_unit.go`) | table of gates, reads reservoirs | create, update, transition, delete | a gate keeps to its graph whoever moves it |
| Directive service (`service/operation_directive.go`) | directives, approval rows; reads and moves gates | create, update (drafts), transition, delete (drafts) | approval is never skipped, two people sign, what they signed is what is executed |
| Confirmation service (`service/execution_confirmation.go`) | receipts; reads and writes directives and gates | create, update, transition, delete | one receipt per directive; receipt and directive agree on the outcome |
| Handlers, router, request types (`handler/`, `router/`, `dto/`) | none | one handler per operation; roles per route | only the roles named there reach an operation |
| Start, seed and stop (`database/database.go`, `src/backend/cmd/server/main.go`) | first rows of five tables, approval rows of the seeded directives | `Open`, `migrate`, `Seed`, Redis, `run` | starts cut short and repeated leave a consistent register, and the service comes back |
| Login and authentication (`middleware/auth.go`, `service/security.go`) | accounts; tokens outside | `Login`, `Authenticate`, `RequireRoles` | nobody acts with a role his account no longer has, nor on a deactivated account |
| Rate limiter (`middleware/ratelimit.go`) | Redis counters, buckets of the process under a mutex | `increment`, `incrementLocal`, `cleanupLocal` | per backend no window admits more than its limit, a call is refused only when the limit is used up where it is counted, the map does not keep past windows |
| Audit trail (`service/security.go`, `repository/security.go`) | append-only log | `Audit`, the log by pages, the history of an entity | every change of a status is in it with the status it really changed; readers see an unbroken chain and miss nothing |
| Frontend session (`src/frontend/src/hooks/useAuth.ts`, `api/client.ts`, `router/index.ts`) | the session in the local storage and one copy per tab | bootstrap, login, logout, requests, 401 | a session that was left stays left; a refused token goes |
| Frontend record pages (`stores/factory.ts`, `hooks/usePolling.ts`, `components/EntityPage.vue`) | list, loading flag, error text, form and dialog of a page | load, poll, prepare a form, create, transition | the page comes to show the records; a change is carried out once |
| Request context, configuration, the reading part of the system handler, presentation, deployment | none that outlives a request | | |

### Interaction and what makes it hard

All services share one database; there is no lock in the process. A handler **reads** the rows it
needs, each with a query of its own and outside any transaction, **checks** those copies, and then
**commits** every write in one transaction. Between any two of these steps other requests run. The
only protection is the `version` column: `UPDATE ... WHERE id = ? AND version = ?`
(`repository/base.go` 88-99) and, where a row must not exist twice, a unique index. Three points
make this harder than it looks:

* the update writes back *every* column of the copy, so a stale copy that passes the version test
  would bring back an old status;
* the version tested for the request's own row is the client's `expectedVersion`; it is never
  compared with the version of the copy the checks were made on (`service/operation_directive.go`
  126, 181). Rows that a request changes on the side (a directive's gate, a receipt's directive and
  gate) are tested on the version of the copy;
* rows a handler only *reads* (or whose copy says there is nothing to change) are not tested at all
  at commit time, and deletions test neither version nor status.

Around this core: the service is killed and started again over whatever tables it left; accounts
change while their requests run; Redis fails over to counters in the process and back; stamps of
the audit log are taken before the commits they belong to; and in the browser answers come late
and in any order over state that loads, polls, changes and tabs share.

Requests may end without effect at any point: a check fails, the version moved, an index refuses
the insert, the client goes away, the process stops; the transaction then rolls back. The hazards
that follow, each at its line, are listed in `PROJECT.json`.

## 2. The modules

| Module | Models | Proved in |
|---|---|---|
| `StatusGraphs` | `constants/status.go`: the statuses and the four graphs, each the set of its edges | |
| `Store` | tables, approval rows, audit log and requests as variables; the rows; version test, soft deletion, audit entry; who may call; `Fail` | |
| `ReservoirService`, `GateUnitService`, `OperationDirectiveService`, `ExecutionConfirmationService` | one action per read and one per commit of each service operation | |
| `Dispatch` | composes the four services over the store; `Init` is what `database.Seed` inserts (any part of it); states the properties | `DispatchProofs`, on `DispatchInvariant` |
| `Permit`, `DispatchPermit` | the abstract permit and receipt, and the mapping under which `Dispatch` implements it | `DispatchProofs` |
| `Transaction`, `AtomicStore` | the commits taken apart into statements with row locks, savepoint, failure and crash; the atomic change they implement | `TransactionProofs` |
| `Startup` | the process from start to stop, its seeding, over rows that users change | `StartupProofs` |
| `RateLimiter` | one limiter of the router over Redis and the process | `RateLimiterProofs` |
| `Sessions` | login, tokens and the authentication of requests while accounts change | `SessionsProofs` |
| `AuditTrail` | when entries are stamped, committed and read | `AuditTrailProofs` |
| `BrowserSession` | the stored session, its copies in the tabs, and the calls in flight | `BrowserSessionProofs` |
| `EntityStore` | a page of records: loads, polls, changes and dialogs | `EntityStoreProofs` |
| `MC...` and the `.cfg` files | the instances for TLC | |

### The register and the permit (`Store`, the services, `Dispatch`)

**State.** A table is a function from codes to rows or `NoRow`. A deleted row stays, marked
`deleted`, because the unique indexes still see it (`Live` is what a query finds). A row has the
columns that the code reads back: `status`, `version`, the related code (`gate`, `reservoir`,
`directive`), `facility`, the position asked for (`goal`, column `gate_state`) and the signatures.
Names, metrics, texts and times are left out: nothing is decided on them. `facility` and
account names are compared with `strings.EqualFold` in the code: facilities are taken as folded
already, account names keep their case and are compared through `Fold`. `audit` keeps the latest
entry of each entity; a step writes at most one entry per entity, so nothing a step writes is lost.

**Requests.** `req[w]` is the request a worker serves: the program counter, the actor, the target
status, `expected` (the client's version) and the copies it has read so far. `ReadXToDo` is a
query with the checks that follow it; the action named after the operation (`UpdateDirective`,
`SettleConfirmation`) is the whole transaction with its audit entries. A check that fails is a
step that is not enabled; the request then ends with `Fail`, which changes no row. An operation's
last query, which only builds the answer, is left out. Creation of a reservoir reads nothing and is
one step. Several `Workers` give the interleavings; any number of them is covered by the proofs.

**Who calls.** `Principals` are accounts with the role the authentication found; `Editors` and
`Admins` are those the routes admit. An account may appear with two roles (`FourHands`): its role
is read anew with every request. Only directive transitions look further at the account (role per
target, two-person rule), so only they record the actor.

**Order inside a step.** In the directive transition the two-person check (160-164) follows
the gate's read in the code; the two concern different targets, so the model makes the check with
the first read.

**The promise (`Permit`).** A permit is drafted, redrafted, submitted, approved by another person,
executed, and ended by its one receipt or an abort; there are no requests, copies or versions in
it. The mapping (`PermitOf`, `ReceiptOf`) drops a row's version and everything else. One behaviour
of the code shaped the abstraction: a receipt may still be reported for an execution that was just
aborted (the copy of the directive is checked, the row is not), and then waits for ever.

### The transaction (`Transaction`, `AtomicStore`)

`tx[w].todo` lists the rows one transaction writes, in the order of the code (`Settlement`,
`DirectiveMove`); each is an UPDATE or a soft DELETE (`Write`, `Miss` when no row was affected),
followed, in `TransitionWithApproval`, by the approval row (`Approve`) and by the audit entry
(`Entry`). `holder` are the row locks. That transition opens a transaction inside the service's
own (`repository/operation_directive.go` 66): a savepoint, rolled back by `RollbackTo` before the
error reaches the outer one. `StatementFails` may hit any statement, `Crash` kills the process
between any two. Committed values are what others see. `AtomicStore` has two actions, `Change` of
a set of rows and `Remove` of one: what `Store` and the services use as one step.

### Start to stop (`Startup`)

`phase` is the step of the process, or the table it seeds; `Tables` in the order of `Seed`. A
table is counted by its *live* rows (`Counted`), while its insertion meets the unique index that
sees deleted rows (`SeedRefused`). The approval rows are a second insertion of the same start.
`ConnectLate` is the second ping (`database/database.go` 42) that answers where the first did not.
While the service runs, users settle and delete seed rows and add and delete rows of their own;
`Fault` kills the process anywhere, and `Stop`, `Stopped` end it in order: it is then "stopped" and
stays so until somebody starts it, where a process that is "down" is restarted.

### Login and authentication (`Sessions`)

`ReadAccount` and `SignToken` are the two ends of `Login`, with the slow comparison of the password
between them. `Arrive`, `Resolve`, `Authorize`, `Answer` are the parsing of the token, the look-up
of the account by its name, the roles of the route and the end of the handler. There is no
operation on accounts in the code; `AccountChange` is what the database's owner does: deactivate,
give another role (known or not), delete and make anew under the same name (`id`).
`seen` remembers what the account has been since the request arrived.

### The limiter (`RateLimiter`)

Time passes in ticks; a window is known by its age, since a call waits for Redis no longer than
`Patience`. `RedisAnswers` is INCR with EXPIRE. The client repeats a failed command by itself
(`RedisRepeats`) and gives up in the end (`RedisFails`); whether a failed command was carried out is
left open. `IncrementLocal` follows, which holds the mutex for its whole length: `Cleaned` (from
`Threshold` buckets on) and then `Bumped`. A bucket's window is the running one, the last or an older
one. `granted` and `granted0` count what was let through on either backend, `unheard` what Redis
counted without an answer to the call.

### The audit log (`AuditTrail`)

A transition of a reservoir, gate or directive builds its entry before its transaction, all others
inside; `Stamp` and `Commit` are therefore separate. A row's state is its version. `ReadPage` is one
query of the log by offset.

### The browser (`BrowserSession`, `EntityStore`)

`stored` is the local storage that all tabs share and every request takes its token from;
`tab[b].session` what a tab shows. `Welcome` stores a session (after a login, and again when the
bootstrap is answered), `Denied` clears it on any 401. `Reload` loads a page anew: its requests are
given up. `EntityStore` is one page: `items`, `loading`, `error` are the store of
`stores/factory.ts`; `form` and `dialog` are the form for a new record and the transition dialog of
`EntityPage.vue`. `PressCreate` gives the form a new code and asks for the records it may hang on;
the form opens when that is answered (`Prepared`), whatever has happened meanwhile, or the shared
error text is set (`PrepareFails`). A change (`CreateRecord` or `ConfirmTransition`, `ServePost`,
`PostSucceeds`) is followed by a load of its own; `Returns` is what the page does when that load
ends: it closes the form or the dialog as it is *then*, unless the shared error text is set. Of the
server both modules have what decides its answer: whether a token is good (`middleware/auth.go`
38-65), whether a code is new and a version the row's (`model/base.go` 13, `repository/base.go` 91).

**Operators ending in a fault.** Operators commented *Faulty variant* are not part of the system.
Each is a plausible mistake in the definition below it (a dropped version test, a forgotten
increment, a missing index, a wrong expiry); `PROJECT.json` (`mutants`) pairs each property with one
that breaks it.

## 3. Properties

| Property (module) | Kind | Says |
|---|---|---|
| `NoLostUpdate` (Dispatch) | invariant | when a pending update's version test would pass, the copy it writes back *is* the row |
| `TwoPersonApproval` (Dispatch) | invariant | approved, executing and completed directives carry signatures of two accounts that differ beyond letter case, and the approval rows say the same |
| `ReceiptAgreement` (Dispatch) | invariant | completed exactly when the receipt is confirmed; failed or cancelled receipt means aborted; a waiting receipt belongs to a directive that was started; deleted rows included |
| `DirectiveFollowsGraph`, `GateFollowsGraph`, `ReservoirFollowsGraph` (Dispatch) | action | across whole commits of all services, a status changes along its graph only |
| `ApprovedContentFrozen` (Dispatch) | action | once a directive is no draft, its gate, goal, facility and submitter stay; once approved, its approver too |
| `EvidenceMatchesStep` (Dispatch) | action | every step that changes a status commits an audit entry with the status the row really had and the new one |
| `GateFollowsDirective` (Dispatch) | action | when a directive enters execution, is completed, or is aborted in execution, its gate is moving or at the goal, at the goal, or locked, in the same step; only a gate that stood there when it was read may be elsewhere, and then its version has moved on since |
| `ImplementsPermit` (DispatchPermit) | refinement | each commit of any service is one step of the abstract permit or receipt, decided on what is true at that moment |
| `ImplementsAtomicStore` (Transaction) | refinement | rows, entries and approvals change all at once or not at all, though statements fail, the savepoint is rolled back and the process dies in between |
| `NoWaitCycle` (Transaction) | invariant | no set of transactions wait for each other's rows |
| `SomeoneProceeds` (Transaction) | invariant | while transactions are open, one of them is not held up by a lock |
| `EveryTransactionEnds` (Transaction) | liveness | a transaction that was begun ends |
| `SeededInOrder` (Startup) | invariant | a table is seeded whole, and after those it builds on |
| `UnsignedOnlyAfterFault` (Startup) | invariant | the seeded directives have their approval rows when the service runs, unless a start was cut short (which excuses the crash, see the findings) |
| `NeverReseeded` (Startup) | action | no start brings a deleted row back or undoes a status |
| `StartEnds`, `ServesUnlessEmptied` (Startup) | liveness | a start ends, serving or not; the service comes back once database and Redis do, unless it was ordered to stop or users have emptied a table |
| `AdmittedWithinLimit` (RateLimiter) | invariant | per backend and window no key is let through more than `Limit` times |
| `LocalBounded` (RateLimiter) | invariant, proved only | beyond the threshold the map holds keys of one window only: it does not grow with the windows, though it may with the keys of one |
| `RefusedAtLimit` (RateLimiter) | action | the process refuses a call only when the limit was let through on its bucket in this window; Redis only when what was let through there and what it counted unheard make up the limit. So Redis may refuse early, after commands whose answer was lost |
| `CurrentRoleOnly` (Sessions) | invariant | a handler runs with a role, allowed on its route, that the very account of its token has had, active, since the request arrived |
| `HistoryIsChain` (AuditTrail) | invariant | sorted by stamps, each entry starts from the state the one below ended in |
| `PagesMissNothing` (AuditTrail) | invariant | who pages to the end has seen every entry that was there when he began |
| `LeftForGood` (BrowserSession) | action | with one tab, no late answer brings a left session back |
| `SpoiltIsForgotten` (BrowserSession) | liveness | a revoked or expired token leaves the storage |
| `NoStuckSpinner`, `CarriedOutOnce` (EntityStore) | invariant | the spinner is on only while something is under way; a version is left once and a code added once, however often a change is sent |
| `ClosedWhenDone` (EntityStore) | action | a change whose end closes the form or the dialog was carried out; not that the window was about this change |
| `EventuallyShown` (EntityStore) | liveness | when records no longer change the page comes to show them, and goes on to |
| `TypeOK` | invariant | one per module that is proved about |
| `DeleteOnlyDrafts`, `SettlesAtGoal` (Dispatch) | documented, not kept | see the findings |

`EvidenceMatchesStep` is more than "an entry is written": the entry is built from the copy, so
it fails as soon as a commit can pass on a stale one. `GateFollowsDirective` is what remains true of
`SettlesAtGoal` (finding 2) and of README 47 at the start: it says how far the shortcut goes, and
that nothing else keeps a gate from its place, for instance an update of the gate that fails while the rest is committed.

## 4. Runs

| Run | Instance | Checks |
|---|---|---|
| `life` (MCDispatch) | one directive's whole life, two receipts; operator `alice`, reviewer `bob`, an operator `bob`, an admin `BOB`; `MaxVersion` 6, `Lag` 1 (0.4 million states) | `TypeOK`, `NoLostUpdate`, `TwoPersonApproval`, `ApprovedContentFrozen`, `ImplementsPermit`, `ReceiptAgreement`, `GateFollowsDirective` |
| `execution` (MCDispatch) | two directives in execution on one gate, two receipts; operators move and edit the gate meanwhile; `MaxVersion` 3 (0.7 million) | `ReceiptAgreement`, `GateFollowsGraph`, `EvidenceMatchesStep`, `DirectiveFollowsGraph`, `GateFollowsDirective` |
| `register` (MCDispatch) | reservoirs and gates over two facilities, from the empty or seeded register; `MaxVersion` 3 (1.0 million) | `NoLostUpdate`, `ReservoirFollowsGraph`, `EvidenceMatchesStep` |
| `transaction` | receipt, directive, gate; two transactions; `MaxVersion` 2; fairness | `NoWaitCycle`, `SomeoneProceeds`, `ImplementsAtomicStore`, `EveryTransactionEnds` |
| `startup` | five tables with one or two seed rows each; 3 attempts, 2 faults; fairness (0.19 million) | `TypeOK`, `SeededInOrder`, `UnsignedOnlyAfterFault`, `NeverReseeded`, `StartEnds`, `ServesUnlessEmptied` |
| `limiter` | one key, three calls; limit 2, threshold 1, windows of 2 ticks (0.45 million) | `TypeOK`, `AdmittedWithinLimit`, `RefusedAtLimit` |
| `sessions` | one account that changes at will and is made anew once, one login, one request at a time (0.75 million) | `TypeOK`, `CurrentRoleOnly` |
| `browser` | one or two tabs, two tokens, two calls, one reload; fairness (0.3 million) | `LeftForGood`, `SpoiltIsForgotten` |
| `page` | two loads, two changes, one form being prepared, a row and a code that others change and add too; fairness (1.1 million) | `NoStuckSpinner`, `CarriedOutOnce`, `ClosedWhenDone`, `EventuallyShown` |
| `audit` | one entity, two writers, one reader; pages of 1, 4 stamps (3.4 million) | `HistoryIsChain`, `PagesMissNothing` |
| `delete_race`, `confirm_unsettled` (MCDispatch) | the smallest instance of each finding | `DeleteOnlyDrafts`, `SettlesAtGoal`: violated |

`life` starts from a draft and has an administrator, so it is where permits are approved and receipts
deleted; `execution` starts with directives under way and has no administrator: it is about who
moves the gate. What the one leaves out of the other's properties (deleted receipts of two
directives, approvals beside a second directive) is in the proofs.

**Bounds.**

* `Workers`, `Writers`, the calls of `browser`: two; the calls of `limiter`: three. Every hazard
  listed is a conflict of two: one that reads early and commits late, and one that commits in
  between; the second may do any number of things meanwhile. Workers that no variable tells apart
  are symmetric, and so are the receipts of `life` and `execution` (`ReceiptSymmetry`).
* `MaxVersion` (Store): no row is written beyond this version; a request for more is refused, as a
  version conflict would. A directive's longest run (submit, approve, execute, finish) takes a fresh
  draft from version 1 to 5, so 6 in `life` covers the whole life with an edit; runs that start in
  execution need 2 for the outcome and have one write to spare.
* `Lag`: how far a client's `expectedVersion` may be behind. Such a request can only fail at its
  commit (a smaller version never matches again): `life` shows it, elsewhere 0. The proofs assume
  nothing about `Lag`. `Lead` is 0: clients send versions they have read, as the frontend does
  (`src/frontend/src/stores/factory.ts` 11, `EntityStore`).
* `Goals`: open and closed. `locked`, the third position a directive may ask for, and operators who
  move the gate while a directive is started, are allowed by the modules and covered by the proofs.
  `execution` has operators, aborts and receipts on the gate at the same time.
* `Attempts`: 3 where the code has 20 (`database/database.go` 38); the loop has no other memory than
  its counter, and 3 has a first, a middle and a last. `MaxFaults` 2: one fault leaves a table
  half-way, a second hits the start that repairs it. Refused starts and silent databases are not
  counted.
* `Limit` 2, `Threshold` 1 where the code has the configured limit and 512: the third call is one too
  many, and every call but the first finds a map to clean up. One key: the counts of several do not
  meet, except in the clean-up, whose bound (`LocalBounded`) is left to the proof, as is a limiter
  without Redis. `WindowTicks` 2, `ExpiryTicks` 4, `Patience` 2 keep the code's ratio of one to two
  minutes, with the longest patience that a client may have for a call still to belong to its window
  or the next. Counts beyond the limit are alike, and unheard ones from the limit on.
* `MaxId` 2: the account is made anew under its name once; a third would only repeat it.
* `MaxReloads` 1 in `browser`. In `page`, `MaxVersion` 2 and one code: one transition and one new
  record, by the page itself or by others, after which nothing changes: the antecedent of
  `EventuallyShown`. A form always gets that one code, so a record that was added is sent again
  whenever the form is opened anew; a fresh code would make it another record. `MaxPreparing` 1: a
  second form that is prepared opens the same window again. The proofs have any number. `MaxStamp` 4 in
  `audit`: enough for two overlapping writers each to have written twice, and a page boundary at
  every entry.
* The bounds on versions and stamps let a run end with nothing left to do: only there deadlock is
  not checked.

**Fairness.**

* `Transaction`: `SF(Proceed(w))`. A database does not pass over a waiting statement for ever: its
  lock queue is in order, and what waits too long fails, which is an end of the transaction too. A
  statement is only *repeatedly* enabled while others take the row in turn, so weak fairness would
  not do. Nothing is assumed of new transactions, failures or crashes.
* `Startup`: weak fairness of the steps of a start, of `Restart` (`restart: unless-stopped`,
  `src/docker-compose.yml` 43: what ended by itself is started again, what was ordered to stop is
  not) and of the end of an ordered stop, which has a time limit. That the
  database and Redis answer is not assumed: it is the antecedent `Healthy` of
  `ServesUnlessEmptied`; `StartEnds` holds without it.
* `BrowserSession`: tabs are visible, navigated in and polled (`usePolling.ts`, which asks nothing
  in a hidden tab, line 8), so a tab goes on asking and booting; a call is answered or lost, an
  answer is delivered; and, when calls are sent again and again, not every one is lost on its way.
* `EntityStore`: the page stays open and visible, so the timer loads again and again
  (`usePolling.ts` 8, 14); again and again a load is answered, and while answers wait one is taken
  in. A single load may hang for ever. Nothing is assumed of the changes, nor of the user, who may
  leave any window open.
* The other specifications state no fairness: what is checked of them is safety.

### Findings

Two runs find what the code does not keep of what the repository's README says. They need no
failure, only two requests.

1. `delete_race`: an admin's deletion reads a draft; it is submitted; the deletion removes the
   submitted (or approved) directive, since `Delete` has no condition besides the id.
2. `confirm_unsettled`: the gate already shows the position asked for when a settlement reads it, so
   the transaction leaves the gate alone and does not test its version; it was moved in between, and
   the directive completes with the gate in another position.

Met while modelling, with the same or no run of their own:

* The shortcut of finding 2 exists at the start of an execution too
  (`service/operation_directive.go` 189): the gate may have been locked since it was read, though
  README 47 keeps locked objects out. And starting a directive does not compare facilities, though
  reservoir and gate may have changed theirs since it was approved, and README 47 keeps objects of
  another region out as well.
* The race of finding 1 exists for receipts too (`service/execution_confirmation.go` 206 to 210): a
  receipt that was read as pending is deleted after it has settled its directive. The row stays,
  marked, and `ReceiptAgreement` holds of it; no document says which receipts may be deleted.
* README 26 says that the old token of a deactivated *or downgraded* account becomes invalid at the
  next request. Of a deactivated account this is so. The token of a downgraded account is accepted as
  before (`middleware/auth.go` 61 to 67): its requests run with the account's present, lesser role,
  which is what `CurrentRoleOnly` says and all it says.
* A gate in use can be deleted; the execution can then be neither aborted nor settled (README 44
  says any active stage can be aborted), as both look the gate up.
* With a version the client has not read (`Lead = 1`), a stale copy passes the version test once
  another commit has made the guess true, and `DirectiveFollowsGraph` fails: an approval read as
  pending is written over a directive aborted meanwhile.
* When the only live row of a table is deleted and it was a seed row, the next start inserts its
  code again, the index refuses it, and the process ends, at every start: the exception `Emptied`
  of `ServesUnlessEmptied`.
* A start killed between the seeded directives and their approval rows leaves them without, for
  good: the exception in `UnsignedOnlyAfterFault`, which therefore only says that nothing else loses
  them. README 45 speaks of a complete trail.
* A failover of Redis starts a count of its own, so that a key may be let through up to twice the
  limit within a window: README 138 gives one limit, `AdmittedWithinLimit` holds per backend. The
  other way round, commands that Redis carried out unheard use up the limit of later calls.
* Two tabs: a late 401 about an old token clears the session another tab has just opened, and a
  bootstrap answered late stores a session that another tab has signed out of. No document says
  what tabs owe each other; `LeftForGood` is about one tab.
* When a change ends, the dialog that is open by then is closed, also one on another record.
* With equal stamps, or a clock set back, both audit properties fail: the queries have no second
  key. The model assumes distinct, rising stamps.

## 5. Proofs

Everything below is proved for every value of the constants that the named assumptions allow: any
number of codes, accounts, workers, keys, calls, tables and every bound. The assumptions are those
of the modules (`StoreAssumption`, `ServicesAssumption`, `RecordAssumption`,
`TransactionAssumption`, `StartupAssumption`, `LimiterAssumption`, `SessionsAssumption`,
`AuditAssumption`, `BrowserAssumption`, `PageAssumption`). They say what kind of thing a constant
is, that sentinels are no rows, and, of the limiter, that no call waits longer than a window and
that a counter outlives a window by what a call may wait. Where a theorem says so there is also
`Lead = 0` (clients send versions they have read; without it the theorems are false) or
`IsFiniteSet(Keys)`.

| Module | Theorem | Property |
|---|---|---|
| `DispatchProofs` | `CoreInvariance` | `Spec => []CoreInv` |
| | `RowsMoveOn` | `Spec => [][RowSteps]_vars`: what a step may do to a row |
| | `TypeCorrectness` | `TypeOK` |
| | `NothingLost` | `NoLostUpdate` |
| | `DirectivesFollowGraph`, `GatesFollowGraph`, `ReservoirsFollowGraph` | the three graph properties |
| | `SignedContentFrozen` | `ApprovedContentFrozen` |
| | `TwoPeopleSign` | `TwoPersonApproval` |
| | `EvidenceTold` | `EvidenceMatchesStep` |
| | `GateWithDirective` | `GateFollowsDirective` |
| | `ReceiptsAgree` | `ReceiptAgreement` |
| | `Refinement` | `ImplementsPermit` |
| `TransactionProofs` | `NoCircle` | `NoWaitCycle` |
| | `SomeoneAlwaysProceeds` | `SomeoneProceeds` |
| | `Atomicity` | `ImplementsAtomicStore` |
| `StartupProofs` | `TypeCorrectness`, `SeedingOrdered`, `SignedUnlessFault`, `SeededOnce` | `TypeOK`, `SeededInOrder`, `UnsignedOnlyAfterFault`, `NeverReseeded` |
| `RateLimiterProofs` | `TypeCorrectness`, `WithinLimit`, `RefusedOnlyAtLimit`, `IdleMapBounded` | `TypeOK`, `AdmittedWithinLimit`, `RefusedAtLimit`, `LocalBounded` |
| `SessionsProofs` | `TypeCorrectness`, `ActsWithCurrentRole` | `TypeOK`, `CurrentRoleOnly` |
| `AuditTrailProofs` | `AuditInvariance`, `HistoryUnbroken` | `Spec => []AuditInv`, `HistoryIsChain` |
| | `NothingMissed` | `PagesMissNothing` |
| `EntityStoreProofs` | `SpinnerEnds`, `NeverTwice`, `ClosedOnlyDone` | `NoStuckSpinner`, `CarriedOutOnce`, `ClosedWhenDone` |
| `BrowserSessionProofs` | `NeverBroughtBack` | `LeftForGood` |

### Dispatch

None of its properties is inductive: whether a commit is safe depends on what its handler read
steps ago. `CoreInv` (`DispatchInvariant`) says so:

* `Copied`: a copy is *faithful* to its row: the row's version has not fallen below the copy's,
  and while they are equal the row is the copy, or the copy with its deletion mark;
* `Held`: a request has the copies its next step uses, and its `expected` is not beyond the
  version of the copy it will write (this is where `Lead = 0` enters);
* `Checked`: what the handler checked of its copies (draft, legal edge, two people, a legal gate
  move) is true of the copies.

From `expected <= copy.version <= row.version = expected` at the commit, copy and row coincide
(`CopyIsRow`), so the checks made on the copy hold of the row. `NextCarries` proves that a step
keeps `CoreInv` and, in the same go, that every row takes a `RowStep`: it stays, is inserted, gets
a later version and a status its graph allows, or its deletion mark. `RowStep` is what keeps the
copies of all *other* requests faithful (`CopiedKept`), and it implies the action properties.
`SignedInv` adds the agreement of directive and approval rows for `TwoPersonApproval`. The proof
goes service by service: reads (`...Reads`), which only extend a request, and commits, each split
into what the version tests give (`...OnCopy`) and what is written (`...Write`).

`EvidenceTold` uses the same fact once more: the entry is built from the copy, and the copy is the
row. `GateWithDirective` needs less and more: the gate's copy may be old, but it is faithful. A
commit that writes the gate puts it where the outcome wants it; one that leaves it alone has a copy
that shows it there, so either the row is that copy, or its version has moved on. `ReceiptInv` adds
to the core that a directive somebody has read as executing is executing or ended (`ExecutionKept`:
what makes a settlement on an old copy safe) and that no directive has two receipts, live or deleted
(`OneReceipt`, from the unique index). `Refinement` maps each commit to the abstract step of its
name, each read and failure to a stutter.

### Transaction

`Inv` says that a transaction's written rows are locked by it, live and, unless it deletes, still
at the version of its copy, and that what it has written, logged and signed is exactly what the
statements before the current one leave (`Sound`), also inside the savepoint. At the commit the
whole list is written, so the step is a `Change` of a listed set or a `Remove`. `NoWaitCycle`
follows from a rank: a row that a transaction holds while it waits has a lower rank (receipt,
directive, gate, in the order of `todo`) than the one it waits for. So along a chain of waits the
ranks rise; there are three, and a circle would need a fourth. `SomeoneProceeds` is the safety that
liveness rests on: a row is locked by an open transaction only, so if all open transactions were
held up, each would have a holder to wait for, and a chain of them would again need a fourth rank.

### Startup, RateLimiter, Sessions

* `StartInv`: a start that has come to a table has passed those before it, each of which has all
  its rows (`PassedInv`), and directives without approval rows are about to be signed or a start was
  cut short (`UnsignedInv`). The order of tables is used through `Numbered` and `OneFurther` only.
* `LimitInv`: a call that still carries the name of the past window has used up as much patience as
  has passed of this one (`WaitInv`), so a counter on which something was let through lives until
  the last such call has arrived and has counted all that was let through (`CounterInv`, which
  needs `WindowTicks + Patience <= ExpiryTicks`), and nothing else than what was let through or
  counted unheard (`UnheardInv`); a bucket of the running window counts what was let
  through on it (`BucketInv`). `IdleMapBounded` counts: a clean-up leaves the keys of the running
  window, and a map below the threshold grows by one key at a time.
* `SeenInv`: what the account is now has been seen by every request in flight, and so has the role
  a request goes on with.

### AuditTrail

`AuditInv`: a request asks for a version no later than its copy, and what it stamped is later than
all the changes up to its copy (`Prepared`); one transaction has written a row (`OneHolds`); the
changes of an entity are one for each version after the first, stamped in their order (`IsChain`),
and its deletion comes last (`Last`). At a commit the version test makes the copy the row, so the
new stamp is later than every entry. `PageInv` adds that stamps are distinct and that what a reader
has not seen of what is due is on the next page or behind it (`InSight`): entries are only added,
which moves others back (`RankGrows`). A page with entries behind it is full (`FullPage`), because
distinct stamps leave no rank out (`NoRankMissing`); so the page at which the reader stops is the
last.

### EntityStore, BrowserSession

* `StoreInv`: a form that is open or being prepared has a code, and a dialog a version
  (`WindowsInv`); a change the server has taken is there, or the row has gone past the version it named
  (`Counted`): the version test is what keeps a change that is sent again from being carried out
  again. A load that a change waits for is its only one, and the change was taken (`Awaited`), so a
  dialog is closed by the end of a change that was carried out. `NoStuckSpinner` is inductive with
  these: loads and changes set the flag, whichever load ends clears it, and so does a change that fails.
* `SessionInv`: with one tab open, a bootstrap in flight is the only request, and is about the token
  that is stored; all other requests were sent after it (`Told`, `Alone`). So the answer to a
  bootstrap stores nothing that had been left, and of the other answers only that to a login stores
  anything. With two tabs `Alone` does not hold, and the property is false.

### Only model-checked

`LocalBounded` is proved and not model-checked: an instance with enough keys to overflow the map is
too large with Redis in it.

Liveness (`EveryTransactionEnds`, `StartEnds`, `ServesUnlessEmptied`, `SpoiltIsForgotten`,
`EventuallyShown`): fairness and `ENABLED` are outside what the prover does. What can be proved of
the first is its safety, `NoWaitCycle` and `SomeoneProceeds`. The findings, by nature. Induction
over data is outside the prover too; no module uses a `RECURSIVE` operator.

## 6. Not modelled

* Isolation beyond row locks: each statement of `Transaction` finds its row as last committed, which
  is what the supported databases give an UPDATE in the isolation the code leaves at its default.
  Insertions are one step of `Store` under the unique indexes; `Transaction` is about existing rows.
* The order in which the database grants locks; sizes and exhaustion of the connection pool.
* Configuration (`config/config.go`): parsed once, by one thread, into the constants of the modules.
* Request ids, logging, panic recovery (`middleware/request.go`), health, overview and the other
  queries that only read (`handler/system.go`), binding rules on texts, response envelopes.
* Frontend presentation, the choices offered in forms, and the audit page, which polls (every thirty
  seconds, `src/frontend/src/pages/AuditPage.vue` 31) as the record pages do and sends no change.
* Deployment and validation scripts, besides the restart policy.
* `Permit`, `AtomicStore` and the refinement mappings are no code of the repository: they state what
  it promises and are not mapped to lines.

## 7. State of the plan

1. (done) `StatusGraphs`, `Store`, the four services, `Dispatch`; `DispatchInvariant`, `DispatchProofs`.
2. (done) `Permit` and the refinement, checked and proved; `ReceiptAgreement`, `EvidenceMatchesStep`
   proved.
3. (done) `Transaction` and `AtomicStore`, checked, with liveness, and proved.
4. (done) `Startup`, checked, with liveness, and its safety proved.
5. (done) `RateLimiter`, checked and proved.
6. (done) `Sessions`, `AuditTrail`, `BrowserSession` and `EntityStore`, checked, the last two with
   liveness, and their safety proved.
7. (open) Insertions as statements of `Transaction`, with the unique indexes as locks.
8. (open) A common instance of `Sessions` and `Dispatch`, where a role is lost between two requests
   of one permit: today `Principals` lets an account act in either role at any time, which allows
   more.
