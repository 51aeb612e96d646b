# Menata runtime: a verification development

TLA+ models of the parts of `src/app` (the live Go runtime) whose correctness
depends on what happens between statements: requests that overlap in Postgres,
rollups and cascades, the record store, identities and permissions, the live
model, the transactional outbox, webhooks and the scheduler. TLC checks small
instances, TLAPS proves the main safety properties for every instance.

`src/prototype` is the historical predecessor of `src/app`; documentation,
benchmarks and the conformance shell tests are read as statements about the
program, not modelled.

## 1. Inventory

| Component | State | Operations | Hard part |
|---|---|---|---|
| Request transaction (`cmd/server/main.go`, `workspaceTx`) | one Postgres transaction per HTTP request | begin, run the handler, commit below status 500, roll back otherwise | READ COMMITTED and no row is locked while it is only read; a 400 commits; the reply precedes the commit |
| Approval workflow (`handler/events.go`, `executor/executor.go`, Case 3 seeds) | document row, step rows, `record_events` | trigger an event on a step or on the document; guards; `Persist`; `aggregate_status`; `composite_signature`; cascade into the parent | stale rows written back whole; rollups that miss each other; row locks in two orders |
| Record store (`store/record_store.go`, `handler/record_crud.go`, `validation.go`, `crossrecord.go`) | `records`, `field_sequences`, sort orders | create, update, archive, restore, move, lanes, auto-number, uniqueness, references | check-then-write; whole-row update against partial updates |
| Requirement counters (`handler/requirement.go`) | a numeric field of the parent | `IncrementField` on creation of a child | counter against a stale whole-row update |
| Transactional outbox (`store/outbox_store.go`, `runOutboxDispatcher`) | `action_outbox`, notifications, subscriber records | enqueue in the request; claim, dispatch in a savepoint, mark, commit | crash between two steps, an aborted transaction the loop keeps using, several dispatchers |
| Webhooks (`Handler.Webhook`) | `webhook_claims` | claim an idempotency key, trigger an event | at-least-once deliveries, a refusal that commits the claim |
| Scheduler (`handler/scheduler.go`) | `record_events` (FiredToday) | sweep every minute, fire once per record and day | stale list, two clocks, one failing statement in a sweep |
| Identity (`handler/auth.go`, `admin.go`, user, membership, session and group stores) | users, memberships, roles, sessions | sign-up, login, choose workspace, logout, change workspace roles | steps in separate transactions, changes while sessions live |
| Invitations (`handler/invitations.go`) | `workspace_invitations` | invite, resend, revoke, accept | unconditional status updates in any order |
| Interpreter (`interpreter/`, `metadata/`) | one atomic pointer to the loaded model; the connection pool | found a workspace, import, load, swap, get | an older load swapped in last; requests that need a second connection while they keep their own |
| Process compiler (`metadata/compile.go`) | none | translate declared processes into events | the order of its passes: chains before breach events, stamps by target state |
| Permission guard (`permission/guard.go`, roles in `sessionAuth`) | direct roles, groups and their members and roles | may this person fire this event | two functions decide it, for the page and for the request; roles, record and members are separate reads |
| Constraint engine, expressions | none | pure functions | none for a model checker |
| Rate limiter | a token bucket per address | allow, sweep | library code behind one mutex |
| Pages, planner, uploads, CSV, JSON API, mail | none of their own | read and render, or call the above | none for a model checker |

What makes each correct: a status or decision is there because an event put it
there; a rollup fires when, and only when, the siblings justify it; sequential
approval keeps its order; a counter claims no evidence that was not created and a
number is given once; moves trade positions; an entry is posted within its rules;
an identity is never half provisioned, an invitation admits once and a session is
backed by a membership; a request is decided as the page announced; the live
model is never ahead of what is committed; a compiled process moves a record as
declared; a queued action happens exactly once or is recorded as failed; a
delivery or a schedule fires its event once; and whatever began ends.

## 2. Modules

| Module | Models | Composes |
|---|---|---|
| `Verdict` | what an approval document promises when people act one after another | |
| `Approval` | the same document under overlapping requests, statement by statement | `AsVerdict == INSTANCE Verdict` |
| `Delivery` | what the outbox promises | |
| `Outbox` | the outbox with its requests, dispatchers and faults | `AsDelivery == INSTANCE Delivery` |
| `EventSources` | webhooks with idempotency keys, scheduled sweeps, the clock | |
| `Records` | requests over parents and children: counters, numbers, requirements, immutable states, master data | |
| `Ordering` | manual order and board lanes | |
| `Ledger` | posting rules over an entry, its lines and its period | |
| `Identity` | identities, memberships, invitations, sessions | |
| `Access` | roles, groups, gates and the permission check | |
| `Serving` | founding, importing, reloading, the live model and the pool | |
| `Process` | what a declared process promises | |
| `Compiler` | what it compiles to and how that runs | `Declared == INSTANCE Process` |
| `Store` | the record store: its parts side by side | `Records`, `O == INSTANCE Ordering`, `L == INSTANCE Ledger` |
| `People` | who people are and what they may do | `Identity`, `A == INSTANCE Access` |
| `MCApproval`, `MCOutbox`, `MCEventSources`, `MCCompiler`, `MCStore`, `MCIdentity` | instances for TLC | their module |
| `MCServing` | what has begun ends | `Serving`, `EventSources` |
| `ApprovalProofs`, `OutboxProofs`, `EventSourcesProofs`, `RecordsProofs`, `StoreProofs`, `IdentityProofs`, `ServingProofs`, `CompilerProofs` | theorems | their module, `TLAPS` |

The parts of `Store` and of `People`, and the two of `MCServing`, share no row: a
step of the whole is a step of one part and leaves the others alone (`StoreSpec`,
`WhoMayDoWhat`). In TLC's runs each behaviour exercises one part (`focus`) and
leaves the others in one initial state: the product would say nothing more and
cost its square. The theorems are about the unrestricted composition.

All modules share one view of Postgres. A request is one transaction at READ
COMMITTED; each statement is one action and sees what is committed and the
request's own writes; a row is locked from the UPDATE that writes it (a key from
the INSERT) to the end of the transaction, reading locks nothing; `Commit`
installs the writes together, `Fail` drops them.

### Approval

The committed database is `step` (a row per Approval Step: Decision and
Sequence), `doc` (the document's row: Status, Approval Mode, which steps have
signed the file) and `audit` (`record_events`). `lock` holds the row locks.
`tx[r]` is a request: the statement its handler executes next (`at`), the event
and record it was sent for, the copies of rows the handler holds (`row`,
`docRow`: the code's `rec.Data` and `newData`), which of them it has written
but not committed (`wrote`), the audit rows it has inserted, and the rollup's
outcome. A statement reads `StepSeenBy`/`DocSeenBy`: committed rows and the
transaction's own, which is READ COMMITTED.

| Action | Code |
|---|---|
| `TriggerStep`, `TriggerDoc` | `TriggerEvent`, `triggerEvent` up to the state guard |
| `EditStep`, `EditDoc`, `CreateStep` | `Update`, `Create` up to their checks |
| `ReadMode`, `PassGuard`, `RefuseBlocked` | `sequentialGuardViolation`: the document, then the siblings |
| `CheckSequence` | `uniquenessViolations` (CAP-C12: one Sequence per document) |
| `Refuse` | every other refusal (separation of duties, constraints, references) as a choice |
| `Sign`, `Stamp` | `doCompositeSignature`: read the document, write it back |
| `WriteStep`, `WriteDoc` | `Persist`: the row and its `LogEvent` |
| `Rollup`, `Fetch`, `Cascade` | `doAggregateStatus`: siblings, parent, parent's event |
| `Commit`, `RollBack`, `BreakDeadlock` | `workspaceTx` and Postgres |

A step of `Next` is one statement together with the computation after it. The
two writes of `Persist` (the row and its audit row) are one action: both are
invisible until the commit and only the first one takes a lock.

Three families of seeds are one parametric model. Case 3 (`seeds/004`) is
`MinApprovals = 0`: all must approve, one rejection rejects. The quorum lab
(`seeds/022`) is `MinApprovals = 2`; its status Open stands where Case 3 has In
Review. The signature lab (`seeds/035`) adds signatures; whether a step has a
placement is a choice of `Accept`, because placements are records of their own.

`reordered` is a history variable. Approval Mode and Sequence are form fields,
so any user may change them during the approvals; what the sequential guard
promises is stated for as long as nobody has.

Left out: archiving a step, moving a step to another document, `activate_next`
(it only notifies), and front doors other than the form that may create a step
with a decision already in it (JSON API, CSV).

### Outbox

`request`, `inserted` and `stamp` are the producing transactions (`created_at`
is the transaction's begin time, not the insertion's). `row` is the committed
state of each `action_outbox` row, `effects` counts the notifications or records
made for it. `disp[d]` is one tick of a dispatcher: what it claimed, the item in
its savepoint, what its transaction has marked, and whether Postgres has aborted
it (`broken`), which the loop does not notice: it logs each error and goes on.
"claimed" is a row with `claimed_at` and neither outcome; nothing in the code
ever picks such a row up again, so `NoLimbo` must keep it out of every committed
state.

### EventSources

One event of one machine that both sources fire; `event` is its declaration
(with or without a condition, daily or by due date), chosen at the start. The
committed database is `row` (what the condition looks at), `claims`
(`webhook_claims`) and the event's audit rows: `hooked[r]` are the days of those
left by webhooks, `swept[r][d]` counts the scheduler's of day d. `fired` and
`refused` count what committed under each key. `tx[q]` is a webhook request,
`sweep` the scheduler's one transaction, `clock` the time in half days.

| Action | Code |
|---|---|
| `Arrive` | the transaction's begin and `Handler.Webhook` up to the record's read |
| `Claim`, `Duplicate` | `ClaimWebhookEvent`: wait for an uncommitted claim of the key, insert, or answer 200 |
| `Write` | `triggerEvent` and `Persist`; a false condition goes to the answer without it |
| `Commit`, `Abort` | `workspaceTx` after an answer of 200 or 400; a 5xx or a lost commit |
| `SweepBegin`, `SweepList` | `runScheduler`'s transaction; then `RunScheduledEvents` reads the time and lists |
| `SweepSkip`, `SweepCheck`, `SweepFire` | `fireScheduledEvent`: `FiredToday`, then `triggerEvent` |
| `SweepCommit`, `SweepLost` | the commit, or a failed statement, whose error the loop skips, or a crash |

There are two days: `Day`, the UTC date of Go's clock, decides what is due;
`LocalDay`, the database's date when the transaction began (`CURRENT_DATE` and
`performed_at` are both fixed then), decides what has fired today. `Offset` is
how far the database's zone is ahead. The scheduler is one goroutine of one
process (ARCHITECTURE.md deploys no second), so sweeps do not overlap each other.
A condition stands for all of an event's refusals; a webhook answers them alike.

### Records, Ordering, Ledger

`Records` has two machines: a Case (`parent`) whose Submit requires evidence, and
a Photo (`child`) that references it and draws a document number from
`sequence`. Where a child was created (`origin`) is kept beside what it
references now (`parent`), because only creation through the form stamps the
counter. `tx[r]` holds the row a request read, however old it is when it is
written back.

| Action | Code |
|---|---|
| `Begin`, `FirstStage`, `Unchecked` | the routes that write records, and those that check nothing first |
| `DrawNumber` | `Create`: `NextSequence`, which locks the sequence's row |
| `Insert` | `Create` and imports: references exist, the INSERT |
| `Stamp` | `stampRequirementCounters`: `IncrementField` |
| `Read`, `Assigned`, `WriteBack` | `Update`, `triggerEvent`, `cross_set`: checks on the row read, then the whole row |
| `ScanReferences`, `SetDeleted` | `setDeleted`: the master-data scan, archive and restore |
| `DropOnLane` | `BoardMove` and `MoveToLane` on a board grouped by the status |
| `ReadChild`, `WriteChild`, `SetChildDeleted` | the same for a child, re-pointing included |
| `Refuse` | a page with violations; it answers 200 and commits |

A record is fetched by its id alone, so a URL may name one under another machine
of the workspace. `setDeleted` then skips both of its checks and archives the record
(`archiveElsewhere`). A form or an event under such a page goes by the rules of the
wrong machine and writes the whole row back; field ids are unique, so it changes
none of the fields modelled here and counts as a `crossSet`, the kind for every
whole-row write that none of the record's own rules guard. `steered` is TRUE in the
behaviours whose metadata groups a board by the status or has a `cross_set_field`
that sets it: `drop` and `crossSet` then write it unchecked. A board grouped by a
reference re-points a child as `repoint` does.

`Ordering` is `Move` (two reads, two UPDATEs) and `MoveToLane` (a MAX, an
UPDATE) with the deadlock of two moves that cross; `setting` says whether
requests overlap and whether the machine has a board beside its list. `Ledger`
is the accounting lab of `seeds/027`: an entry is posted after three SELECTs (two
sums, the period) while other requests write lines, move entries and close
periods.

### Identity and Access

`Identity`: sign-up and the acceptance of an invitation by somebody new run in a
second transaction that commits in the middle of the request (`CommitOwn`); the
session is written in the request's own, which commits afterwards. An address is
typed in two spellings; `Lower` is what the invitation form does to it and
sign-up does not. An invitation has several links, of which only the last mailed
finds the row.

| Action | Code |
|---|---|
| `Signup`, `CreateWorkspace`, `CreateUser`, `CreateMembership` | `Signup`, `createInvitedIdentity`, `joinExistingIdentity` |
| `FollowLink`, `ResolveIdentity`, `ViewAsMember`, `MarkAccepted` | `resolveInvitation`, `InviteAcceptForm`, `InviteAccept` |
| `StartSession`, `Login`, `ChooseWorkspace`, `Logout`, `Expire` | `startSession` and the handlers of those names |
| `Invite`, `Revoke`, `Resend`, `SetRole` | the administrator's forms |

`Access`: `rows` are the Permission rows of the roles involved, in the order
they were read; `ReadDirectRole` and `ReadGroupRoles` are `sessionAuth`'s two
queries; `ReadRecord` and `Check` are `TriggerEvent` up to its verdict, the
group's members being asked for only by the check. `CanTrigger` is the guard's,
`PermittedForRecord` the page's. Administrators change direct roles, group roles
and members (`SetMembers`: a DELETE, then INSERTs), editors the fields a gate
reads. `clean` tells whether anything has been committed since the request began,
`asked` what was last saved for a group.

### Serving

`database` is the committed metadata, `live` the set the atomic pointer names.
Founding (`Signup`) and importing (`APIImportApplication`) write in a second
transaction (`BeginOwn` to `CommitOwn`) and then load (`LoadWorkspaces`,
`LoadApplications`) and `Swap`; an import loads before its commit, to be
validated. `InUse` counts connections: the request's, the second transaction's,
the background tick's. `Restart` is the process's. `unserved` remembers what a
request committed and then failed to load.

### Process and Compiler

`Compile` is `compileProcess` and `compileSLA` in the order the code runs them:
the events of transitions and automatic steps, the chains between them, the
due-date stamps, and the breach events that come after both. `Trigger`,
`TriggerChained`, `Commit`, `Abort`, `Breach`, `Midnight` run one record on the
result; nothing of the declaration is left then. `lag` is the day by which
"today + N" falls short west of UTC. `Declared == INSTANCE Process` is what the
declaration promises, with `status` the committed one: a request's whole chain
of events is one step of it. What chains through automatic steps (`Passed`) and
what a new record can reach (`Closure`) are least closed sets, and `Run` is what
the compiled events that can fire (`Firable`, `Fired`) reach from the first state.
A budget may be zero days, so a due date may lie in the past.

## 3. Runs

| Run | Instance | Question |
|---|---|---|
| `approval_races` | 3 requests all open at once, 2 steps and 1 to be created, quorum 2 | what survives every interleaving |
| `approval_serial` | 4 requests one at a time, 3 steps, quorum 2 | refinement of `Verdict`; final verdicts; unique Sequence |
| `approval_lost_rollup` | 2 overlapping requests, 2 steps | violated: `RollupComplete` |
| `event_sources` | 2 deliveries, 1 key, 2 records, 2 days, database half a day ahead, 1 lost sweep | what holds of keys and days |
| `webhook_refusal` | 3 deliveries, 1 key, 1 record | violated: `DuplicatesHaveFired` |
| `outbox` | 2 requests, 3 rows, 2 dispatchers, batch 2, 1 fault; 2 overlapping approval requests, 2 steps, no quorum | exactly-once delivery, refinement of `Delivery`; does every row settle and every request end |
| `store` | 2 requests over 1 parent and 2 children, with and without `steered`; over 3 cards and 2 lanes; over 1 entry, 2 lines, 2 periods | counter, requirement, numbers, immutability, order, posting rules |
| `frozen_elsewhere` | the records of `store`, requests one at a time, not `steered` | violated: `FrozenOnEveryPath` |
| `identity` | 2 requests over 3 addresses (two are spellings of one), 2 workspaces, 1 invitation with 2 links; over 2 people, 1 group, 2 roles | provisioning, acceptance, sessions; the check and the group form |
| `access_offers` | the second half of `identity` | violated: `OffersHonoured` |
| `serving` | 2 requests, 2 workspaces, 1 application, 3 connections; 2 deliveries, 2 records, the scheduler, 1 fault | what is served; do requests and deliveries end, do due records fire |
| `compiler` | every process over 3 states with up to 3 transitions and 2 automatic steps, budgets or gates; 4 days | refinement of `Process`, budgets, reachability |

Each property of a passing run has been seen to fail on a mutated definition of
the code; the mutants stand beside the definitions they replace.

Bounds. In `Approval`, requests are sent once each, so their number bounds a
behaviour; three overlapping requests give every pair of statements of two
requests a third that acts between them, and no property relates more than two
rows and a verdict. `Sequences` is what forms submit besides the initial 2, 4, 6:
one value below them all and, in `approval_races`, one between the second and the
third, so that a new or an edited step may land anywhere in the order. A quorum
of two with two steps and a third possible covers total below, at and above N. In
`outbox` two rows fit a batch and three do not; `MaxFaults = 1` puts one fault at
every point of a tick, and the proofs lift the bound. In `event_sources` four
moments put both midnights and an open and a closed window into one behaviour,
and two records let a sweep be lost, or wait for a row, half-way; two deliveries
are a delivery and its retry, overlapping or not. Three are needed in
`webhook_refusal`: one changes the row, one is refused, one retries. In the
record store, `Identity`, `Access` and `Serving` a request that has ended may be
sent again, so two stand for any number of which two overlap; what is bounded is
`MaxNumber` (numbers drawn), `MaxOrder` (sort orders reached by drops), `Amounts`
(a line carries 0 or 1), `MaxLinks`, `MaxSessions`, `MaxChanges` (commits of
administrators and editors, two: one of each, or both of one group), `LastDay`
and the processes of `MCDeclarations`. `Overlap` lets a run look at requests one
at a time and at overlapping ones; a property says which of the two it speaks of.
`steered` behaviours are of requests one at a time (`MCStore`): overlap adds
nothing to a status that may be written at any time anyway, and the proofs lift
the bound.
`serving` leaves out daily events without a condition, which `event_sources` has.
Requests are symmetric (`SYMMETRY`) wherever no liveness is checked. Deadlock is
not checked where the system may stop: in the approval, outbox and event modules
(and the events of `serving`) once every request has been sent, in `compiler` on
the last day. `store` and `identity` check it.

Violated properties quote the code's own comments (the findings of
`PROJECT.json`):

* `RollupComplete`: "only once every sibling is Approved does the parent reach
  its 'all approved' event" (`events.go:629-630`). Two requests approve the last
  two steps; each rollup counts the other's step as Pending; the document stays
  In Review with nothing left to approve.
* `DuplicatesHaveFired`: a retry of the same delivery "gets 200 back without the
  event firing a second time" (`events.go:139-142`). A refusal is a 400, a 400
  commits, and with it the claim: the retry gets 200 and there was no first time.
* `FrozenOnEveryPath`: "'frozen' means frozen against every mutation path, not just
  field edits" (`record_crud.go:275-276`). A record in an immutable state, or a
  master-data record that is referenced, is archived by one request whose URL names
  another machine: `setDeleted` makes its checks only when the record it fetched is
  of the URL's machine (`record_crud.go:278`) and archives it in any case (`:300`).
  What does hold, with this and the other ways round written out, is `FrozenStays`.
* `OffersHonoured`: the two checks agree "so a Detail page never offers a button
  the POST would then reject" (`interpreter.go:333-334`), and "any one held role
  granting the event is enough" (`guard.go:16`). `CanTrigger` returns the gate of
  the first row that grants the event to any of the roles held; the page goes on
  to the next. Somebody with a direct role whose row asks for ownership and a
  group's role whose row does not is offered the button and answered 403, or not,
  by the order in which `loadPermissions` read the rows, and it has no ORDER BY.
  The converse direction, and everybody who holds one role, is
  `CheckFollowsPage`, which holds.

### What overlapping requests break

Properties that speak of requests one at a time do so because the code lets
overlapping ones break them. TLC shows each of these when the restriction is
dropped; the repository promises nothing about most of them.

* Approval: with a quorum of N and fewer than N sibling rows created, one
  rejection or none makes `rejected > total - N` true; two signatures placed at
  once lose one, the document's row being written back whole
  (`executor.go:707`); an event may fire on a row that no longer satisfies its
  condition (`events.go:265`).
* Two forms that pass a uniqueness check at once both write (`validation.go:175`).
* A whole-row `Update` from a row read before an increment brings the old counter
  back, and one read before a submit un-freezes the parent; a record referenced
  between `setDeleted`'s scan and its UPDATE ends up referencing an archived one.
  Evidence re-pointed to another parent, or archived, still counts for the first,
  also in requests one at a time.
* Overlapping moves of neighbours, and overlapping drops, leave two records with
  one sort order, which `Move`'s strict comparison never separates again. One at a
  time, a drop on a board ties with a position of the machine's manual list, and a
  move trades places with archived neighbours nobody sees.
* Lines written and a period closed between the posting request's SELECTs and its
  commit leave an unbalanced entry posted in a closed period (`crossrecord.go:67`).
* Of two submissions of a group's members, the second does not see the rows the
  first inserted: the group keeps both, or the second fails on a duplicate.
  `sessionAuth` reads direct and group roles by two statements and can miss a role
  moved from one to the other in between.
* A reload that loaded first and swaps last hides a workspace another has made
  servable, until the next reload.
* Around the database's midnight a due event may fire twice, or, with a database
  outside UTC, does so in the middle of each due day: `FiredToday` compares with
  CURRENT_DATE, `dateFieldDue` with Go's UTC day.

And of one request at a time: a card in an immutable state is dropped on another
lane of a board grouped by that state, and a `cross_set_field` sets it, in either
case past the requirement too (`FrozenStays`, `SubmittedHadEvidence` say so with
`steered`); an address that differs in case from the invited
one becomes a second identity; the last administrator can be demoted; a link
opened before a revocation is accepted after it, and resending revives an
accepted invitation; the founder of a workspace whose reload failed cannot reach
the page that reloads, because the workspace is not served; with as many
connections as such requests, founders and importers wait for each other's second
connection for ever (`Conns = 2` in `serving`). Of the compiler: a record created
in the first state or escalated gets neither due date nor automatic step, so an
accepted process may have states that no record ever reaches (`EveryStateReached`
holds of `Straight` ones); a record escalated back into a state with a budget
keeps the old date; a chained step refused by a requirement leaves the record in
the intermediate state; west of UTC a due date falls a day early.

Fairness. A handler that can go on does (`Proceed`, `Handle`), a sequential guard
that finds a blocker refuses, and Postgres detects deadlocks (`BreakDeadlock`); a
dispatcher's and the scheduler's ticker never stop. No fairness on users, on
failures or on rollbacks. `EveryRequestEnds` therefore rests on the claim that
every circle of waiting requests contains two that wait for each other, which is
proved for any number of requests (`DeadlocksBreak`). `EveryRowSettles` and
`DueRecordsFire` also use that faults are finitely many: a record whose event
fails at every sweep would keep its workspace from ever firing, because the sweep
is one transaction. Time itself is not fair; `DueRecordsFire` speaks of the day
on which the clock stands still, so it says that the scheduler catches up, not
that it does so before midnight. In `Serving` a request that is again and again
able to go on does (strong fairness): the pool hands a connection to its oldest
waiter. In `MCServing` the events are fair in the behaviours that exercise them.

## 4. Proofs

For all finite sets of rows, requests and events, all quorums, numbers and bounds
(the `...Assumption` of each module, which TLC evaluates). None of the properties
is inductive: they speak of committed rows, and what a commit installs was read,
guarded and computed by its request many steps before. Each `IInv` adds what the
open requests know, in a form that other requests' commits leave true.

`ApprovalProofs`: `TypeCorrect`, `DecisionsBacked`, `StatusesBacked`,
`VerdictsBacked`, `CascadesAtomic`, `DecidedInOrder`,
`OppositeVerdictsShareAVote`.
`IInv` has two halves. `Settled` is what the committed state
satisfies (the properties in a form that only grows: the audit trail is never
shortened). `InFlight(r)` says of each open request that the copies it holds are
justified by the audit trail together with its own uncommitted audit rows, that a
rollup's counts are justified by the trail of the siblings it saw, and, in
Sequential mode before any reordering, that the predecessors of its step were
decided when it passed the guard. Decisions are never taken back, hence the
knowledge does not go stale even though the rows do: `Keeps` collects what a
commit of one request must leave true for the others, and one lemma per action
shows that the rest preserve it. `VerdictsExclusive` is arithmetic on the two
thresholds over one set of siblings, by the cardinality of a disjoint union.

`DeadlocksBreak` needs one more invariant: whoever holds a step's row is past its
own write (`StepsHeld`) and needs at most the document's. Follow any circle of
waiting requests for two or three of them and the holder of the document's row
waits for a step's row whose holder waits for the document.

`Implementation` (the refinement of `Verdict`), `VerdictsFinal` and
`SequencesUnique` are about requests one at a time (`MaxOpen = 1`); the first two
also assume that every step exists from the start (`Initial = Steps`), the last
that the initial Sequences differ. `SoloInv` adds to `IInv` that at most one request
is open and what it has done so far: decided a step (`Decides`), moved the document
(`Moves`) or filled in a form (`Edits`). Its copies are the committed rows with
exactly what its own statements have changed, so that its commit shows one step of
`Verdict`, or nothing. The abstract document's `Final` is proved of `Verdict` alone,
by the cardinality of what is still undecided, and carried over through the
refinement. What overlapping requests break is listed above.

`OutboxProofs`: `TypeCorrect`, `DeliveredExactlyOnce`, `NothingInLimbo`,
`NeverClaimedTwice`, `DeliveredForCommitted`, and `DeliveryImplemented`, the
refinement of `Delivery`. The invariant says that a dispatcher's batch is a set
of rows still committed as queued, disjoint from every other batch, that what it
has made is exactly what it will mark completed, and that a row which has left
"none" belongs to one committed request.

`EventSourcesProofs` (assumption `EventSourcesAssumption`): `TypeCorrect`,
`KeysSettleOnce`, `SweepsFireOncePerDay`. The invariant adds that a claimed but
uncommitted key is in nobody else's hands and not spent (`ClaimedOnce`), and that
whatever the sweep has fired or is about to has no audit row of the sweep's day
(`SweepsFresh`), which no other transaction can change.

`RecordsProofs`: `TypeCorrect`, `NumbersAreUnique`, `CountersAreSound`,
`SubmittedHadTheirEvidence`. A row that was read earlier claims no more evidence
than there is, because evidence only grows (`Writing`); the number a creation
carries is one ahead of the committed sequence, whose row it holds (`Numbering`,
`Drawn`); the stamp commits with the child it counts (`Creating`).

`FrozenRecordsStay` is an action property of requests one at a time: what the
open one has checked is still true when it commits (`Checked`). It says exactly
which requests change or archive a record in an immutable state: a `drop` or a
`crossSet` its status, and those only where metadata lets them (`steered`), an
`archiveElsewhere` its archived mark; every other form, event, stamp and archival
leaves both alone, and referenced master data alike. It assumes
`"Open" \notin Frozen`, as the seeds have it: a state in which records are
created and from which an event leaves is not an immutable one (the theorem is
about the machines whose immutable states no event leaves; `triggerEvent` does not
ask `immutabilityViolation`). `SubmittedHadTheirEvidence` is about metadata that is
not `steered`.

`StoreProofs` (assumption `BoardAssumption`): `PartsImplemented` says that the
store's behaviours are, part by part, those of `Records`, `Ordering` and `Ledger`,
so that the theorems about one hold in the presence of the others. `OrderTypes`,
`PositionsAreTraded`, `DroppedCardsAreLast`, by `OrderInv`: whatever overlaps, the
positions a request carries are between 1 and the number of records (`Ranged`);
one at a time they are still those of its two records, or the end of the lane
(`InStep`). The maximum a drop reads exists because the set of orders is finite
(`GreatestExists`). `EntriesPostedWithinRules`, by `LedgerInv`: one at a time, what
the three SELECTs found is still true at the write (`StillTrue`). What the sum of an
entry's lines is plays no part in it, only that nobody changes a line meanwhile.

`IdentityProofs`: `TypeCorrect`, `AcceptedAreMembers`, `SessionsAreBacked`,
`NobodyIsOrphaned`, `AdmittedOnlyOnce`. For each kind of request the invariant
says what it has written at each stage and what of it is committed already
(`Founding`, `Accepting`, `Viewing`, `Entering`, `Administering`, `Opening`); that
two of them never hold one UNIQUE key is all that keeps overlapping acceptances
apart. `AdmittedOnlyOnce` is an action property.

Also in `IdentityProofs`, of `People` (assumption `AccessAssumption`):
`AccessTypes`, `ChecksFollowPage`, `MembersStayAsSaved`. What a request's three
reads have found is what is committed for as long as nothing has been committed
since it began (`Current`), and then the check is a computation on one state. There the
assumption is needed: `permissions` is UNIQUE on machine and role, and a compiled
event stands in the row of its one actor, so that no role has two rows that grant
it. `MembersStayAsSaved` holds because the rows a save of a group has found, or
deleted, are the group's members (`Saving`) when saves do not overlap, and because
no save leaves out a member it was asked for when they do.

`ServingProofs`: `TypeCorrect`, `ServedIsPersisted`. A load holds only what is
committed, and one that is about to be swapped by itself misses nothing
(`Loading`); what is committed and not served is owed by a request under way
(`Accounted`).

`CompilerProofs` (assumption `CompilerAssumption`): `TypeCorrect`,
`DeclarationFollowed`, `BudgetsAreBreached`, `NoDeadStates`. Everything rests on
what a process compiles to: `EventParts` and `MachineParts` say which events
there are and what each carries, whatever pass added it. The refinement of
`Process` (`DeclarationFollowed`) needs that an open request has left the
committed state by a declared transition, has passed along automatic steps since,
and either has the next ones queued or rests where the declaration lets it rest
(`OnItsWay`). `BreachedOnTime` needs `Timely`, which relates the due date a
record carries to the day it entered its state and to what has been breached
since. For `EveryStateReached` the states the machine's events reach
(`RunFollowsEdges`) are those the declaration reaches, because the fireable
events are again a least closed set (`FiredClosed`).

`TypeCorrect` of `Outbox`, `EventSources`, `Identity`, `Serving` and `Compiler`,
`OrderTypes` and `AccessTypes` are proved only; the runs spend their time on the
other properties.

Every safety and action property of the passing runs, and every refinement, is a
theorem. Only model-checked are: liveness (`EveryRequestEnds`, `EveryRowSettles`,
`EveryDeliveryEnds`, `DueRecordsFire`, `RequestsEnd`), because fairness and ENABLED
are out of the prover's reach; and the four violated properties, which do not
hold. Not proved either is that the amounts `Ledger` reads are numbers: that the
sum of a set of lines is one is an induction over the set, which the installed
provers cannot instantiate.

## 5. Not modelled

* Pages, the composable planner, lists, filters, reports, PDF and CSV output, and
  the generated templ code under `internal/ui`: they read and render. They are
  most of the repository's lines, with the loaders and validators of metadata,
  and there is no state in them that a step could get wrong.
* Metadata loading and validation (`loader.go`, `validate.go`, `materialize.go`):
  parsing and checks of declarations. Only what they commit and when it is served
  is in `Serving`, only the process compiler in `Compiler`.
* Constraint engine and expressions: pure evaluation. The models choose its
  result, or have one rule written out (the requirement's minimum, the balance,
  the quorum).
* The rate limiter: a library's token bucket behind one mutex.
* JSON API, CSV imports and uploads: other front doors of the same store under the
  same transaction. `Records` has the import that stamps no counter, `Serving`
  the import of an application; storing files is I/O.
* Read, create, edit and delete permissions and hidden fields: one flag of a row
  each, read where it is used.
* Mail, notifications, routing: I/O and wiring. A notification is an effect of the
  outbox.
* In the modelled parts: passwords, creating and naming groups, `activate_next`
  and archiving in `Approval`, actions on a process's transitions, injected
  quorums (their events are the ones `Approval` runs), and forms that write a
  Status field directly, which no compiled event sees.

## 6. What could follow

The JSON API's front doors in `Records`; `activate_next` with a model of who is
notified; the safety halves of the other liveness properties, as `DeadlocksBreak`
is one: that whoever waits for a connection or a row waits for somebody who can go
on.
