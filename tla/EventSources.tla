---------------------------- MODULE EventSources ----------------------------
(***************************************************************************)
(* The two sources of events that are not people: webhooks with their      *)
(* idempotency keys (CAP-E04, CAP-X13) and the scheduler (CAP-E02, E03).   *)
(*                                                                         *)
(* One event of one machine, declared with or without a condition and with *)
(* a daily or a due-date schedule.  Deliveries are requests, each in its   *)
(* own transaction; the scheduler is one goroutine, each sweep of it one   *)
(* transaction over all records.  Time passes in half days; the window of  *)
(* a daily event opens at noon UTC.                                        *)
(***************************************************************************)
EXTENDS Integers

CONSTANTS
    Records,     \* records of the machine
    Due,         \* Due[r]: the UTC day on which r's date field plus offset falls
    Deliveries,  \* webhook calls, retries of earlier ones included
    Keys,        \* X-Idempotency-Key values
    Target,      \* Target[k]: the record the sender of key k means
    Offset,      \* half days by which the database's time zone is ahead of UTC
    LastTick,    \* bound: the clock stops here
    MaxFaults,   \* bound: sweeps that fail
    None         \* no key, no record

Day(c) == c \div 2
LocalDay(c) == (c + Offset) \div 2
WindowOpen(c) == c % 2 = 1

ASSUME EventSourcesAssumption ==
    /\ Due \in [Records -> Nat]
    /\ Target \in [Keys -> Records]
    /\ Offset \in Nat /\ LastTick \in Nat /\ MaxFaults \in Nat
    /\ None \notin Keys \cup Records

VARIABLES
    event,    \* how the event is declared; never changes
    clock,    \* half days passed
    row,      \* committed rows: what the event's condition looks at
    claims,   \* committed webhook_claims
    fired,    \* fired[k]: committed firings of the event under key k
    refused,  \* refused[k]: committed refusals of the event under key k
    hooked,   \* hooked[r]: the days of r's audit rows left by webhooks
    swept,    \* swept[r][d]: audit rows of r and day d left by the scheduler
    tx,       \* the webhook requests
    sweep,    \* the scheduler's transaction
    faults    \* faults so far

vars == <<event, clock, row, claims, fired, refused, hooked, swept, tx, sweep,
          faults>>

database == <<row, claims, fired, refused, hooked, swept>>

-----------------------------------------------------------------------------

Schedules == {"daily", "due"}
RowStates == {"ready", "fired"}
Days == 0 .. LocalDay(LastTick)

\* at: the statement to come, or the answer (200 for a duplicate; 200 or 400,
\* depending on wrote) before the commit; day: when the transaction began,
\* performed_at of its audit rows; allowed: whether the row as it was read
\* satisfies the condition; claimed, wrote: what it has inserted and locked.
Request == [at: {"idle", "claim", "write", "duplicate", "answer", "ended"},
            key: Keys \cup {None}, rec: Records \cup {None}, day: Days,
            allowed: BOOLEAN, claimed: BOOLEAN, wrote: BOOLEAN]

Unsent == [at |-> "idle", key |-> None, rec |-> None, day |-> 0,
           allowed |-> FALSE, claimed |-> FALSE, wrote |-> FALSE]

Ended == [Unsent EXCEPT !.at = "ended"]

\* start: when the transaction began; todo: records that qualified as listed
\* and are yet to be looked at; rec: the one about to be fired.
Sweep == [at: {"idle", "begun", "loop", "fire"}, start: Days,
          todo: SUBSET Records, rec: Records \cup {None}, wrote: SUBSET Records]

Resting == [at |-> "idle", start |-> 0, todo |-> {}, rec |-> None, wrote |-> {}]

\* The event's condition on the committed row.
Condition(r) == event.guarded => row[r] = "ready"

\* Mutant: the day by the clock of the Go process.
FiredTodayUTC(r) ==
    \/ Day(clock) \in hooked[r]
    \/ Day(clock) \in Days /\ swept[r][Day(clock)] > 0
    \/ r \in sweep.wrote

\* Mutant: the audit trail is not restricted to a day.
FiredEver(r) ==
    \/ hooked[r] # {}
    \/ \E d \in Days : swept[r][d] > 0
    \/ r \in sweep.wrote

\* An audit row of CURRENT_DATE exists: CURRENT_DATE is the day on which the
\* transaction began, and it sees committed rows and its own.
FiredToday(r) ==
    \/ sweep.start \in hooked[r]
    \/ swept[r][sweep.start] > 0
    \/ r \in sweep.wrote

\* Nobody but q has written record r and not yet ended.
RowFreeFor(q, r) ==
    /\ \A p \in Deliveries \ {q} : ~(tx[p].wrote /\ tx[p].rec = r)
    /\ r \notin sweep.wrote

RowFreeForSweep(r) == \A p \in Deliveries : ~(tx[p].wrote /\ tx[p].rec = r)

Fault ==
    /\ faults < MaxFaults
    /\ faults' = faults + 1

-----------------------------------------------------------------------------
(* Webhooks. *)

\* The handler goes on after its read, or after its claim: it answers 400 if
\* the row it has read does not satisfy the condition.
Judged(allowed) == IF allowed THEN "write" ELSE "answer"

\* A delivery arrives, its transaction begins and it reads the record, before
\* it claims the key.
Arrive(q) ==
    /\ tx[q].at = "idle"
    /\ \E k \in Keys \cup {None}, r \in Records :
        /\ k # None => r = Target[k]
        /\ tx' = [tx EXCEPT ![q] =
                    [Unsent EXCEPT !.at = IF k = None THEN Judged(Condition(r))
                                                      ELSE "claim",
                                   !.key = k, !.rec = r, !.day = LocalDay(clock),
                                   !.allowed = Condition(r)]]
    /\ UNCHANGED <<event, clock, database, sweep, faults>>

\* Mutant: a SELECT and then an INSERT, without a unique key to wait for.
ClaimUnseen(q) ==
    /\ tx[q].at = "claim"
    /\ tx[q].key \notin claims
    /\ tx' = [tx EXCEPT ![q].at = Judged(tx[q].allowed), ![q].claimed = TRUE]
    /\ UNCHANGED <<event, clock, database, sweep, faults>>

\* INSERT ... ON CONFLICT DO NOTHING waits for another transaction that has
\* inserted the key, and inserts if that one rolled back.
Claim(q) ==
    /\ tx[q].at = "claim"
    /\ tx[q].key \notin claims
    /\ \A p \in Deliveries : ~(tx[p].claimed /\ tx[p].key = tx[q].key)
    /\ tx' = [tx EXCEPT ![q].at = Judged(tx[q].allowed), ![q].claimed = TRUE]
    /\ UNCHANGED <<event, clock, database, sweep, faults>>

\* The key is spent: success without running the event.
Duplicate(q) ==
    /\ tx[q].at = "claim"
    /\ tx[q].key \in claims
    /\ tx' = [tx EXCEPT ![q].at = "duplicate"]
    /\ UNCHANGED <<event, clock, database, sweep, faults>>

\* Persist: the row, the event's effects and its audit row.
Write(q) ==
    /\ tx[q].at = "write"
    /\ RowFreeFor(q, tx[q].rec)
    /\ tx' = [tx EXCEPT ![q].at = "answer", ![q].wrote = TRUE]
    /\ UNCHANGED <<event, clock, database, sweep, faults>>

\* Mutant: a transaction that is gone keeps its locks.
EndKeepsLocks(q) == tx' = [tx EXCEPT ![q].at = "ended"]

\* The transaction is gone and its locks with it.
End(q) == tx' = [tx EXCEPT ![q] = Ended]

\* 200 and 400 commit alike.
Commit(q) ==
    /\ tx[q].at \in {"duplicate", "answer"}
    /\ LET k == tx[q].key
           r == tx[q].rec
       IN  /\ claims' = IF tx[q].claimed THEN claims \cup {k} ELSE claims
           /\ fired' = IF tx[q].claimed /\ tx[q].wrote
                       THEN [fired EXCEPT ![k] = @ + 1] ELSE fired
           /\ refused' = IF tx[q].claimed /\ ~tx[q].wrote
                         THEN [refused EXCEPT ![k] = @ + 1] ELSE refused
           /\ row' = IF tx[q].wrote THEN [row EXCEPT ![r] = "fired"] ELSE row
           /\ hooked' = IF tx[q].wrote
                        THEN [hooked EXCEPT ![r] = @ \cup {tx[q].day}] ELSE hooked
    /\ End(q)
    /\ UNCHANGED <<event, clock, swept, sweep, faults>>

\* A 5xx, a lost connection or a dead process before the commit, or a commit
\* that fails after the answer.
Abort(q) ==
    /\ tx[q].at \notin {"idle", "ended"}
    /\ End(q)
    /\ UNCHANGED <<event, clock, database, sweep, faults>>

-----------------------------------------------------------------------------
(* The scheduler. *)

SweepBegin ==
    /\ sweep.at = "idle"
    /\ sweep' = [Resting EXCEPT !.at = "begun", !.start = LocalDay(clock)]
    /\ UNCHANGED <<event, clock, database, tx, faults>>

\* What is due at the UTC time c.
DueAt(c) ==
    {r \in Records : \/ event.schedule = "daily" /\ WindowOpen(c)
                     \/ event.schedule = "due" /\ Due[r] = Day(c)}

\* RunScheduledEvents takes the time and lists the records.  Their conditions
\* will be evaluated on the rows as listed; one that does not hold changes
\* nothing, whenever it is found out.
SweepList ==
    /\ sweep.at = "begun"
    /\ sweep' = [sweep EXCEPT !.at = "loop",
                              !.todo = {r \in DueAt(clock) : Condition(r)}]
    /\ UNCHANGED <<event, clock, database, tx, faults>>

SweepSkip(r) ==
    /\ sweep.at = "loop" /\ r \in sweep.todo
    /\ FiredToday(r)
    /\ sweep' = [sweep EXCEPT !.todo = @ \ {r}]
    /\ UNCHANGED <<event, clock, database, tx, faults>>

SweepCheck(r) ==
    /\ sweep.at = "loop" /\ r \in sweep.todo
    /\ ~FiredToday(r)
    /\ sweep' = [sweep EXCEPT !.at = "fire", !.todo = @ \ {r}, !.rec = r]
    /\ UNCHANGED <<event, clock, database, tx, faults>>

\* Persist.
SweepFire ==
    /\ sweep.at = "fire"
    /\ RowFreeForSweep(sweep.rec)
    /\ sweep' = [sweep EXCEPT !.at = "loop", !.wrote = @ \cup {sweep.rec},
                              !.rec = None]
    /\ UNCHANGED <<event, clock, database, tx, faults>>

SweepCommit ==
    /\ sweep.at = "loop" /\ sweep.todo = {}
    /\ row' = [r \in Records |-> IF r \in sweep.wrote THEN "fired" ELSE row[r]]
    /\ swept' = [r \in Records |->
                    IF r \in sweep.wrote
                    THEN [swept[r] EXCEPT ![sweep.start] = @ + 1]
                    ELSE swept[r]]
    /\ sweep' = Resting
    /\ UNCHANGED <<event, clock, claims, fired, refused, hooked, tx, faults>>

\* A statement fails, its error is skipped and the commit becomes a rollback,
\* or the process dies: whatever the sweep has fired is undone.
SweepLost ==
    /\ sweep.at # "idle"
    /\ Fault
    /\ sweep' = Resting
    /\ UNCHANGED <<event, clock, database, tx>>

-----------------------------------------------------------------------------
(* Specification. *)

Tick ==
    /\ clock < LastTick
    /\ clock' = clock + 1
    /\ UNCHANGED <<event, database, tx, sweep, faults>>

Init ==
    /\ event \in [guarded: BOOLEAN, schedule: Schedules]
    /\ clock = 0
    /\ row = [r \in Records |-> "ready"]
    /\ claims = {}
    /\ fired = [k \in Keys |-> 0]
    /\ refused = [k \in Keys |-> 0]
    /\ hooked = [r \in Records |-> {}]
    /\ swept = [r \in Records |-> [d \in Days |-> 0]]
    /\ tx = [q \in Deliveries |-> Unsent]
    /\ sweep = Resting
    /\ faults = 0

\* What a delivery does once it has arrived.
Handle(q) ==
    \/ Claim(q) \/ Duplicate(q) \/ Write(q) \/ Commit(q)

\* What the scheduler does by itself.
Proceed ==
    \/ SweepBegin \/ SweepList \/ SweepFire \/ SweepCommit
    \/ \E r \in Records : SweepSkip(r) \/ SweepCheck(r)

Next ==
    \/ \E q \in Deliveries : Arrive(q) \/ Handle(q) \/ Abort(q)
    \/ Proceed \/ SweepLost \/ Tick

\* Handlers run, the ticker never stops.
Fairness ==
    /\ \A q \in Deliveries : WF_vars(Handle(q))
    /\ WF_vars(Proceed)

Spec == Init /\ [][Next]_vars /\ Fairness

-----------------------------------------------------------------------------
(* Properties. *)

\* Every variable keeps its type; the sweep has a record in hand exactly while
\* it is about to fire it.
TypeOK ==
    /\ event \in [guarded: BOOLEAN, schedule: Schedules]
    /\ clock \in 0 .. LastTick
    /\ row \in [Records -> RowStates]
    /\ claims \subseteq Keys
    /\ fired \in [Keys -> Nat] /\ refused \in [Keys -> Nat]
    /\ hooked \in [Records -> SUBSET Days]
    /\ swept \in [Records -> [Days -> Nat]]
    /\ tx \in [Deliveries -> Request]
    /\ sweep \in Sweep
    /\ faults \in 0 .. MaxFaults
    /\ sweep.at = "fire" <=> sweep.rec # None

\* A key is spent exactly when one delivery under it has committed, having
\* fired the event or having been refused, and never by two: neither retries
\* that overlap nor a delivery that was rolled back break the claim.
KeySettledOnce ==
    \A k \in Keys : fired[k] + refused[k] = IF k \in claims THEN 1 ELSE 0

\* The scheduler fires a record at most once per day of the database, also
\* when a sweep outlives midnight, was lost half-way, or lists rows that
\* webhooks change before it gets to them.
OncePerDay ==
    \A r \in Records, d \in Days : swept[r][d] <= 1

\* Every delivery is answered in the end, although deliveries wait for keys
\* and rows, and sweeps hold the rows of everything they have fired.
EveryDeliveryEnds ==
    \A q \in Deliveries : tx[q].at # "idle" ~> tx[q].at = "ended"

\* Once the last day has come and faults have stopped, every record due has
\* fired on that day, unless its condition no longer holds.
DueRecordsFire ==
    \A r \in Records :
        clock = LastTick /\ r \in DueAt(LastTick) ~>
            \/ LocalDay(LastTick) \in hooked[r]
            \/ swept[r][LocalDay(LastTick)] > 0
            \/ event.guarded /\ row[r] = "fired"

\* What the code says of a spent key: the delivery is told 200 without firing
\* because the event has fired under it before.
DuplicatesHaveFired ==
    \A q \in Deliveries : tx[q].at = "duplicate" => fired[tx[q].key] > 0

=============================================================================
