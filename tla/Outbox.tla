-------------------------------- MODULE Outbox --------------------------------
(***************************************************************************)
(* The transactional outbox (CAP-W06) of one workspace: requests insert    *)
(* action_outbox rows inside their own transaction, dispatchers claim rows *)
(* in batches and perform the notification or subscription they describe.  *)
(*                                                                         *)
(* A dispatcher works in one transaction per tick, with a savepoint around *)
(* each item.  Its statements touch rows no other transaction can lock, so *)
(* what matters of their interleaving is which of them have happened when  *)
(* the transaction commits, breaks or is lost.                             *)
(***************************************************************************)
EXTENDS Integers, FiniteSets

CONSTANTS
    Items,        \* outbox rows, inserted or yet to be
    Requests,     \* the requests that insert them
    Dispatchers,  \* dispatcher loops (one per server process)
    BatchSize,    \* outboxBatchSize
    MaxFaults,    \* bound: failing statements and lost connections
    None          \* no item

ASSUME OutboxAssumption ==
    /\ IsFiniteSet(Requests)
    /\ BatchSize \in Nat \ {0}
    /\ MaxFaults \in Nat
    /\ None \notin Items

VARIABLES
    request,  \* the state of each request's transaction
    inserted, \* the rows each request has inserted
    stamp,    \* the time each request's transaction began: their created_at
    row,      \* committed state of each row: its claimed/completed/failed_at
    effects,  \* committed notifications or records made for each row
    disp,     \* each dispatcher's tick
    faults    \* faults so far

vars == <<request, inserted, stamp, row, effects, disp, faults>>

-----------------------------------------------------------------------------

\* A row that is "claimed" has claimed_at but neither of the other times.
RowStates == {"none", "queued", "claimed", "completed", "failed"}

\* todo: claimed items not yet started; item: the one in its savepoint and
\* whether its dispatch succeeded; done, failed, made: what the transaction
\* has written; broken: Postgres has aborted the transaction.
Tick == [at: {"idle", "items", "mark"}, todo: SUBSET Items,
         item: Items \cup {None}, ok: BOOLEAN, done: SUBSET Items,
         failed: SUBSET Items, made: SUBSET Items, broken: BOOLEAN]

Asleep == [at |-> "idle", todo |-> {}, item |-> None, ok |-> FALSE,
           done |-> {}, failed |-> {}, made |-> {}, broken |-> FALSE]

\* The rows a dispatcher's transaction has locked.
Batch(d) == disp[d].todo \cup disp[d].done \cup disp[d].failed
                         \cup ({disp[d].item} \ {None})

Queued == {i \in Items : row[i] = "queued"}

\* Mutant: the claim does not respect the locks of other dispatchers.
FreeWithoutLocks == Queued

\* What FOR UPDATE SKIP LOCKED lets a claim see.
Free == Queued \ UNION {Batch(d) : d \in Dispatchers}

\* created_at of a row that has been inserted.
Created(i) == stamp[CHOOSE r \in Requests : i \in inserted[r]]

Fault ==
    /\ faults < MaxFaults
    /\ faults' = faults + 1

-----------------------------------------------------------------------------
(* Requests. *)

Begun == {r \in Requests : request[r] # "idle"}

Begin(r) ==
    /\ request[r] = "idle"
    /\ request' = [request EXCEPT ![r] = "open"]
    /\ stamp' = [stamp EXCEPT ![r] = Cardinality(Begun) + 1]
    /\ UNCHANGED <<inserted, row, effects, disp, faults>>

\* Mutant: the row is inserted outside the request's transaction.
EnqueueAtOnce(r, i) ==
    /\ request[r] = "open"
    /\ \A q \in Requests : i \notin inserted[q]
    /\ inserted' = [inserted EXCEPT ![r] = @ \cup {i}]
    /\ row' = [row EXCEPT ![i] = "queued"]
    /\ UNCHANGED <<request, stamp, effects, disp, faults>>

\* doNotify or processSubscriptions inserts a row.
Enqueue(r, i) ==
    /\ request[r] = "open"
    /\ \A q \in Requests : i \notin inserted[q]
    /\ inserted' = [inserted EXCEPT ![r] = @ \cup {i}]
    /\ UNCHANGED <<request, stamp, row, effects, disp, faults>>

CommitRequest(r) ==
    /\ request[r] = "open"
    /\ request' = [request EXCEPT ![r] = "committed"]
    /\ row' = [i \in Items |-> IF i \in inserted[r] THEN "queued" ELSE row[i]]
    /\ UNCHANGED <<inserted, stamp, effects, disp, faults>>

\* A 5xx, or a commit that fails because a statement of the handler, its
\* error swallowed, has aborted the transaction: the rows never existed.
AbortRequest(r) ==
    /\ request[r] = "open"
    /\ request' = [request EXCEPT ![r] = "aborted"]
    /\ UNCHANGED <<inserted, stamp, row, effects, disp, faults>>

-----------------------------------------------------------------------------
(* Dispatchers. *)

\* Mutant: the claim commits by itself, before the items are dispatched.
ClaimAtOnce(d) ==
    /\ disp[d].at = "idle"
    /\ \E B \in SUBSET Free \ {{}} :
        /\ Cardinality(B) <= BatchSize
        /\ disp' = [disp EXCEPT ![d] = [Asleep EXCEPT !.at = "items", !.todo = B]]
        /\ row' = [i \in Items |-> IF i \in B THEN "claimed" ELSE row[i]]
    /\ UNCHANGED <<request, inserted, stamp, effects, faults>>

\* ClaimBatch: the oldest free rows, at most BatchSize of them.
Claim(d) ==
    /\ disp[d].at = "idle"
    /\ \E B \in SUBSET Free \ {{}} :
        /\ Cardinality(B) <= BatchSize
        /\ B # Free => Cardinality(B) = BatchSize
        /\ \A i \in B, j \in Free \ B : Created(i) <= Created(j)
        /\ disp' = [disp EXCEPT ![d] = [Asleep EXCEPT !.at = "items", !.todo = B]]
    /\ UNCHANGED <<request, inserted, stamp, row, effects, faults>>

\* dispatchOutboxItem inside a savepoint; RETURNING promises no order.
Dispatch(d) ==
    /\ disp[d].at = "items" /\ ~disp[d].broken
    /\ \E i \in disp[d].todo, ok \in BOOLEAN :
        disp' = [disp EXCEPT ![d].at = "mark", ![d].item = i, ![d].ok = ok,
                             ![d].todo = @ \ {i}]
    /\ UNCHANGED <<request, inserted, stamp, row, effects, faults>>

\* Mutant: the dispatch wrote outside the tick's transaction.
MarkCompletedAtOnce(d) ==
    /\ disp[d].at = "mark" /\ disp[d].ok /\ ~disp[d].broken
    /\ effects' = [effects EXCEPT ![disp[d].item] = @ + 1]
    /\ disp' = [disp EXCEPT ![d].at = "items", ![d].item = None,
                            ![d].done = @ \cup {disp[d].item}]
    /\ UNCHANGED <<request, inserted, stamp, row, faults>>

\* The savepoint is released and the row marked completed ...
MarkCompleted(d) ==
    /\ disp[d].at = "mark" /\ disp[d].ok /\ ~disp[d].broken
    /\ disp' = [disp EXCEPT ![d].at = "items", ![d].item = None,
                            ![d].made = @ \cup {disp[d].item},
                            ![d].done = @ \cup {disp[d].item}]
    /\ UNCHANGED <<request, inserted, stamp, row, effects, faults>>

\* Mutant: the savepoint is not rolled back.
MarkFailedKeepsWrites(d) ==
    /\ disp[d].at = "mark" /\ ~disp[d].ok /\ ~disp[d].broken
    /\ disp' = [disp EXCEPT ![d].at = "items", ![d].item = None,
                            ![d].made = @ \cup {disp[d].item},
                            ![d].failed = @ \cup {disp[d].item}]
    /\ UNCHANGED <<request, inserted, stamp, row, effects, faults>>

\* ... or it is rolled back and the row marked failed.
MarkFailed(d) ==
    /\ disp[d].at = "mark" /\ ~disp[d].ok /\ ~disp[d].broken
    /\ disp' = [disp EXCEPT ![d].at = "items", ![d].item = None,
                            ![d].failed = @ \cup {disp[d].item}]
    /\ UNCHANGED <<request, inserted, stamp, row, effects, faults>>

\* A statement outside the savepoint fails (opening or releasing it, marking
\* the row).  The loop logs it and goes on; Postgres refuses what follows.
StatementFails(d) ==
    /\ disp[d].at # "idle" /\ ~disp[d].broken
    /\ Fault
    /\ disp' = [disp EXCEPT ![d].broken = TRUE]
    /\ UNCHANGED <<request, inserted, stamp, row, effects>>

\* What the tick's COMMIT makes of a row.
After(d, i) ==
    IF i \in disp[d].done THEN "completed"
    ELSE IF i \in disp[d].failed THEN "failed"
    ELSE IF i \in Batch(d) THEN "claimed" ELSE row[i]

\* The loop is through.
CommitTick(d) ==
    /\ disp[d].at = "items" /\ disp[d].todo = {} /\ ~disp[d].broken
    /\ row' = [i \in Items |-> After(d, i)]
    /\ effects' = [i \in Items |-> IF i \in disp[d].made THEN effects[i] + 1
                                                         ELSE effects[i]]
    /\ disp' = [disp EXCEPT ![d] = Asleep]
    /\ UNCHANGED <<request, inserted, stamp, faults>>

\* Committing an aborted transaction rolls it back.
RollBackTick(d) ==
    /\ disp[d].broken
    /\ disp' = [disp EXCEPT ![d] = Asleep]
    /\ UNCHANGED <<request, inserted, stamp, row, effects, faults>>

\* The process or its connection is lost, or scanning the batch fails.
Crash(d) ==
    /\ disp[d].at # "idle"
    /\ Fault
    /\ disp' = [disp EXCEPT ![d] = Asleep]
    /\ UNCHANGED <<request, inserted, stamp, row, effects>>

-----------------------------------------------------------------------------
(* Specification. *)

Init ==
    /\ request = [r \in Requests |-> "idle"]
    /\ inserted = [r \in Requests |-> {}]
    /\ stamp = [r \in Requests |-> 0]
    /\ row = [i \in Items |-> "none"]
    /\ effects = [i \in Items |-> 0]
    /\ disp = [d \in Dispatchers |-> Asleep]
    /\ faults = 0

Produce(r) ==
    \/ Begin(r) \/ CommitRequest(r) \/ AbortRequest(r)
    \/ \E i \in Items : Enqueue(r, i)

\* What a dispatcher's loop does by itself.
Proceed(d) ==
    \/ Claim(d) \/ Dispatch(d) \/ MarkCompleted(d) \/ MarkFailed(d)
    \/ CommitTick(d) \/ RollBackTick(d)

Next ==
    \/ \E r \in Requests : Produce(r)
    \/ \E d \in Dispatchers : Proceed(d) \/ StatementFails(d) \/ Crash(d)

\* The ticker never stops.
Spec == Init /\ [][Next]_vars /\ \A d \in Dispatchers : WF_vars(Proceed(d))

-----------------------------------------------------------------------------
(* Properties. *)

\* Every variable keeps its type; a dispatcher has an item in hand exactly
\* while it has yet to mark it, and nothing at all between ticks.
TypeOK ==
    /\ request \in [Requests -> {"idle", "open", "committed", "aborted"}]
    /\ inserted \in [Requests -> SUBSET Items]
    /\ stamp \in [Requests -> Nat]
    /\ row \in [Items -> RowStates]
    /\ effects \in [Items -> Nat]
    /\ disp \in [Dispatchers -> Tick]
    /\ faults \in 0 .. MaxFaults
    /\ \A d \in Dispatchers :
        /\ disp[d].at = "mark" <=> disp[d].item # None
        /\ disp[d].at = "idle" => disp[d] = Asleep

\* A notification or record exists for a row exactly when the row says it
\* completed, and then it exists once: neither a crash between the dispatch
\* and its mark nor a second dispatcher loses or repeats it.
ExactlyOnce ==
    \A i \in Items : effects[i] = IF row[i] = "completed" THEN 1 ELSE 0

\* No row is left claimed without an outcome, which nothing would ever pick
\* up again: the loop's "log and continue" after a failed savepoint or mark
\* is safe because the whole batch is then given back.
NoLimbo == \A i \in Items : row[i] # "claimed"

\* Nothing is delivered on behalf of a request that did not commit.
OnlyCommitted ==
    \A r \in Requests : \A i \in inserted[r] :
        effects[i] > 0 => request[r] = "committed"

\* Two dispatchers never work on the same row.
ClaimsDisjoint ==
    \A c, d \in Dispatchers : c # d => Batch(c) \cap Batch(d) = {}

\* A row that has been queued is delivered or marked failed in the end, if
\* faults do not go on forever.
EveryRowSettles ==
    \A i \in Items : row[i] = "queued" ~> row[i] \in {"completed", "failed"}

\* The committed rows behave like the abstract delivery: no step of the
\* dispatcher or of a crash shows up as anything but publishing or settling.
AsDelivery == INSTANCE Delivery WITH
    pending   <- Queued,
    failed    <- {i \in Items : row[i] = "failed"},
    delivered <- effects

ImplementsDelivery == AsDelivery!Spec

=============================================================================
