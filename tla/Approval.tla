------------------------------- MODULE Approval -------------------------------
(***************************************************************************)
(* An approval document, its steps, and the HTTP requests that act on them *)
(* at the same time.                                                       *)
(*                                                                         *)
(* Every request runs in one Postgres transaction at READ COMMITTED        *)
(* (cmd/server/main.go, workspaceTx).  The handlers never lock a row they  *)
(* read: a statement sees what is committed at that moment plus the        *)
(* transaction's own writes, an UPDATE waits for the row's lock and then   *)
(* overwrites the whole row, and nothing is visible to others until the    *)
(* commit.  One action below is one statement of a handler together with   *)
(* the computation that follows it, so requests interleave exactly where   *)
(* the program lets them.                                                  *)
(*                                                                         *)
(* The rows are those of Case 3 (seeds/004_approval.sql and                *)
(* seeds/035_pdf_signature_lab.sql): one document, whose verdict is rolled *)
(* up from the decisions of its steps.  Steps of another document are      *)
(* filtered out by every handler, so one document is enough.               *)
(***************************************************************************)
EXTENDS Integers, FiniteSets

CONSTANTS
    Steps,        \* ids of Approval Step records, created or yet to be
    Initial,      \* the steps that already exist
    Sequence,     \* the Sequence field of the initial steps
    Sequences,    \* bound: the Sequence values a step's form submits
    MinApprovals, \* min_approvals of aggregate_status; 0 when not declared
    Requests,     \* HTTP requests, each sent at most once
    MaxOpen,      \* bound: request transactions open at the same time
    Doc,          \* the Approval Document record
    None          \* no request, no record

ASSUME ApprovalAssumption ==
    /\ IsFiniteSet(Steps)
    /\ Initial \subseteq Steps
    /\ Sequence \in [Initial -> Nat]
    /\ Sequences \subseteq Nat
    /\ MinApprovals \in Nat
    /\ MaxOpen \in Nat \ {0}
    /\ Doc \notin Steps
    /\ None \notin Steps \cup {Doc}
    /\ None \notin Requests

VARIABLES
    step,      \* committed row of each step
    doc,       \* committed document row
    audit,     \* committed record_events rows
    lock,      \* the transaction holding each row's lock
    tx,        \* the state of each request's handler and transaction
    reordered  \* history: a commit changed Approval Mode or a Sequence

vars == <<step, doc, audit, lock, tx, reordered>>

-----------------------------------------------------------------------------
(* Rows and messages. *)

Records   == Steps \cup {Doc}
Decisions == {"Absent", "Pending", "Approved", "Rejected"}
Statuses  == {"Draft", "In Review", "Approved", "Rejected", "Withdrawn"}
Modes     == {"Sequential", "Parallel"}
StepRow   == [decision: Decisions, seq: Nat]
DocRow    == [status: Statuses, mode: Modes, signed: SUBSET Steps]

\* No such row.
Nothing == [decision |-> "Absent", seq |-> 0]

NewDoc(status, mode) == [status |-> status, mode |-> mode, signed |-> {}]

StepEvents == {"approve", "reject"}
DocEvents  == {"submit", "withdraw"}
Verdicts   == {"docApprove", "docReject"}
Kinds      == StepEvents \cup DocEvents \cup {"edit", "create"}

\* A record_events row.  "seen" is a history field: for a verdict, the
\* siblings the rollup counted.
AuditRow == [by: Requests, rec: Records,
             event: StepEvents \cup DocEvents \cup Verdicts,
             seen: SUBSET Steps]

\* Where a handler stands: the statement it executes next.
Places == {"idle", "mode", "guard", "check", "sign", "stamp", "write",
           "rollup", "fetch", "cascade", "respond", "done"}

\* row and docRow are the handler's own copies (rec.Data, then newData);
\* they are the transaction's uncommitted version of a row in wrote.
Tx == [at: Places, event: Kinds \cup {"none"}, rec: Records \cup {None},
       row: StepRow, docRow: DocRow, wrote: SUBSET Records,
       rows: SUBSET AuditRow, verdict: Verdicts \cup {"none"},
       seen: SUBSET Steps]

Idle == [at |-> "idle", event |-> "none", rec |-> None, row |-> Nothing,
         docRow |-> NewDoc("Draft", "Parallel"), wrote |-> {}, rows |-> {},
         verdict |-> "none", seen |-> {}]

Done == [Idle EXCEPT !.at = "done"]

Log(r, x, e, s) == [by |-> r, rec |-> x, event |-> e, seen |-> s]

Open == {r \in Requests : tx[r].at \notin {"idle", "done"}}

Exists(s) == step[s].decision # "Absent"

-----------------------------------------------------------------------------
(* What a statement of transaction r reads: committed rows and its own. *)

StepSeenBy(r, s) ==
    IF s \in tx[r].wrote THEN tx[r].row ELSE step[s]

DocSeenBy(r) == IF Doc \in tx[r].wrote THEN tx[r].docRow ELSE doc

CanLock(r, x) == lock[x] \in {None, r}

\* The record whose row lock the next statement of r needs.
Needs(r) ==
    CASE tx[r].at \in {"stamp", "cascade"} -> Doc
      [] tx[r].at = "write"                -> tx[r].rec
      [] OTHER                             -> None

WaitsFor(r, q) == Needs(r) # None /\ lock[Needs(r)] = q /\ q # r

-----------------------------------------------------------------------------
(* Pure parts of the handlers. *)

\* Event conditions (CAP-E06), evaluated on the row as the handler read it.
StepCondition(row) == row.decision = "Pending"
DocCondition(row)  == row.status = "Draft"

NewDecision(e, d) ==
    CASE e = "approve" -> "Approved" [] e = "reject" -> "Rejected" [] OTHER -> d

\* The step row after event e.
Decide(row, e) == [row EXCEPT !.decision = NewDecision(e, @)]

NewStatus(e, status) ==
    CASE e = "submit"     -> "In Review"
      [] e = "withdraw"   -> "Withdrawn"
      [] e = "docApprove" -> "Approved"
      [] e = "docReject"  -> "Rejected"
      [] OTHER            -> status

\* The document row after event e.
Moved(row, e) == [row EXCEPT !.status = NewStatus(e, @)]

\* Mutant: the guard looks at the previous Sequence number only.
BlockedByPrevious(s, row) ==
    \E t \in Steps \ {s} : step[t].decision = "Pending" /\ step[t].seq = row.seq - 1

\* sequentialGuardViolation: a sibling with a lower Sequence than the row the
\* handler read is still Pending.
Blocked(s, row) ==
    \E t \in Steps \ {s} : step[t].decision = "Pending" /\ step[t].seq < row.seq

\* uniquenessViolations: another step of the document has this Sequence.
Taken(s, row) == \E t \in Steps \ {s} : Exists(t) /\ step[t].seq = row.seq

\* doAggregateStatus over siblings S, of which A are Approved and R Rejected.
Enough(A, S)  == IF MinApprovals > 0 THEN Cardinality(A) >= MinApprovals
                                     ELSE A = S
\* Mutant: rejected as soon as only just enough others are left.
TooManyAtLimit(R, S) == IF MinApprovals > 0
                        THEN Cardinality(R) >= Cardinality(S) - MinApprovals
                        ELSE R # {}
TooMany(R, S) == IF MinApprovals > 0
                 THEN Cardinality(R) > Cardinality(S) - MinApprovals
                 ELSE R # {}

\* Mutant: one approval approves.
VerdictOfOne(A, R, S) ==
    IF A # {} THEN "docApprove" ELSE IF TooMany(R, S) THEN "docReject" ELSE "none"

\* The order of the code's cases: with a quorum the approvals are looked at
\* first, without one the rejections are.
Verdict(A, R, S) ==
    IF MinApprovals > 0
    THEN IF Enough(A, S) THEN "docApprove"
         ELSE IF TooMany(R, S) THEN "docReject" ELSE "none"
    ELSE IF TooMany(R, S) THEN "docReject"
         ELSE IF Enough(A, S) THEN "docApprove" ELSE "none"

-----------------------------------------------------------------------------
(* A request arrives: the transaction begins and the record is read. *)

Start(r) ==
    /\ tx[r].at = "idle"
    /\ Cardinality(Open) < MaxOpen

Begin(r, e, x, at, row, docRow) ==
    /\ Start(r)
    /\ tx' = [tx EXCEPT ![r] = [Idle EXCEPT !.event = e, !.rec = x, !.at = at,
                                            !.row = row, !.docRow = docRow]]
    /\ UNCHANGED <<step, doc, audit, lock, reordered>>

\* TriggerEvent on a step.
TriggerStep(r, e, s) ==
    /\ Exists(s)
    /\ Begin(r, e, s, IF StepCondition(step[s]) THEN "mode" ELSE "respond",
             step[s], Idle.docRow)

\* TriggerEvent on the document.
TriggerDoc(r, e) ==
    Begin(r, e, Doc, IF DocCondition(doc) THEN "write" ELSE "respond",
          Nothing, doc)

\* Mutant: Decision is on the step's form.
EditStepDecision(r, s, q) ==
    /\ Exists(s)
    /\ Begin(r, "edit", s, "check", [decision |-> "Approved", seq |-> q], Idle.docRow)

\* Update: the form's fields over the row as read.  Sequence is on the
\* step's form and Approval Mode on the document's; Decision, Status and the
\* signed file are on neither, and are written back as they were read.
EditStep(r, s, q) ==
    /\ Exists(s)
    /\ Begin(r, "edit", s, "check", [step[s] EXCEPT !.seq = q], Idle.docRow)

EditDoc(r, m) ==
    Begin(r, "edit", Doc, "write", Nothing, [doc EXCEPT !.mode = m])

\* Create, as the step's form submits it: Decision is not on the form and
\* starts at its first declared value.
CreateStep(r, s, q) ==
    /\ ~Exists(s)
    /\ \A p \in Open : tx[p].rec # s
    /\ Begin(r, "create", s, "check", [decision |-> "Pending", seq |-> q],
             Idle.docRow)

-----------------------------------------------------------------------------
(* The checks before anything is written. *)

GoTo(r, place) ==
    /\ tx' = [tx EXCEPT ![r].at = place]
    /\ UNCHANGED <<step, doc, audit, lock, reordered>>

\* The sequential guard, or a rule about fields this model does not keep
\* (separation of duties, a constraint, a reference) refuses the request:
\* a 400, or the form again, and nothing is written.
Refuse(r) ==
    /\ \/ tx[r].at \in {"mode", "guard", "check"}
       \/ tx[r].at = "write" /\ tx[r].rec = Doc
    /\ GoTo(r, "respond")

\* Approving a step that has a signature placement (CAP-F22) signs first.
Accept(r) ==
    \/ GoTo(r, "write")
    \/ tx[r].event = "approve" /\ GoTo(r, "sign")

\* sequentialGuardViolation reads the document ...
ReadMode(r) ==
    /\ tx[r].at = "mode"
    /\ IF doc.mode = "Sequential" THEN GoTo(r, "guard") ELSE Accept(r)

\* ... and then the siblings.
PassGuard(r) ==
    /\ tx[r].at = "guard"
    /\ ~Blocked(tx[r].rec, tx[r].row)
    /\ Accept(r)

\* Mutant: only Create looks for another step at the same Sequence.
CheckCreatedSequence(r) ==
    /\ tx[r].at = "check"
    /\ GoTo(r, IF tx[r].event = "create" /\ Taken(tx[r].rec, tx[r].row)
               THEN "respond" ELSE "write")

\* Create and Update look for another step at the same Sequence.
CheckSequence(r) ==
    /\ tx[r].at = "check"
    /\ GoTo(r, IF Taken(tx[r].rec, tx[r].row) THEN "respond" ELSE "write")

-----------------------------------------------------------------------------
(* Persist: the actions of the event, then the record, then the audit row. *)

\* doCompositeSignature reads the document ...
Sign(r) ==
    /\ tx[r].at = "sign"
    /\ tx' = [tx EXCEPT ![r].docRow = DocSeenBy(r), ![r].at = "stamp"]
    /\ UNCHANGED <<step, doc, audit, lock, reordered>>

\* ... and writes back the row it read, with its own signature added.
Stamp(r) ==
    /\ tx[r].at = "stamp"
    /\ CanLock(r, Doc)
    /\ lock' = [lock EXCEPT ![Doc] = r]
    /\ tx' = [tx EXCEPT ![r].docRow.signed = @ \cup {tx[r].rec},
                        ![r].wrote = @ \cup {Doc}, ![r].at = "write"]
    /\ UNCHANGED <<step, doc, audit, reordered>>

WriteStep(r) ==
    /\ tx[r].at = "write" /\ tx[r].rec \in Steps
    /\ CanLock(r, tx[r].rec)
    /\ lock' = [lock EXCEPT ![tx[r].rec] = r]
    /\ tx' = [tx EXCEPT ![r].row = Decide(@, tx[r].event),
                        ![r].wrote = @ \cup {tx[r].rec},
                        ![r].rows = IF tx[r].event \in StepEvents
                                    THEN @ \cup {Log(r, tx[r].rec, tx[r].event, {})}
                                    ELSE @,
                        ![r].at = IF tx[r].event \in StepEvents
                                  THEN "rollup" ELSE "respond"]
    /\ UNCHANGED <<step, doc, audit, reordered>>

WriteDoc(r) ==
    /\ tx[r].at = "write" /\ tx[r].rec = Doc
    /\ CanLock(r, Doc)
    /\ lock' = [lock EXCEPT ![Doc] = r]
    /\ tx' = [tx EXCEPT ![r].docRow = Moved(@, tx[r].event),
                        ![r].wrote = @ \cup {Doc},
                        ![r].rows = IF tx[r].event \in DocEvents
                                    THEN @ \cup {Log(r, Doc, tx[r].event, {})}
                                    ELSE @,
                        ![r].at = "respond"]
    /\ UNCHANGED <<step, doc, audit, reordered>>

-----------------------------------------------------------------------------
(* runWorkflowActions: doAggregateStatus, inside the same transaction. *)

\* Mutant: the siblings are read outside the request's transaction.
RollupCommitted(r) ==
    /\ tx[r].at = "rollup"
    /\ LET S == {s \in Steps : Exists(s)}
           A == {s \in S : step[s].decision = "Approved"}
           R == {s \in S : step[s].decision = "Rejected"}
           v == Verdict(A, R, S)
       IN tx' = [tx EXCEPT ![r].verdict = v, ![r].seen = S,
                           ![r].at = IF v = "none" THEN "respond" ELSE "fetch"]
    /\ UNCHANGED <<step, doc, audit, lock, reordered>>

\* Count the siblings' decisions and choose the document's event, if any.
Rollup(r) ==
    /\ tx[r].at = "rollup"
    /\ LET S == {s \in Steps : StepSeenBy(r, s).decision # "Absent"}
           A == {s \in S : StepSeenBy(r, s).decision = "Approved"}
           R == {s \in S : StepSeenBy(r, s).decision = "Rejected"}
           v == Verdict(A, R, S)
       IN tx' = [tx EXCEPT ![r].verdict = v, ![r].seen = S,
                           ![r].at = IF v = "none" THEN "respond" ELSE "fetch"]
    /\ UNCHANGED <<step, doc, audit, lock, reordered>>

\* Read the document; its event is refused (and the refusal swallowed)
\* unless the row read is In Review.
Fetch(r) ==
    /\ tx[r].at = "fetch"
    /\ tx' = [tx EXCEPT ![r].docRow = DocSeenBy(r),
                        ![r].at = IF DocSeenBy(r).status = "In Review"
                                  THEN "cascade" ELSE "respond"]
    /\ UNCHANGED <<step, doc, audit, lock, reordered>>

\* Mutant: the document's event leaves no audit row.
CascadeUnlogged(r) ==
    /\ tx[r].at = "cascade"
    /\ CanLock(r, Doc)
    /\ lock' = [lock EXCEPT ![Doc] = r]
    /\ tx' = [tx EXCEPT ![r].docRow = Moved(@, tx[r].verdict),
                        ![r].wrote = @ \cup {Doc}, ![r].at = "respond"]
    /\ UNCHANGED <<step, doc, audit, reordered>>

\* Persist of the document's event.
Cascade(r) ==
    /\ tx[r].at = "cascade"
    /\ CanLock(r, Doc)
    /\ lock' = [lock EXCEPT ![Doc] = r]
    /\ tx' = [tx EXCEPT ![r].docRow = Moved(@, tx[r].verdict),
                        ![r].wrote = @ \cup {Doc},
                        ![r].rows = @ \cup {Log(r, Doc, tx[r].verdict, tx[r].seen)},
                        ![r].at = "respond"]
    /\ UNCHANGED <<step, doc, audit, reordered>>

-----------------------------------------------------------------------------
(* workspaceTx: the end of the request. *)

\* Mutant: the transaction is left open.
ReleaseNothing(r) == tx[r].at # "idle" /\ UNCHANGED lock

Release(r) == lock' = [x \in Records |-> IF lock[x] = r THEN None ELSE lock[x]]

\* Whether r's commit changes what the sequential guard goes by.
Reorders(r) ==
    \/ DocSeenBy(r).mode # doc.mode
    \/ \E s \in Steps : Exists(s) /\ StepSeenBy(r, s).seq # step[s].seq

\* Any status below 500, a refusal included, commits.
Commit(r) ==
    /\ tx[r].at = "respond"
    /\ step' = [s \in Steps |-> StepSeenBy(r, s)]
    /\ doc' = DocSeenBy(r)
    /\ audit' = audit \cup tx[r].rows
    /\ reordered' = (reordered \/ Reorders(r))
    /\ Release(r)
    /\ tx' = [tx EXCEPT ![r] = Done]

EndWithoutEffect(r) ==
    /\ Release(r)
    /\ tx' = [tx EXCEPT ![r] = Done]
    /\ UNCHANGED <<step, doc, audit, reordered>>

\* Mutant: the cascade is committed on its own.
RollBackKeepsCascade(r) ==
    /\ r \in Open
    /\ audit' = audit \cup {a \in tx[r].rows : a.event \in Verdicts}
    /\ doc' = DocSeenBy(r)
    /\ Release(r)
    /\ tx' = [tx EXCEPT ![r] = Done]
    /\ UNCHANGED <<step, reordered>>

\* A 5xx, a panic, a lost connection, a cancelled request or a statement of
\* the cascade failing (its error is swallowed, but Postgres has aborted the
\* transaction and the commit fails): everything is discarded.
RollBack(r) == r \in Open /\ EndWithoutEffect(r)

\* Two transactions waiting for each other's row: Postgres fails one.
BreakDeadlock(r) ==
    /\ r \in Open
    /\ \E q \in Open : WaitsFor(r, q) /\ WaitsFor(q, r)
    /\ EndWithoutEffect(r)

-----------------------------------------------------------------------------
(* Specification. *)

Init ==
    /\ step = [s \in Steps |->
                IF s \in Initial THEN [decision |-> "Pending", seq |-> Sequence[s]]
                                 ELSE Nothing]
    /\ \E status \in {"Draft", "In Review"}, mode \in Modes : doc = NewDoc(status, mode)
    /\ audit = {}
    /\ lock = [x \in Records |-> None]
    /\ tx = [r \in Requests |-> Idle]
    /\ reordered = FALSE

Arrive(r) ==
    \/ \E s \in Steps, e \in StepEvents : TriggerStep(r, e, s)
    \/ \E e \in DocEvents : TriggerDoc(r, e)
    \/ \E s \in Steps : \E q \in Sequences \cup {step[s].seq} : EditStep(r, s, q)
    \/ \E m \in Modes : EditDoc(r, m)
    \/ \E s \in Steps, q \in Sequences : CreateStep(r, s, q)

Proceed(r) ==
    \/ ReadMode(r) \/ PassGuard(r) \/ CheckSequence(r) \/ Sign(r) \/ Stamp(r)
    \/ WriteStep(r) \/ WriteDoc(r) \/ Rollup(r) \/ Fetch(r) \/ Cascade(r)
    \/ Commit(r)

Next == \E r \in Requests :
            Arrive(r) \/ Proceed(r) \/ Refuse(r) \/ RollBack(r) \/ BreakDeadlock(r)

RefuseBlocked(r) ==
    /\ tx[r].at = "guard"
    /\ Blocked(tx[r].rec, tx[r].row)
    /\ Refuse(r)

\* A handler keeps running, a blocked sequential guard refuses, Postgres
\* detects deadlocks.  Users need not send anything and nothing needs to fail.
Fairness == \A r \in Requests :
    /\ WF_vars(Proceed(r))
    /\ WF_vars(RefuseBlocked(r))
    /\ WF_vars(BreakDeadlock(r))

Spec == Init /\ [][Next]_vars /\ Fairness

-----------------------------------------------------------------------------
(* Properties that concurrent requests preserve. *)

\* Every variable keeps its type; a row is locked by an open transaction only.
TypeOK ==
    /\ step \in [Steps -> StepRow]
    /\ doc \in DocRow
    /\ audit \subseteq AuditRow
    /\ lock \in [Records -> Requests \cup {None}]
    /\ tx \in [Requests -> Tx]
    /\ reordered \in BOOLEAN
    /\ \A x \in Records : lock[x] # None => lock[x] \in Open

\* A committed event row of kind e about record x.
Happened(e, x) == \E a \in audit : a.event = e /\ a.rec = x

Voted(e, S) == {s \in S : Happened(e, s)}

Decided(s) == \E e \in StepEvents : Happened(e, s)

\* A step that reads Approved or Rejected was decided by an event that is on
\* the audit trail, whatever edits, creations and rollbacks surround it: the
\* whole-row writes of Update and of Persist carry no decision that was not
\* committed together with its LogEvent row.
DecisionBackedByAudit ==
    \A s \in Steps :
        /\ step[s].decision = "Approved" => Happened("approve", s)
        /\ step[s].decision = "Rejected" => Happened("reject", s)

\* A verdict on the document is justified by recorded decisions: enough of
\* the siblings the rollup counted have an approve event (docApprove), or so
\* many have a reject event that the quorum is out of reach (docReject).  The
\* rollup counts rows of other requests that may be half way through theirs.
VerdictBacked ==
    \A a \in audit :
        /\ a.event = "docApprove" => Enough(Voted("approve", a.seen), a.seen)
        /\ a.event = "docReject"  => TooMany(Voted("reject", a.seen), a.seen)

\* The status the document shows was put there by an event on the audit
\* trail: no interleaving of edits, signatures and rollups makes it up.
StatusBacked ==
    /\ doc.status = "Approved"  => Happened("docApprove", Doc)
    /\ doc.status = "Rejected"  => Happened("docReject", Doc)
    /\ doc.status = "Withdrawn" => Happened("withdraw", Doc)

\* Two rollups over the same siblings reach opposite verdicts only if some
\* sibling was both approved and rejected (two requests deciding one step from
\* the same Pending row): the two thresholds of min_approvals leave no gap in
\* which honest votes justify both.
VerdictsExclusive ==
    \A a, b \in audit :
        (/\ a.event = "docApprove" /\ b.event = "docReject"
         /\ a.seen = b.seen /\ MinApprovals <= Cardinality(a.seen))
        => Voted("approve", a.seen) \cap Voted("reject", a.seen) # {}

\* In Sequential mode a step is decided only after every step that precedes
\* it in Sequence has been, although the guard's reads and the decision's
\* write are separate statements and other requests act between them.  (A
\* step added later with a lower Sequence is not promised anything, and the
\* promise ends when somebody edits Approval Mode or a step's Sequence.)
SequentialOrder ==
    ~reordered /\ doc.mode = "Sequential" =>
        \A s \in Steps, t \in Initial :
            step[t].seq < step[s].seq /\ Decided(s) => Decided(t)

\* A verdict commits together with the step decision that caused it: the
\* cascade of doAggregateStatus never survives its request's rollback.
CascadeSharesRequest ==
    \A a \in audit : a.event \in Verdicts =>
        \E b \in audit : b.by = a.by /\ b.event \in StepEvents

\* Every request ends, although handlers take the document's and a step's
\* row locks in both orders: the only cycles are pairs, and those are broken.
EveryRequestEnds ==
    \A r \in Requests : tx[r].at \notin {"idle", "done"} ~> tx[r].at = "done"

-----------------------------------------------------------------------------
(* What comments of the code say, and concurrency or ordering refutes. *)

Quiet == Open = {}

Standing(d) == {s \in Steps : step[s].decision = d}

Present == {s \in Steps : Exists(s)}

\* events.go:627-631: the rollup fires the parent's event once all siblings
\* are Approved.  Whenever a decision has committed and no request is open, a
\* document under review whose steps are all Approved has been rolled up.
\* Only states where the review began before the decisions are considered.
RollupComplete ==
    (/\ Quiet /\ doc.status = "In Review" /\ ~Happened("submit", Doc)
     /\ Present # {} /\ Enough(Standing("Approved"), Present))
    => Happened("docApprove", Doc)

-----------------------------------------------------------------------------
(* One request at a time. *)

\* The abstract document, as the committed rows show it.
AsVerdict == INSTANCE Verdict WITH
    approved  <- Standing("Approved"),
    rejected  <- Standing("Rejected"),
    signed    <- doc.signed,
    status    <- doc.status,
    Threshold <- IF MinApprovals > 0 THEN MinApprovals ELSE Cardinality(Steps)

\* When every step exists from the start and requests do not overlap, each
\* commit is one step of the abstract document or changes nothing: the rollup
\* runs exactly when it should, and with the right event.
ImplementsVerdict == AsVerdict!Spec

\* No two steps share a Sequence, the order the sequential guard goes by:
\* CAP-C12 reads the other steps before it writes, so the promise needs
\* requests that do not overlap.
UniqueSequence ==
    \A s, t \in Present : s # t => step[s].seq # step[t].seq

\* The abstract document's promise about verdicts, of the committed rows.
VerdictFinal == AsVerdict!Final

=============================================================================
