---------------------------- MODULE ApprovalProofs ----------------------------
(***************************************************************************)
(* What holds of approvals decided by any number of concurrent requests,   *)
(* for any set of steps, any order, quorum and signature placement.        *)
(*                                                                         *)
(* The argument: whatever a request has read or is about to write is       *)
(* justified by its trail, the committed audit rows and its own.  Trails   *)
(* only grow and every judgement about a trail survives growth, so other   *)
(* requests' commits disturb nothing, stale reads included.                *)
(*                                                                         *)
(* Then who waits for whom: a circle of waiting requests always contains   *)
(* two that wait for each other.  Last, requests that do not overlap: an   *)
(* open request works on the committed rows, every commit is a step of     *)
(* Verdict or changes nothing, and Sequences stay unique.                  *)
(***************************************************************************)
EXTENDS Approval, FiniteSetTheorems, TLAPS

Happens(e, x, T) == \E a \in T : a.event = e /\ a.rec = x

Trail(r) == audit \cup tx[r].rows

StepBacked(s, d, T) ==
    /\ d = "Approved" => Happens("approve", s, T)
    /\ d = "Rejected" => Happens("reject", s, T)

DocBacked(status, T) ==
    /\ status = "Approved"  => Happens("docApprove", Doc, T)
    /\ status = "Rejected"  => Happens("docReject", Doc, T)
    /\ status = "Withdrawn" => Happens("withdraw", Doc, T)

\* In these rows, every initial step with a lower Sequence has been decided.
InOrder(rows, s, T) ==
    \A t \in Initial : rows[t].seq < rows[s].seq => \E e \in StepEvents : Happens(e, t, T)

\* The votes for e on record among S.
VotedIn(e, S, T) == {s \in S : Happens(e, s, T)}

Justified(a, T) ==
    /\ a.event = "docApprove" => Enough(VotedIn("approve", a.seen, T), a.seen)
    /\ a.event = "docReject"  => TooMany(VotedIn("reject", a.seen, T), a.seen)
    /\ a.event \in Verdicts   => \E b \in T : b.by = a.by /\ b.event \in StepEvents

Orderly(a, T) == a.event \in StepEvents => InOrder(step, a.rec, T)

\* Sequential mode with nothing the guard goes by changed so far.
Strict == ~reordered /\ doc.mode = "Sequential"

\* A decision is about a step that exists.
OfExisting(a) == a.event \in StepEvents => a.rec \in Steps /\ Exists(a.rec)

\* While Sequences stand, nobody acts on an outdated one.
KnowsPlace(r) ==
    tx[r].event \in StepEvents /\ tx[r].rec \in Steps =>
        /\ Exists(tx[r].rec)
        /\ ~reordered => tx[r].row.seq = step[tx[r].rec].seq

\* A request half way through is in one of the places its event leads to,
\* and everything it knows and does is justified by its trail.
InFlight(r) ==
    /\ tx[r].wrote \cap Steps \subseteq {tx[r].rec}
    /\ tx[r].rec \in Steps => tx[r].row.decision # "Absent"
    /\ KnowsPlace(r)
    /\ tx[r].at \in {"mode", "guard", "sign", "stamp", "rollup", "fetch", "cascade"} =>
            tx[r].event \in StepEvents /\ tx[r].rec \in Steps
    /\ tx[r].at = "check" => tx[r].event \notin StepEvents
    /\ StepBacked(tx[r].rec, tx[r].row.decision, Trail(r))
    /\ DocBacked(tx[r].docRow.status, Trail(r))
    /\ \A a \in tx[r].rows : a.by = r /\ Justified(a, Trail(r)) /\ OfExisting(a)
    /\ Strict =>
            /\ \A a \in tx[r].rows : Orderly(a, Trail(r))
            /\ tx[r].at \in {"sign", "stamp", "write"} /\ tx[r].event \in StepEvents
                    /\ tx[r].rec \in Steps => InOrder(step, tx[r].rec, Trail(r))
    /\ tx[r].at \in {"rollup", "fetch", "cascade"} =>
            \E a \in tx[r].rows : a.event \in StepEvents
    /\ tx[r].at \in {"fetch", "cascade"} =>
            /\ tx[r].verdict \in Verdicts
            /\ Justified(Log(r, Doc, tx[r].verdict, tx[r].seen), Trail(r))

Settled ==
    /\ \A s \in Steps : StepBacked(s, step[s].decision, audit)
    /\ DocBacked(doc.status, audit)
    /\ \A s \in Initial : Exists(s)
    /\ \A a \in audit : Justified(a, audit) /\ OfExisting(a)
    /\ Strict => \A a \in audit : Orderly(a, audit)

IInv == TypeOK /\ Settled /\ \A r \in Requests : InFlight(r)

-----------------------------------------------------------------------------
(* Judgements about a trail survive its growth. *)

\* More approvals are enough if fewer were.
LEMMA EnoughMonotone ==
  ASSUME NEW S \in SUBSET Steps, NEW B \in SUBSET S, NEW A \in SUBSET B, Enough(A, S)
  PROVE  Enough(B, S)
  <1>1. IsFiniteSet(B) /\ IsFiniteSet(A)
    BY ApprovalAssumption, FS_Subset
  <1>2. /\ Cardinality(A) \in Nat /\ Cardinality(B) \in Nat
        /\ Cardinality(A) <= Cardinality(B)
    BY <1>1, FS_Subset, FS_CardinalityType
  <1> QED
    BY <1>2, ApprovalAssumption DEF Enough

\* More rejections are too many if fewer were.
LEMMA TooManyMonotone ==
  ASSUME NEW S \in SUBSET Steps, NEW B \in SUBSET S, NEW R \in SUBSET B, TooMany(R, S)
  PROVE  TooMany(B, S)
  <1>1. IsFiniteSet(B) /\ IsFiniteSet(R) /\ IsFiniteSet(S)
    BY ApprovalAssumption, FS_Subset
  <1>2. /\ Cardinality(R) \in Nat /\ Cardinality(B) \in Nat /\ Cardinality(S) \in Nat
        /\ Cardinality(R) <= Cardinality(B)
    BY <1>1, FS_Subset, FS_CardinalityType
  <1> QED
    BY <1>2, ApprovalAssumption DEF TooMany

\* A justification stays one on a longer trail.
LEMMA JustifiedMonotone ==
  ASSUME NEW U, NEW T \in SUBSET U, NEW a \in AuditRow, Justified(a, T)
  PROVE  Justified(a, U)
  <1>1. a.seen \in SUBSET Steps
    BY DEF AuditRow
  <1>2. a.event = "docApprove" => Enough(VotedIn("approve", a.seen, U), a.seen)
    <2>1. VotedIn("approve", a.seen, T) \subseteq VotedIn("approve", a.seen, U)
      BY DEF VotedIn, Happens
    <2> QED
      BY <1>1, <2>1, EnoughMonotone DEF Justified, VotedIn
  <1>3. a.event = "docReject" => TooMany(VotedIn("reject", a.seen, U), a.seen)
    <2>1. VotedIn("reject", a.seen, T) \subseteq VotedIn("reject", a.seen, U)
      BY DEF VotedIn, Happens
    <2> QED
      BY <1>1, <2>1, TooManyMonotone DEF Justified, VotedIn
  <1>4. a.event \in Verdicts => \E b \in U : b.by = a.by /\ b.event \in StepEvents
    BY DEF Justified
  <1> QED
    BY <1>2, <1>3, <1>4 DEF Justified

\* What a commit keeps: steps stay, and unless it reorders, Approval Mode and
\* the Sequences stand.
Keeps ==
    /\ audit \subseteq audit'
    /\ \A s \in Steps : Exists(s) => Exists(s)'
    /\ ~reordered' =>
        /\ ~reordered
        /\ doc'.mode = doc.mode
        /\ \A s \in Steps : Exists(s) => step'[s].seq = step[s].seq

\* A request keeps its justifications while others commit theirs.
LEMMA OthersCommit ==
  ASSUME TypeOK, Settled, NEW r \in Requests, InFlight(r), tx'[r] = tx[r], Keeps
  PROVE  InFlight(r)'
  <1>1. Trail(r) \subseteq Trail(r)'
    BY DEF Trail, Keeps
  <1>2. tx[r].rows \subseteq AuditRow
    BY DEF TypeOK, Tx
  <1>3. tx[r].verdict \in Verdicts => Log(r, Doc, tx[r].verdict, tx[r].seen) \in AuditRow
    BY DEF TypeOK, Tx, Log, AuditRow, Records, Verdicts
  <1>4. \A a \in AuditRow : Justified(a, Trail(r)) => Justified(a, Trail(r)')
    BY <1>1, JustifiedMonotone
  <1>5. Strict' => Strict /\ \A s \in Steps : Exists(s) /\ InOrder(step, s, Trail(r))
                                             => InOrder(step', s, Trail(r)')
    <2> SUFFICES ASSUME Strict', NEW s \in Steps, Exists(s), InOrder(step, s, Trail(r))
                 PROVE  InOrder(step', s, Trail(r)')
      BY DEF Strict, Keeps
    <2>1. \A t \in Initial \cup {s} : step'[t].seq = step[t].seq
      BY ApprovalAssumption DEF Strict, Keeps, Settled
    <2> QED
      BY <1>1, <2>1 DEF InOrder, Happens
  <1>6. /\ StepBacked(tx[r].rec, tx[r].row.decision, Trail(r)')
        /\ DocBacked(tx[r].docRow.status, Trail(r)')
    BY <1>1 DEF InFlight, StepBacked, DocBacked, Happens
  <1>7. KnowsPlace(r)'
    BY DEF InFlight, KnowsPlace, Keeps
  <1>8. \A a \in tx[r].rows : OfExisting(a)'
    BY DEF InFlight, OfExisting, Keeps
  <1>9. Strict' =>
          /\ \A a \in tx[r].rows : Orderly(a, Trail(r))'
          /\ tx[r].at \in {"sign", "stamp", "write"} /\ tx[r].event \in StepEvents
                /\ tx[r].rec \in Steps => InOrder(step', tx[r].rec, Trail(r)')
    BY <1>5 DEF InFlight, Orderly, OfExisting, KnowsPlace
  <1> QED
    BY <1>2, <1>3, <1>4, <1>6, <1>7, <1>8, <1>9 DEF InFlight

-----------------------------------------------------------------------------
(* Steps inside a transaction: nothing is committed. *)

Inside(r) ==
    \/ Refuse(r) \/ ReadMode(r) \/ PassGuard(r) \/ CheckSequence(r) \/ Sign(r)
    \/ Stamp(r) \/ WriteStep(r) \/ WriteDoc(r) \/ Rollup(r) \/ Fetch(r) \/ Cascade(r)

\* Such a step changes the request's own state and may take a row lock.
LEMMA LocalFrame ==
  ASSUME TypeOK, NEW r \in Requests, Arrive(r) \/ Inside(r)
  PROVE  /\ UNCHANGED <<step, doc, audit, reordered>>
         /\ DOMAIN tx' = Requests
         /\ tx' = [tx EXCEPT ![r] = tx'[r]]
         /\ \A q \in Requests \ {r} : tx'[q] = tx[q]
         /\ \/ lock' = lock
            \/ tx[r].at \in {"stamp", "write", "cascade"}
               /\ \E x \in Records : lock' = [lock EXCEPT ![x] = r]
  <1>1. CASE Arrive(r)
    BY <1>1 DEF Arrive, TriggerStep, TriggerDoc, EditStep, EditDoc, CreateStep, Begin, TypeOK
  <1>2. CASE Inside(r)
    BY <1>2 DEF Inside, Refuse, ReadMode, PassGuard, CheckSequence, Accept, GoTo, Sign,
                Stamp, WriteStep, WriteDoc, Rollup, Fetch, Cascade, TypeOK, Records
  <1> QED
    BY <1>1, <1>2

LEMMA IdleTx == Idle \in Tx
  <1>1. Idle.docRow \in DocRow /\ Nothing \in StepRow
    BY DEF Idle, NewDoc, DocRow, Statuses, Modes, Nothing, StepRow, Decisions
  <1> QED
    BY <1>1 DEF Idle, Tx, Places

LEMMA MovedType ==
  ASSUME NEW row \in DocRow, NEW e PROVE Moved(row, e) \in DocRow
  <1>1. NewStatus(e, row.status) \in Statuses
    BY DEF NewStatus, DocRow, Statuses
  <1> QED
    BY <1>1 DEF Moved, DocRow

LEMMA DecideType ==
  ASSUME NEW row \in StepRow, NEW e PROVE Decide(row, e) \in StepRow
  <1>1. NewDecision(e, row.decision) \in Decisions
    BY DEF NewDecision, StepRow, Decisions
  <1> QED
    BY <1>1 DEF Decide, StepRow

\* What the arrival of a request is: a copy of the row it is about, changed
\* by nothing but a form.
LEMMA Arrival ==
  ASSUME TypeOK, NEW r \in Requests, Arrive(r)
  PROVE  \E e \in Kinds, x \in Records, row \in StepRow, docRow \in DocRow,
            at \in {"mode", "check", "write", "respond"} :
            /\ Begin(r, e, x, at, row, docRow)
            /\ x \in Steps => /\ row.decision # "Absent" /\ docRow = Idle.docRow
                             /\ \/ row.decision = step[x].decision
                                \/ row.decision = "Pending"
            /\ x = Doc => row = Nothing /\ docRow.status = doc.status
            /\ e \in StepEvents => x \in Steps /\ row = step[x] /\ at \notin {"write", "check"}
            /\ at = "mode" => e \in StepEvents
  <1>0. /\ step \in [Steps -> StepRow] /\ doc \in DocRow /\ Doc \notin Steps
        /\ Idle.docRow \in DocRow /\ Nothing \in StepRow /\ Sequences \subseteq Nat
    BY ApprovalAssumption, IdleTx
       DEF TypeOK, Tx, Idle, NewDoc, DocRow, Statuses, Modes, Nothing, StepRow, Decisions
  <1> USE DEF Records, Kinds
  <1>1. CASE \E s \in Steps, e \in StepEvents : TriggerStep(r, e, s)
    <2>1. PICK s \in Steps, e \in StepEvents : TriggerStep(r, e, s)
      BY <1>1
    <2>2. PICK at \in {"mode", "respond"} : Begin(r, e, s, at, step[s], Idle.docRow)
      BY <2>1 DEF TriggerStep
    <2>3. Exists(s)
      BY <2>1 DEF TriggerStep
    <2> QED
      BY <1>0, <2>2, <2>3 DEF Exists
  <1>2. CASE \E e \in DocEvents : TriggerDoc(r, e)
    <2>1. PICK e \in DocEvents : TriggerDoc(r, e)
      BY <1>2
    <2>2. PICK at \in {"write", "respond"} : Begin(r, e, Doc, at, Nothing, doc)
      BY <2>1 DEF TriggerDoc
    <2> QED
      BY <1>0, <2>2 DEF StepEvents, DocEvents
  <1>3. CASE \E s \in Steps : \E q \in Sequences \cup {step[s].seq} : EditStep(r, s, q)
    <2>1. PICK s \in Steps : \E q \in Sequences \cup {step[s].seq} : EditStep(r, s, q)
      BY <1>3
    <2>0. PICK q \in Sequences \cup {step[s].seq} : EditStep(r, s, q)
      BY <2>1
    <2>2. /\ Begin(r, "edit", s, "check", [step[s] EXCEPT !.seq = q], Idle.docRow)
          /\ Exists(s)
      BY <2>0 DEF EditStep
    <2>3. /\ [step[s] EXCEPT !.seq = q] \in StepRow
          /\ [step[s] EXCEPT !.seq = q].decision = step[s].decision
      BY <1>0 DEF StepRow
    <2> QED
      BY <1>0, <2>2, <2>3 DEF Exists, StepEvents
  <1>4. CASE \E m \in Modes : EditDoc(r, m)
    <2>1. PICK m \in Modes : Begin(r, "edit", Doc, "write", Nothing, [doc EXCEPT !.mode = m])
      BY <1>4 DEF EditDoc
    <2>2. /\ [doc EXCEPT !.mode = m] \in DocRow
          /\ [doc EXCEPT !.mode = m].status = doc.status
      BY <1>0 DEF DocRow
    <2> QED
      BY <1>0, <2>1, <2>2 DEF StepEvents
  <1>5. CASE \E s \in Steps, q \in Sequences : CreateStep(r, s, q)
    <2>1. PICK s \in Steps, q \in Sequences :
            Begin(r, "create", s, "check", [decision |-> "Pending", seq |-> q], Idle.docRow)
      BY <1>5 DEF CreateStep
    <2>2. [decision |-> "Pending", seq |-> q] \in StepRow
      BY <1>0 DEF StepRow, Decisions
    <2> QED
      BY <1>0, <2>1, <2>2 DEF StepEvents
  <1> QED
    BY <1>1, <1>2, <1>3, <1>4, <1>5 DEF Arrive

\* The new state of the request is well formed, and open.
LEMMA LocalTx ==
  ASSUME TypeOK, NEW r \in Requests, InFlight(r), Arrive(r) \/ Inside(r)
  PROVE  tx'[r] \in Tx /\ tx'[r].at \notin {"idle", "done"}
  <1> DEFINE t == tx[r]
  <1>0. /\ tx \in [Requests -> Tx] /\ t \in Tx
        /\ doc \in DocRow /\ step \in [Steps -> StepRow]
        /\ DocSeenBy(r) \in DocRow
    BY DEF TypeOK, DocSeenBy, Tx
  <1>1. CASE Arrive(r)
    <2>1. PICK e \in Kinds, x \in Records, row \in StepRow, docRow \in DocRow,
               at \in {"mode", "check", "write", "respond"} : Begin(r, e, x, at, row, docRow)
      BY <1>1, Arrival
    <2>2. tx'[r] = [Idle EXCEPT !.event = e, !.rec = x, !.at = at,
                                !.row = row, !.docRow = docRow]
      BY <1>0, <2>1 DEF Begin
    <2> QED
      BY <2>2, IdleTx DEF Tx, Places
  <1>4. CASE Refuse(r) \/ ReadMode(r) \/ PassGuard(r) \/ CheckSequence(r)
    <2>1. PICK a \in {"guard", "sign", "write", "respond"} : tx'[r] = [t EXCEPT !.at = a]
      BY <1>0, <1>4 DEF Refuse, ReadMode, PassGuard, CheckSequence, Accept, GoTo
    <2> QED
      BY <1>0, <2>1 DEF Tx, Places
  <1>5. CASE Sign(r) \/ Fetch(r)
    <2>1. PICK a \in {"stamp", "cascade", "respond"} :
            tx'[r] = [t EXCEPT !.docRow = DocSeenBy(r), !.at = a]
      BY <1>0, <1>5 DEF Sign, Fetch
    <2> QED
      BY <1>0, <2>1 DEF Tx, Places
  <1>6. CASE Stamp(r)
    BY <1>0, <1>6 DEF Stamp, Tx, Places, DocRow, Records
  <1>7. CASE WriteStep(r)
    <2> DEFINE new == IF t.event \in StepEvents
                      THEN t.rows \cup {Log(r, t.rec, t.event, {})} ELSE t.rows
    <2>1. new \in SUBSET AuditRow
      BY <1>0, <1>7 DEF WriteStep, Tx, Log, AuditRow, Records
    <2>2. Decide(t.row, t.event) \in StepRow
      BY <1>0, DecideType DEF Tx, Kinds
    <2>3. PICK a \in {"rollup", "respond"} :
            tx'[r] = [t EXCEPT !.row = Decide(@, t.event), !.wrote = @ \cup {t.rec},
                               !.rows = new, !.at = a]
      BY <1>0, <1>7 DEF WriteStep
    <2>4. t.rec \in Records /\ t.wrote \cup {t.rec} \in SUBSET Records
      BY <1>0, <1>7 DEF WriteStep, Records, Tx
    <2>5. PICK row \in StepRow : row = Decide(t.row, t.event)
      BY <2>2
    <2>6. tx'[r] = [t EXCEPT !.row = row, !.wrote = @ \cup {t.rec}, !.rows = new, !.at = a]
      BY <2>3, <2>5
    <2> HIDE DEF new
    <2> QED
      BY <1>0, <2>1, <2>4, <2>6 DEF Tx, Places
  <1>8. CASE WriteDoc(r)
    <2> DEFINE new == IF t.event \in DocEvents
                      THEN t.rows \cup {Log(r, Doc, t.event, {})} ELSE t.rows
    <2>1. new \in SUBSET AuditRow
      BY <1>0 DEF Tx, Log, AuditRow, Records
    <2>2. Moved(t.docRow, t.event) \in DocRow
      BY <1>0, MovedType DEF Tx, Kinds
    <2>3. tx'[r] = [t EXCEPT !.docRow = Moved(@, t.event), !.wrote = @ \cup {Doc},
                             !.rows = new, !.at = "respond"]
      BY <1>0, <1>8 DEF WriteDoc
    <2> HIDE DEF new
    <2> QED
      BY <1>0, <2>1, <2>2, <2>3 DEF Tx, Places, Records
  <1>9. CASE Rollup(r)
    BY <1>0, <1>9 DEF Rollup, Tx, Places, Verdict, Verdicts
  <1>10. CASE Cascade(r)
    <2>0. t.verdict \in Verdicts
      BY <1>10 DEF Cascade, InFlight
    <2>1. t.rows \cup {Log(r, Doc, t.verdict, t.seen)} \in SUBSET AuditRow
      BY <1>0, <2>0 DEF Tx, Log, AuditRow, Records
    <2>2. Moved(t.docRow, t.verdict) \in DocRow
      BY <1>0, <2>0, MovedType DEF Tx
    <2>3. tx'[r] = [t EXCEPT !.docRow = Moved(@, t.verdict), !.wrote = @ \cup {Doc},
                             !.rows = @ \cup {Log(r, Doc, t.verdict, t.seen)},
                             !.at = "respond"]
      BY <1>0, <1>10 DEF Cascade
    <2> QED
      BY <1>0, <2>1, <2>2, <2>3 DEF Tx, Places, Records
  <1> QED
    BY <1>1, <1>4, <1>5, <1>6, <1>7, <1>8, <1>9, <1>10 DEF Inside

\* So the whole state is.
LEMMA LocalType ==
  ASSUME TypeOK, NEW r \in Requests, InFlight(r), Arrive(r) \/ Inside(r)
  PROVE  TypeOK'
  <1>1. tx' \in [Requests -> Tx]
    BY LocalFrame, LocalTx DEF TypeOK
  <1>2. Open' = Open \cup {r}
    BY LocalFrame, LocalTx DEF Open
  <1>3. lock' \in [Records -> Requests \cup {None}]
    BY LocalFrame DEF TypeOK
  <1>4. \A x \in Records : lock'[x] # None => lock'[x] \in Open'
    BY <1>2, LocalFrame DEF TypeOK
  <1> QED
    BY <1>1, <1>3, <1>4, LocalFrame DEF TypeOK

\* What a request's trail justifies, a longer one does.
LEMMA TrailGrows ==
  ASSUME TypeOK, NEW r \in Requests, InFlight(r), NEW U, Trail(r) \subseteq U
  PROVE  /\ \A a \in tx[r].rows : a.by = r /\ Justified(a, U)
         /\ Strict => \A a \in tx[r].rows : Orderly(a, U)
         /\ StepBacked(tx[r].rec, tx[r].row.decision, U)
         /\ DocBacked(tx[r].docRow.status, U)
         /\ InOrder(step, tx[r].rec, Trail(r)) => InOrder(step, tx[r].rec, U)
  <1>1. tx[r].rows \subseteq AuditRow
    BY DEF TypeOK, Tx
  <1>2. \A a \in AuditRow : Justified(a, Trail(r)) => Justified(a, U)
    BY JustifiedMonotone
  <1>3. \A a \in AuditRow : Orderly(a, Trail(r)) => Orderly(a, U)
    BY DEF Orderly, InOrder, Happens
  <1>4. InOrder(step, tx[r].rec, Trail(r)) => InOrder(step, tx[r].rec, U)
    BY DEF InOrder, Happens
  <1>5. StepBacked(tx[r].rec, tx[r].row.decision, U) /\ DocBacked(tx[r].docRow.status, U)
    BY DEF InFlight, StepBacked, DocBacked, Happens
  <1> QED
    BY <1>1, <1>2, <1>3, <1>4, <1>5 DEF InFlight

\* What a statement reads is backed by the reader's trail.
LEMMA ReadsBacked ==
  ASSUME IInv, NEW r \in Requests
  PROVE  /\ \A s \in Steps : StepBacked(s, StepSeenBy(r, s).decision, Trail(r))
         /\ DocBacked(DocSeenBy(r).status, Trail(r))
  <1>1. \A s \in Steps : StepBacked(s, step[s].decision, Trail(r))
    BY DEF IInv, Settled, StepBacked, Happens, Trail
  <1>2. DocBacked(doc.status, Trail(r))
    BY DEF IInv, Settled, DocBacked, Happens, Trail
  <1>3. \A s \in Steps : s \in tx[r].wrote => s = tx[r].rec
    BY DEF IInv, InFlight
  <1> QED
    BY <1>1, <1>2, <1>3 DEF StepSeenBy, DocSeenBy, IInv, InFlight

\* A request that has just arrived knows committed rows only.
LEMMA ArriveInFlight ==
  ASSUME IInv, NEW r \in Requests, Arrive(r) PROVE InFlight(r)'
  <1> USE DEF IInv
  <1>0. tx \in [Requests -> Tx] /\ Doc \notin Steps
    BY ApprovalAssumption DEF TypeOK
  <1>1. PICK e \in Kinds, x \in Records, row \in StepRow, docRow \in DocRow,
             at \in {"mode", "check", "write", "respond"} :
            /\ Begin(r, e, x, at, row, docRow)
            /\ x \in Steps => /\ row.decision # "Absent" /\ docRow = Idle.docRow
                             /\ \/ row.decision = step[x].decision
                                \/ row.decision = "Pending"
            /\ x = Doc => row = Nothing /\ docRow.status = doc.status
            /\ e \in StepEvents => x \in Steps /\ row = step[x] /\ at \notin {"write", "check"}
            /\ at = "mode" => e \in StepEvents
    BY Arrival
  <1>2. /\ tx'[r].at = at /\ tx'[r].event = e /\ tx'[r].rec = x
        /\ tx'[r].row = row /\ tx'[r].docRow = docRow
        /\ tx'[r].wrote = {} /\ tx'[r].rows = {}
    BY <1>0, <1>1 DEF Begin, Idle
  <1>3. Trail(r)' = audit /\ step' = step /\ reordered' = reordered
    BY <1>1, <1>2 DEF Begin, Trail
  <1>4. StepBacked(x, row.decision, audit)
    BY <1>0, <1>1 DEF Settled, StepBacked, Records, Nothing
  <1>5. DocBacked(docRow.status, audit)
    BY <1>0, <1>1 DEF Settled, DocBacked, Records, Idle, NewDoc
  <1>6. KnowsPlace(r)'
    BY <1>1, <1>2, <1>3 DEF KnowsPlace, Exists
  <1> QED
    BY <1>0, <1>1, <1>2, <1>3, <1>4, <1>5, <1>6 DEF InFlight, Records

\* The sequential guard passes only when earlier steps have been decided.
LEMMA GuardPassed ==
  ASSUME IInv, NEW r \in Requests, PassGuard(r), Strict
  PROVE  InOrder(step, tx[r].rec, Trail(r))
  <1> SUFFICES ASSUME NEW t \in Initial, step[t].seq < step[tx[r].rec].seq
               PROVE  \E e \in StepEvents : Happens(e, t, Trail(r))
    BY DEF InOrder
  <1>1. /\ tx[r].rec \in Steps /\ t \in Steps
        /\ tx[r].row.seq = step[tx[r].rec].seq
    BY ApprovalAssumption DEF PassGuard, IInv, InFlight, KnowsPlace, Strict
  <1>0. t # tx[r].rec
    BY <1>1 DEF IInv, TypeOK, StepRow
  <1>2. step[t].decision # "Pending" /\ step[t].decision # "Absent"
    BY <1>0, <1>1 DEF PassGuard, Blocked, IInv, Settled, Exists
  <1>3. step[t].decision \in {"Approved", "Rejected"}
    BY <1>1, <1>2 DEF IInv, TypeOK, StepRow, Decisions
  <1>4. Happens("approve", t, audit) \/ Happens("reject", t, audit)
    BY <1>1, <1>3 DEF IInv, Settled, StepBacked
  <1> QED
    BY <1>4 DEF Happens, Trail, StepEvents

\* The verdict of a rollup is justified by the decisions it read.
LEMMA RollupJustified ==
  ASSUME IInv, NEW r \in Requests, Rollup(r), tx'[r].verdict # "none"
  PROVE  /\ tx'[r].verdict \in Verdicts
         /\ Justified(Log(r, Doc, tx'[r].verdict, tx'[r].seen), Trail(r))
  <1> DEFINE S == {s \in Steps : StepSeenBy(r, s).decision # "Absent"}
             A == {s \in S : StepSeenBy(r, s).decision = "Approved"}
             R == {s \in S : StepSeenBy(r, s).decision = "Rejected"}
             v == Verdict(A, R, S)
  <1>1. tx'[r].verdict = v /\ tx'[r].seen = S
    BY DEF Rollup, IInv, TypeOK, Tx
  <1>2. A \subseteq VotedIn("approve", S, Trail(r)) /\ R \subseteq VotedIn("reject", S, Trail(r))
    BY ReadsBacked DEF StepBacked, VotedIn
  <1>3. VotedIn("approve", S, Trail(r)) \subseteq S /\ VotedIn("reject", S, Trail(r)) \subseteq S
    BY DEF VotedIn
  <1>4. v \in Verdicts
    BY <1>1 DEF Verdict, Verdicts
  <1>5. /\ v = "docApprove" => Enough(A, S)
        /\ v = "docReject" => TooMany(R, S)
    BY DEF Verdict
  <1>6. S \subseteq Steps
    OBVIOUS
  <1> HIDE DEF S, A, R, v
  <1>7. v = "docApprove" => Enough(VotedIn("approve", S, Trail(r)), S)
    BY <1>2, <1>3, <1>5, <1>6, EnoughMonotone
  <1>8. v = "docReject" => TooMany(VotedIn("reject", S, Trail(r)), S)
    BY <1>2, <1>3, <1>5, <1>6, TooManyMonotone
  <1>9. \E b \in Trail(r) : b.by = r /\ b.event \in StepEvents
    BY DEF Rollup, IInv, InFlight, Trail
  <1> QED
    BY <1>1, <1>4, <1>7, <1>8, <1>9 DEF Justified, Log

\* Every statement of a handler leaves its request justified.
LEMMA InsideInFlight ==
  ASSUME IInv, NEW r \in Requests, Inside(r) PROVE InFlight(r)'
  <1> DEFINE t == tx[r]
  <1>0. /\ tx \in [Requests -> Tx] /\ t \in Tx /\ Doc \notin Steps
        /\ UNCHANGED <<step, doc, audit, reordered>> /\ TypeOK /\ InFlight(r)
    BY ApprovalAssumption, LocalFrame DEF IInv, TypeOK
  <1>1. CASE Refuse(r)
    <2>1. tx'[r] = [t EXCEPT !.at = "respond"]
      BY <1>0, <1>1 DEF Refuse, GoTo
    <2>2. Trail(r)' = Trail(r)
      BY <1>0, <2>1 DEF Trail, Tx
    <2> QED
      BY <1>0, <2>1, <2>2 DEF InFlight, Tx, Strict, Orderly, OfExisting, Exists, KnowsPlace
  <1>2. CASE ReadMode(r) \/ PassGuard(r) \/ CheckSequence(r)
    <2>1. PICK a \in {"guard", "sign", "write", "respond"} :
            /\ tx'[r] = [t EXCEPT !.at = a]
            /\ a \in {"guard", "sign"} => t.at \in {"mode", "guard"}
            /\ a = "write" =>
                \/ t.at = "mode" /\ doc.mode # "Sequential"
                \/ PassGuard(r)
                \/ t.at = "check"
            /\ a = "sign" =>
                \/ t.at = "mode" /\ doc.mode # "Sequential"
                \/ PassGuard(r)
      BY <1>0, <1>2 DEF ReadMode, PassGuard, CheckSequence, Accept, GoTo
    <2>2. /\ tx'[r].at = a /\ tx'[r].event = t.event /\ tx'[r].rec = t.rec
          /\ tx'[r].row = t.row /\ tx'[r].docRow = t.docRow /\ tx'[r].wrote = t.wrote
          /\ tx'[r].rows = t.rows
      BY <1>0, <2>1 DEF Tx
    <2>3. Trail(r)' = Trail(r) /\ Strict' = Strict
      BY <1>0, <2>2 DEF Trail, Strict
    <2>4. Strict /\ a \in {"sign", "write"} /\ t.event \in StepEvents
            => InOrder(step, t.rec, Trail(r))
      BY <1>0, <2>1, GuardPassed DEF InFlight, Strict
    <2>5. KnowsPlace(r)' /\ \A b \in t.rows : OfExisting(b)'
      BY <1>0, <2>2 DEF InFlight, KnowsPlace, OfExisting, Exists
    <2>6. \A b \in t.rows : Orderly(b, Trail(r)) => Orderly(b, Trail(r))'
      BY <1>0, <2>3 DEF Orderly
    <2> QED
      BY <1>0, <2>1, <2>2, <2>3, <2>4, <2>5, <2>6 DEF InFlight
  <1>3. CASE Sign(r) \/ Fetch(r)
    <2>1. PICK a \in {"stamp", "cascade", "respond"} :
            /\ tx'[r] = [t EXCEPT !.docRow = DocSeenBy(r), !.at = a]
            /\ a = "stamp" => t.at = "sign"
            /\ a = "cascade" => t.at = "fetch"
      BY <1>0, <1>3 DEF Sign, Fetch
    <2>2. Trail(r)' = Trail(r)
      BY <1>0, <2>1 DEF Trail, Tx
    <2> QED
      BY <1>0, <2>1, <2>2, ReadsBacked DEF InFlight, Tx, Strict, Orderly, OfExisting, Exists, KnowsPlace
  <1>4. CASE Stamp(r)
    <2>1. /\ t.at = "stamp" /\ tx'[r].at = "write"
          /\ tx'[r].docRow = [t.docRow EXCEPT !.signed = @ \cup {t.rec}]
          /\ tx'[r].wrote = t.wrote \cup {Doc} /\ tx'[r].rows = t.rows
          /\ tx'[r].event = t.event /\ tx'[r].rec = t.rec /\ tx'[r].row = t.row
      BY <1>0, <1>4 DEF Stamp, Tx
    <2>2. Trail(r)' = Trail(r)
      BY <1>0, <2>1 DEF Trail
    <2>3. tx'[r].docRow.status = t.docRow.status
      BY <1>0, <2>1 DEF Tx, DocRow
    <2> QED
      BY <1>0, <2>1, <2>2, <2>3 DEF InFlight, Strict, Orderly, OfExisting, Exists, KnowsPlace
  <1>5. CASE WriteStep(r)
    <2> DEFINE own == IF t.event \in StepEvents
                      THEN {Log(r, t.rec, t.event, {})} ELSE {}
    <2>1. /\ t.at = "write" /\ t.rec \in Steps
          /\ tx'[r].row = Decide(t.row, t.event)
          /\ tx'[r].wrote = t.wrote \cup {t.rec} /\ tx'[r].rows = t.rows \cup own
          /\ tx'[r].at = IF t.event \in StepEvents THEN "rollup" ELSE "respond"
          /\ tx'[r].event = t.event /\ tx'[r].rec = t.rec /\ tx'[r].docRow = t.docRow
      BY <1>0, <1>5 DEF WriteStep, Tx
    <2>2. Trail(r)' = Trail(r) \cup own
      BY <1>0, <2>1 DEF Trail
    <2>3. \A a \in own : a.by = r /\ Justified(a, Trail(r)') /\ a.event = t.event
                         /\ a.rec = t.rec /\ a.event \in StepEvents
      BY DEF Justified, Log, StepEvents, Verdicts
    <2>4. Strict => \A a \in own : Orderly(a, Trail(r)')
      BY <1>0, <2>1, <2>2, <2>3 DEF Orderly, InFlight, InOrder, Happens
    <2>8. /\ tx'[r].row.decision = NewDecision(t.event, t.row.decision)
          /\ tx'[r].row.seq = t.row.seq
      BY <1>0, <2>1 DEF Decide, Tx, StepRow
    <2>5. StepBacked(t.rec, NewDecision(t.event, t.row.decision), Trail(r)')
      BY <1>0, <2>2, <2>3, TrailGrows DEF NewDecision, StepBacked, Happens, StepEvents
    <2>6. NewDecision(t.event, t.row.decision) # "Absent"
      BY <1>0, <2>1 DEF NewDecision, InFlight
    <2>9. KnowsPlace(r)' /\ \A a \in t.rows \cup own : OfExisting(a)'
      BY <1>0, <2>1, <2>3, <2>8 DEF InFlight, KnowsPlace, OfExisting, Exists
    <2>7. t.event \in StepEvents => own # {}
      OBVIOUS
    <2> HIDE DEF own
    <2> QED
      BY <1>0, <2>1, <2>2, <2>3, <2>4, <2>5, <2>6, <2>7, <2>8, <2>9, TrailGrows
         DEF InFlight, Strict, Orderly
  <1>6. CASE WriteDoc(r)
    <2> DEFINE own == IF t.event \in DocEvents
                      THEN {Log(r, Doc, t.event, {})} ELSE {}
    <2>1. /\ t.at = "write" /\ t.rec = Doc
          /\ tx'[r].docRow = Moved(t.docRow, t.event)
          /\ tx'[r].wrote = t.wrote \cup {Doc} /\ tx'[r].rows = t.rows \cup own
          /\ tx'[r].at = "respond" /\ tx'[r].event = t.event /\ tx'[r].rec = t.rec
          /\ tx'[r].row = t.row
      BY <1>0, <1>6 DEF WriteDoc, Tx
    <2>2. Trail(r)' = Trail(r) \cup own
      BY <1>0, <2>1 DEF Trail
    <2>3. \A a \in own : /\ a.by = r /\ Justified(a, Trail(r)') /\ Orderly(a, Trail(r)')
                         /\ a.event = t.event /\ a.rec = Doc /\ a.event \notin StepEvents
      BY DEF Justified, Orderly, Log, DocEvents, StepEvents, Verdicts
    <2>4. tx'[r].docRow.status = NewStatus(t.event, t.docRow.status)
      BY <1>0, <2>1 DEF Moved, Tx, DocRow
    <2>5. t.event = "withdraw" => Happens("withdraw", Doc, Trail(r)')
      <3>1. t.event = "withdraw" => Log(r, Doc, "withdraw", {}) \in own
        BY DEF DocEvents
      <3>2. /\ Log(r, Doc, "withdraw", {}).event = "withdraw"
            /\ Log(r, Doc, "withdraw", {}).rec = Doc
        BY DEF Log
      <3> HIDE DEF own
      <3> QED
        BY <2>2, <3>1, <3>2 DEF Happens
    <2>6. DocBacked(NewStatus(t.event, t.docRow.status), Trail(r)')
      BY <1>0, <2>2, <2>5, TrailGrows
         DEF NewStatus, DocBacked, Tx, Kinds, StepEvents, DocEvents
    <2> HIDE DEF own
    <2>7. KnowsPlace(r)' /\ \A a \in t.rows \cup own : OfExisting(a)'
      BY <1>0, <2>1, <2>3, ApprovalAssumption
         DEF InFlight, KnowsPlace, OfExisting, Exists, DocEvents, StepEvents
    <2>8. Strict' => \A a \in t.rows \cup own : Orderly(a, Trail(r))'
      BY <1>0, <2>2, <2>3, TrailGrows DEF Strict, Orderly
    <2> QED
      BY <1>0, <2>1, <2>2, <2>3, <2>4, <2>6, <2>7, <2>8, TrailGrows DEF InFlight
  <1>7. CASE Rollup(r)
    <2>1. /\ t.at = "rollup"
          /\ tx'[r].at \in {"respond", "fetch"}
          /\ tx'[r].at = "fetch" => tx'[r].verdict # "none"
          /\ tx'[r].rows = t.rows /\ tx'[r].event = t.event /\ tx'[r].rec = t.rec
          /\ tx'[r].row = t.row /\ tx'[r].docRow = t.docRow /\ tx'[r].wrote = t.wrote
      BY <1>0, <1>7 DEF Rollup, Tx
    <2>2. Trail(r)' = Trail(r)
      BY <1>0, <2>1 DEF Trail
    <2> QED
      BY <1>0, <1>7, <2>1, <2>2, RollupJustified
         DEF InFlight, Strict, Orderly, OfExisting, Exists, KnowsPlace
  <1>8. CASE Cascade(r)
    <2> DEFINE new == Log(r, Doc, t.verdict, t.seen)
    <2>1. /\ t.at = "cascade" /\ t.verdict \in Verdicts
          /\ tx'[r].docRow = Moved(t.docRow, t.verdict)
          /\ tx'[r].wrote = t.wrote \cup {Doc} /\ tx'[r].rows = t.rows \cup {new}
          /\ tx'[r].at = "respond" /\ tx'[r].event = t.event /\ tx'[r].rec = t.rec
          /\ tx'[r].row = t.row
      BY <1>0, <1>8 DEF Cascade, Tx, InFlight
    <2>2. Trail(r)' = Trail(r) \cup {new}
      BY <1>0, <2>1 DEF Trail
    <2>3. new \in AuditRow
      BY <1>0, <2>1 DEF Log, AuditRow, Records, Tx
    <2>4. Justified(new, Trail(r)')
      BY <1>0, <2>1, <2>2, <2>3, JustifiedMonotone DEF InFlight
    <2>5. new.by = r /\ Orderly(new, Trail(r)') /\ new.event = t.verdict /\ new.rec = Doc
      BY <2>1 DEF Orderly, Log, StepEvents, Verdicts
    <2>6. tx'[r].docRow.status = NewStatus(t.verdict, t.docRow.status)
      BY <1>0, <2>1 DEF Moved, Tx, DocRow
    <2>7. DocBacked(NewStatus(t.verdict, t.docRow.status), Trail(r)')
      BY <2>1, <2>2, <2>5 DEF NewStatus, DocBacked, Happens, Verdicts
    <2> HIDE DEF new
    <2>8. KnowsPlace(r)' /\ \A a \in t.rows \cup {new} : OfExisting(a)'
      BY <1>0, <2>1, <2>5 DEF InFlight, KnowsPlace, OfExisting, Exists, Verdicts, StepEvents
    <2>9. Strict' => \A a \in t.rows \cup {new} : Orderly(a, Trail(r))'
      BY <1>0, <2>2, <2>5, TrailGrows DEF Strict, Orderly
    <2> QED
      BY <1>0, <2>1, <2>2, <2>4, <2>5, <2>6, <2>7, <2>8, <2>9, TrailGrows DEF InFlight
  <1> QED
    BY <1>1, <1>2, <1>3, <1>4, <1>5, <1>6, <1>7, <1>8 DEF Inside

-----------------------------------------------------------------------------
(* The end of a request. *)

Ending(r) == Commit(r) \/ RollBack(r) \/ BreakDeadlock(r)

\* A request that has ended holds nothing.
LEMMA EndingFrame ==
  ASSUME TypeOK, NEW r \in Requests, Ending(r)
  PROVE  /\ tx' = [tx EXCEPT ![r] = Done]
         /\ tx' \in [Requests -> Tx]
         /\ lock' \in [Records -> Requests \cup {None}]
         /\ \A x \in Records : lock'[x] # None => lock'[x] \in Open'
         /\ InFlight(r)'
  <1>1. tx' = [tx EXCEPT ![r] = Done] /\ Release(r)
    BY DEF Ending, Commit, RollBack, BreakDeadlock, EndWithoutEffect
  <1>2. Done \in Tx
    BY IdleTx DEF Done, Tx, Places
  <1>3. tx' \in [Requests -> Tx]
    BY <1>1, <1>2 DEF TypeOK
  <1>4. lock' \in [Records -> Requests \cup {None}]
    BY <1>1 DEF Release, TypeOK
  <1>5. Open \ {r} \subseteq Open'
    BY <1>1 DEF Open, TypeOK
  <1>6. \A x \in Records : lock'[x] # None => lock'[x] \in Open'
    BY <1>1, <1>5 DEF Release, TypeOK
  <1>7. InFlight(r)'
    <2>1. /\ tx'[r].at = "done" /\ tx'[r].rec = None /\ tx'[r].row.decision = "Absent"
          /\ tx'[r].docRow.status = "Draft" /\ tx'[r].wrote = {} /\ tx'[r].rows = {}
      BY <1>1 DEF TypeOK, Done, Idle, Nothing, NewDoc
    <2>2. None \notin Steps
      BY ApprovalAssumption
    <2> QED
      BY <2>1, <2>2 DEF InFlight, StepBacked, DocBacked, KnowsPlace
  <1> QED
    BY <1>1, <1>3, <1>4, <1>6, <1>7

\* A commit settles the request's decisions together with their trail.
LEMMA CommitSettles ==
  ASSUME IInv, NEW r \in Requests, Commit(r) PROVE IInv'
  <1>0. Ending(r) /\ TypeOK /\ InFlight(r)
    BY DEF Ending, IInv
  <1>1. /\ audit' = Trail(r) /\ doc' = DocSeenBy(r)
        /\ step' = [s \in Steps |-> StepSeenBy(r, s)]
    BY DEF Commit, Trail
  <1>2. audit \subseteq audit' /\ audit' \subseteq AuditRow
    BY <1>1 DEF Trail, IInv, TypeOK, Tx
  <1>3. TypeOK'
    <2>1. \A s \in Steps : StepSeenBy(r, s) \in StepRow
      BY DEF StepSeenBy, IInv, TypeOK, Tx
    <2>2. DocSeenBy(r) \in DocRow
      BY DEF DocSeenBy, IInv, TypeOK, Tx
    <2>3. reordered' \in BOOLEAN
      BY DEF Commit, IInv, TypeOK
    <2> QED
      BY <1>0, <1>1, <1>2, <2>1, <2>2, <2>3, EndingFrame DEF TypeOK
  <1>4. \A s \in Steps : Exists(s) => Exists(s)'
    BY <1>0, <1>1 DEF Exists, StepSeenBy, InFlight
  <1>5. Keeps
    <2>1. reordered' = (reordered \/ Reorders(r))
      BY DEF Commit
    <2> QED
      BY <1>1, <1>2, <1>4, <2>1 DEF Keeps, Reorders
  <1>6. Settled'
    <2>1. \A s \in Steps : StepBacked(s, step'[s].decision, audit')
      BY <1>1, ReadsBacked
    <2>2. DocBacked(doc'.status, audit')
      BY <1>1, ReadsBacked
    <2>3. \A s \in Initial : Exists(s)'
      BY <1>4, ApprovalAssumption DEF IInv, Settled
    <2>4. \A a \in audit' : Justified(a, audit') /\ OfExisting(a)'
      <3>1. \A a \in audit : Justified(a, audit')
        BY <1>2, JustifiedMonotone DEF IInv, Settled, TypeOK
      <3>2. \A a \in audit' : OfExisting(a)
        BY <1>1 DEF Trail, IInv, Settled, InFlight
      <3>3. \A a \in audit' : OfExisting(a)'
        BY <1>4, <3>2 DEF OfExisting
      <3> QED
        BY <1>0, <1>1, <3>1, <3>3 DEF Trail, InFlight
    <2>5. Strict' => \A a \in audit' : Orderly(a, audit)' 
      <3> SUFFICES ASSUME Strict', NEW a \in audit', a.event \in StepEvents
                   PROVE  InOrder(step', a.rec, audit')
        BY DEF Orderly
      <3>1. a.rec \in Steps /\ Exists(a.rec)
        BY <1>1 DEF Trail, IInv, Settled, InFlight, OfExisting
      <3>2. Strict /\ \A t \in Initial \cup {a.rec} : step'[t].seq = step[t].seq
        BY <1>5, <3>1, ApprovalAssumption DEF Strict, Keeps, IInv, Settled
      <3>3. InOrder(step, a.rec, audit')
        BY <1>0, <1>1, <3>2 DEF IInv, Settled, InFlight, Orderly, InOrder, Happens, Trail
      <3> QED
        BY <3>2, <3>3 DEF InOrder
    <2> QED
      BY <2>1, <2>2, <2>3, <2>4, <2>5 DEF Settled
  <1>7. \A q \in Requests \ {r} : InFlight(q)'
    <2> TAKE q \in Requests \ {r}
    <2>1. tx'[q] = tx[q]
      BY <1>0, EndingFrame DEF TypeOK
    <2>2. InFlight(q) /\ Settled
      BY DEF IInv
    <2> QED
      BY <1>0, <1>5, <2>1, <2>2, OthersCommit
  <1> QED
    BY <1>0, <1>3, <1>6, <1>7, EndingFrame DEF IInv

\* A rollback, whatever its cause, leaves the committed rows alone.
LEMMA RollBackSettles ==
  ASSUME IInv, NEW r \in Requests, RollBack(r) \/ BreakDeadlock(r) PROVE IInv'
  <1>0. Ending(r) /\ TypeOK
    BY DEF Ending, IInv
  <1>1. UNCHANGED <<step, doc, audit, reordered>>
    BY DEF RollBack, BreakDeadlock, EndWithoutEffect
  <1>2. TypeOK' /\ Settled'
    BY <1>0, <1>1, EndingFrame DEF IInv, TypeOK, Settled, Strict, Exists, OfExisting, Orderly
  <1>3. \A q \in Requests \ {r} : InFlight(q)'
    <2> TAKE q \in Requests \ {r}
    <2>1. tx'[q] = tx[q] /\ InFlight(q) /\ Settled
      BY <1>0, EndingFrame DEF IInv, TypeOK
    <2>2. Keeps
      BY <1>1 DEF Keeps, Exists
    <2> QED
      BY <1>0, <2>1, <2>2, OthersCommit
  <1> QED
    BY <1>0, <1>2, <1>3, EndingFrame DEF IInv

\* A statement inside a transaction.
LEMMA LocalSettles ==
  ASSUME IInv, NEW r \in Requests, Arrive(r) \/ Inside(r) PROVE IInv'
  <1>0. TypeOK /\ InFlight(r)
    BY DEF IInv
  <1>1. /\ UNCHANGED <<step, doc, audit, reordered>>
        /\ \A q \in Requests \ {r} : tx'[q] = tx[q]
    BY <1>0, LocalFrame
  <1>2. TypeOK' /\ InFlight(r)'
    BY <1>0, LocalType, ArriveInFlight, InsideInFlight
  <1>3. Settled'
    BY <1>1 DEF IInv, Settled, Strict, Exists, OfExisting, Orderly
  <1>4. \A q \in Requests \ {r} : InFlight(q)'
    <2> TAKE q \in Requests \ {r}
    <2>1. tx'[q] = tx[q] /\ InFlight(q) /\ Settled
      BY <1>1 DEF IInv
    <2>2. Keeps
      BY <1>1 DEF Keeps, Exists
    <2> QED
      BY <1>0, <2>1, <2>2, OthersCommit
  <1> QED
    BY <1>2, <1>3, <1>4 DEF IInv

-----------------------------------------------------------------------------
(* The inductive invariant and what follows from it. *)

LEMMA InitIInv == Init => IInv
  <1> SUFFICES ASSUME Init PROVE IInv
    OBVIOUS
  <1> USE ApprovalAssumption DEF Init
  <1>0. PICK status \in {"Draft", "In Review"}, mode \in Modes : doc = NewDoc(status, mode)
    OBVIOUS
  <1>1. TypeOK
    <2>1. tx \in [Requests -> Tx]
      BY IdleTx
    <2>2. doc \in DocRow
      BY <1>0 DEF NewDoc, DocRow, Statuses
    <2>3. step \in [Steps -> StepRow]
      BY DEF StepRow, Decisions, Nothing
    <2> QED
      BY <2>1, <2>2, <2>3 DEF TypeOK
  <1>2. Settled
    <2>1. /\ \A s \in Steps : step[s].decision \in {"Pending", "Absent"}
          /\ \A s \in Initial : step[s].decision = "Pending"
      BY DEF Nothing
    <2>2. doc.status \in {"Draft", "In Review"}
      BY <1>0 DEF NewDoc
    <2> QED
      BY <2>1, <2>2 DEF Settled, StepBacked, DocBacked, Exists
  <1>3. \A r \in Requests : InFlight(r)
    BY DEF InFlight, Idle, StepBacked, DocBacked, KnowsPlace, Nothing, NewDoc
  <1> QED
    BY <1>1, <1>2, <1>3 DEF IInv

LEMMA StepIInv == IInv /\ [Next]_vars => IInv'
  <1> SUFFICES ASSUME IInv, [Next]_vars PROVE IInv'
    OBVIOUS
  <1>1. CASE UNCHANGED vars
    <2>1. TypeOK' /\ Settled'
      BY <1>1 DEF vars, IInv, TypeOK, Settled, Open, Strict, Exists, OfExisting, Orderly
    <2>2. \A r \in Requests : InFlight(r)'
      BY <1>1 DEF vars, IInv, InFlight, Trail, Strict, Exists, OfExisting, Orderly, KnowsPlace
    <2> QED
      BY <2>1, <2>2 DEF IInv
  <1>2. CASE Next
    BY <1>2, LocalSettles, CommitSettles, RollBackSettles DEF Next, Proceed, Inside
  <1> QED
    BY <1>1, <1>2

LEMMA Invariance == Spec => []IInv
  BY InitIInv, StepIInv, PTL DEF Spec

\* Every reachable state of every instance is well typed, and only open
\* transactions hold row locks.
THEOREM TypeCorrect == Spec => []TypeOK
  <1>1. IInv => TypeOK
    BY DEF IInv
  <1> QED
    BY Invariance, <1>1, PTL

\* Decisions are backed by the audit trail under every interleaving of stale
\* reads, whole-row writes and rollbacks.
THEOREM DecisionsBacked == Spec => []DecisionBackedByAudit
  <1>1. IInv => DecisionBackedByAudit
    BY DEF IInv, Settled, StepBacked, DecisionBackedByAudit, Happened, Happens
  <1> QED
    BY Invariance, <1>1, PTL

\* The document's status is backed by the event that set it.
THEOREM StatusesBacked == Spec => []StatusBacked
  <1>1. IInv => StatusBacked
    BY DEF IInv, Settled, DocBacked, StatusBacked, Happened, Happens
  <1> QED
    BY Invariance, <1>1, PTL

\* The votes a judgement about the committed trail counts are those of Voted.
LEMMA VotedIsVotedIn ==
  ASSUME NEW e, NEW S PROVE Voted(e, S) = VotedIn(e, S, audit)
  BY DEF Voted, VotedIn, Happened, Happens

\* No verdict without the recorded votes for it, for every quorum and however
\* many requests decide at once.
THEOREM VerdictsBacked == Spec => []VerdictBacked
  <1>1. IInv => VerdictBacked
    <2> SUFFICES ASSUME IInv, NEW a \in audit
                 PROVE  /\ a.event = "docApprove" => Enough(Voted("approve", a.seen), a.seen)
                        /\ a.event = "docReject"  => TooMany(Voted("reject", a.seen), a.seen)
      BY DEF VerdictBacked
    <2>1. Justified(a, audit)
      BY DEF IInv, Settled
    <2> QED
      BY <2>1, VotedIsVotedIn DEF Justified
  <1> QED
    BY Invariance, <1>1, PTL

\* A verdict commits with the decision that caused it.
THEOREM CascadesAtomic == Spec => []CascadeSharesRequest
  <1>1. IInv => CascadeSharesRequest
    BY DEF IInv, Settled, Justified, CascadeSharesRequest
  <1> QED
    BY Invariance, <1>1, PTL

\* In Sequential mode no step is decided before one that precedes it.
THEOREM DecidedInOrder == Spec => []SequentialOrder
  <1>1. IInv => SequentialOrder
    <2> SUFFICES ASSUME IInv, Strict, NEW s \in Steps, NEW t \in Initial,
                        step[t].seq < step[s].seq, Decided(s)
                 PROVE  Decided(t)
      BY DEF SequentialOrder, Strict
    <2>1. PICK a \in audit : a.event \in StepEvents /\ a.rec = s
      BY DEF Decided, Happened
    <2>2. InOrder(step, s, audit)
      BY <2>1 DEF IInv, Settled, Orderly
    <2> QED
      BY <2>2 DEF InOrder, Decided, Happened, Happens
  <1> QED
    BY Invariance, <1>1, PTL

\* A quorum of approvals and an unreachable quorum cannot both be recorded
\* unless somebody's vote is on record both ways.
LEMMA ThresholdsExclude ==
  ASSUME NEW S \in SUBSET Steps, NEW A \in SUBSET S, NEW R \in SUBSET S,
         MinApprovals <= Cardinality(S), Enough(A, S), TooMany(R, S)
  PROVE  A \cap R # {}
  <1> SUFFICES ASSUME A \cap R = {} PROVE FALSE
    OBVIOUS
  <1>1. IsFiniteSet(S) /\ IsFiniteSet(A) /\ IsFiniteSet(R) /\ IsFiniteSet(A \cup R)
    BY ApprovalAssumption, FS_Subset
  <1>2. CASE MinApprovals = 0
    BY <1>2 DEF Enough, TooMany
  <1>3. CASE MinApprovals > 0
    <2>1. Cardinality(A) + Cardinality(R) <= Cardinality(S)
      <3>1. Cardinality(A \cup R) = Cardinality(A) + Cardinality(R) - Cardinality(A \cap R)
        BY <1>1, FS_Union
      <3>2. Cardinality(A \cup R) <= Cardinality(S)
        BY <1>1, FS_Subset
      <3>3. Cardinality(A \cap R) = 0
        BY FS_EmptySet
      <3> QED
        BY <1>1, <3>1, <3>2, <3>3, FS_CardinalityType
    <2>2. /\ Cardinality(A) \in Nat /\ Cardinality(R) \in Nat /\ Cardinality(S) \in Nat
      BY <1>1, FS_CardinalityType
    <2> QED
      BY <1>3, <2>1, <2>2, ApprovalAssumption DEF Enough, TooMany
  <1> QED
    BY <1>2, <1>3, ApprovalAssumption

\* Opposite verdicts over the same steps reveal a step decided both ways.
THEOREM OppositeVerdictsShareAVote == Spec => []VerdictsExclusive
  <1>1. IInv => VerdictsExclusive
    <2> SUFFICES ASSUME IInv, NEW a \in audit, NEW b \in audit,
                        a.event = "docApprove", b.event = "docReject",
                        a.seen = b.seen, MinApprovals <= Cardinality(a.seen)
                 PROVE  Voted("approve", a.seen) \cap Voted("reject", a.seen) # {}
      BY DEF VerdictsExclusive
    <2>1. Justified(a, audit) /\ Justified(b, audit) /\ a.seen \in SUBSET Steps
      BY DEF IInv, Settled, TypeOK, AuditRow
    <2>2. /\ Enough(Voted("approve", a.seen), a.seen)
          /\ TooMany(Voted("reject", a.seen), a.seen)
      BY <2>1, VotedIsVotedIn DEF Justified
    <2>3. /\ Voted("approve", a.seen) \subseteq a.seen
          /\ Voted("reject", a.seen) \subseteq a.seen
      BY DEF Voted
    <2> QED
      BY <2>1, <2>2, <2>3, ThresholdsExclude
  <1> QED
    BY Invariance, <1>1, PTL

-----------------------------------------------------------------------------
(* Who waits for whom. *)

\* A transaction that holds a step's row is past its own write and needs no
\* other step's.
StepsHeld ==
    \A s \in Steps : lock[s] # None => tx[lock[s]].at \in {"rollup", "fetch", "cascade", "respond"}

\* Whenever requests wait for each other in a circle, however long, two of them
\* wait for each other directly, so the detector that looks at pairs breaks every
\* deadlock.
DeadlocksArePairs ==
    \A D \in SUBSET Open :
        D # {} /\ (\A r \in D : \E q \in D : WaitsFor(r, q))
            => \E r, q \in D : WaitsFor(r, q) /\ WaitsFor(q, r)

\* What a rollup and the read after it do to the request, whatever they find.
Counted(r, v, S) ==
    /\ tx' = [tx EXCEPT ![r].verdict = v, ![r].seen = S,
                        ![r].at = IF v = "none" THEN "respond" ELSE "fetch"]
    /\ UNCHANGED lock

Fetched(r, row, a) ==
    /\ a \in {"cascade", "respond"}
    /\ tx' = [tx EXCEPT ![r].docRow = row, ![r].at = a]
    /\ UNCHANGED lock

\* A request takes a step's row with its write and then only moves on.
LEMMA LocalStepsHeld ==
  ASSUME TypeOK, StepsHeld, NEW r \in Requests, Arrive(r) \/ Inside(r)
  PROVE  StepsHeld'
  <1> DEFINE Past == {"rollup", "fetch", "cascade", "respond"}
  <1> USE DEF StepsHeld
  <1>1. \A q \in Requests \ {r} : tx'[q] = tx[q]
    BY LocalFrame
  <1>2. /\ tx \in [Requests -> Tx]
        /\ lock \in [Records -> Requests \cup {None}]
        /\ \A s \in Steps : s # Doc /\ s \in Records
        /\ Doc \in Records
    BY ApprovalAssumption DEF TypeOK, Records
  <1>3. \A s \in Steps : lock[s] # None => lock[s] \in Requests
    BY <1>2
  \* What is left to show of each action.
  <1>4. ASSUME \A s \in Steps : lock'[s] = lock[s] \/ (lock'[s] = r /\ tx'[r].at \in Past),
               tx[r].at \in Past => tx'[r].at \in Past
        PROVE  StepsHeld'
    BY <1>1, <1>3, <1>4
  <1>5. CASE Arrive(r)
    <2>1. PICK e \in Kinds, x \in Records, row \in StepRow, docRow \in DocRow,
               at \in {"mode", "check", "write", "respond"} : Begin(r, e, x, at, row, docRow)
      BY <1>5, Arrival
    <2>2. tx[r].at = "idle" /\ lock' = lock
      BY <2>1 DEF Begin, Start
    <2> QED
      BY <1>4, <2>2
  <1>6. CASE Refuse(r) \/ ReadMode(r) \/ PassGuard(r) \/ CheckSequence(r)
    <2>1. /\ lock' = lock
          /\ tx[r].at \in {"mode", "guard", "check", "write"}
      BY <1>6 DEF Refuse, ReadMode, PassGuard, CheckSequence, Accept, GoTo
    <2> QED
      BY <1>4, <2>1
  <1>7. CASE Sign(r)
    <2>1. tx[r].at = "sign" /\ lock' = lock
      BY <1>7 DEF Sign
    <2> QED
      BY <1>4, <2>1
  <1>8. CASE Stamp(r)
    <2>1. tx[r].at = "stamp" /\ lock' = [lock EXCEPT ![Doc] = r]
      BY <1>8 DEF Stamp
    <2>2. \A s \in Steps : lock'[s] = lock[s]
      BY <1>2, <2>1
    <2> QED
      BY <1>4, <2>1, <2>2
  <1>9. CASE WriteStep(r)
    <2>1. /\ tx[r].at = "write"
          /\ tx[r].rec \in Records
          /\ lock' = [lock EXCEPT ![tx[r].rec] = r]
      BY <1>9 DEF WriteStep, Records
    <2>2. tx'[r].at \in Past
      BY <1>2, <1>9 DEF WriteStep, Tx
    <2>3. \A s \in Steps : lock'[s] = lock[s] \/ lock'[s] = r
      BY <1>2, <2>1
    <2> QED
      BY <1>4, <2>2, <2>3
  <1>10. CASE WriteDoc(r)
    <2>1. tx[r].at = "write" /\ lock' = [lock EXCEPT ![Doc] = r]
      BY <1>10 DEF WriteDoc
    <2>2. \A s \in Steps : lock'[s] = lock[s]
      BY <1>2, <2>1
    <2> QED
      BY <1>4, <2>1, <2>2
  <1>11. CASE Rollup(r)
    <2>1. PICK v, S : Counted(r, v, S)
      <3> DEFINE S == {s \in Steps : StepSeenBy(r, s).decision # "Absent"}
                 A == {s \in S : StepSeenBy(r, s).decision = "Approved"}
                 R == {s \in S : StepSeenBy(r, s).decision = "Rejected"}
      <3>1. Counted(r, Verdict(A, R, S), S)
        BY <1>11, Zenon DEF Rollup, Counted
      <3> HIDE DEF S, A, R
      <3> QED
        BY <3>1, Zenon
    <2>2. tx'[r].at \in Past
      BY <1>2, <2>1 DEF Counted, Tx
    <2>3. lock' = lock
      BY <2>1 DEF Counted
    <2> QED
      BY <1>4, <2>2, <2>3
  <1>12. CASE Fetch(r)
    <2>1. PICK row, a : Fetched(r, row, a)
      BY <1>12, Zenon DEF Fetch, Fetched
    <2>2. tx'[r].at \in Past
      BY <1>2, <2>1 DEF Fetched, Tx
    <2>3. lock' = lock
      BY <2>1 DEF Fetched
    <2> QED
      BY <1>4, <2>2, <2>3
  <1>13. CASE Cascade(r)
    <2>1. tx'[r].at \in Past
      BY <1>2, <1>13 DEF Cascade, Tx
    <2>2. lock' = [lock EXCEPT ![Doc] = r]
      BY <1>13 DEF Cascade
    <2>3. \A s \in Steps : lock'[s] = lock[s]
      BY <1>2, <2>2
    <2> QED
      BY <1>4, <2>1, <2>3
  <1> QED
    BY <1>5, <1>6, <1>7, <1>8, <1>9, <1>10, <1>11, <1>12, <1>13 DEF Inside

\* Every step keeps it.
LEMMA StepStepsHeld == ASSUME TypeOK, StepsHeld, [Next]_vars PROVE StepsHeld'
  <1>1. CASE UNCHANGED vars
    BY <1>1 DEF vars, StepsHeld
  <1>2. ASSUME NEW r \in Requests, Ending(r) PROVE StepsHeld'
    <2>1. tx' = [tx EXCEPT ![r] = Done] /\ Release(r)
      BY <1>2 DEF Ending, Commit, RollBack, BreakDeadlock, EndWithoutEffect
    <2>2. \A s \in Steps : lock'[s] # None => lock'[s] = lock[s] /\ lock[s] # r
      BY <2>1 DEF Release, Records
    <2>3. \A q \in Requests \ {r} : tx'[q] = tx[q]
      BY <2>1 DEF TypeOK
    <2>4. \A s \in Steps : lock[s] # None => lock[s] \in Requests
      BY DEF TypeOK, Records
    <2> QED
      BY <2>2, <2>3, <2>4 DEF StepsHeld
  <1> QED
    BY <1>1, <1>2, LocalStepsHeld DEF Next, Proceed, Inside, Ending

\* However many requests wait for each other's rows in a circle, two of them wait
\* for each other directly: the document's row and one step's are all a deadlock
\* can be about, so Postgres always finds one to fail (BreakDeadlock).
THEOREM DeadlocksBreak == Spec => []DeadlocksArePairs
  <1>1. TypeOK /\ StepsHeld => DeadlocksArePairs
    <2> SUFFICES ASSUME TypeOK, StepsHeld, NEW D \in SUBSET Open, NEW r0 \in D,
                        \A r \in D : \E q \in D : WaitsFor(r, q)
                 PROVE  \E r, q \in D : WaitsFor(r, q) /\ WaitsFor(q, r)
      BY DEF DeadlocksArePairs
    <2>1. \A r \in D : r \in Requests /\ Needs(r) # None
      BY DEF Open, WaitsFor
    <2>2. \A r \in D : Needs(r) \in Records
      <3> SUFFICES ASSUME NEW r \in D PROVE Needs(r) \in Records
        OBVIOUS
      <3>1. r \in Requests /\ Needs(r) # None /\ tx[r] \in Tx
        BY <2>1 DEF TypeOK
      <3> QED
        BY <3>1 DEF Needs, Tx, Records
    <2>3. ASSUME NEW q \in D, NEW s \in Steps, lock[s] = q PROVE Needs(q) = Doc
      <3>1. q # None
        BY <2>1, ApprovalAssumption
      <3>2. tx[q].at \in {"rollup", "fetch", "cascade", "respond"}
        BY <2>3, <3>1 DEF StepsHeld
      <3> QED
        BY <2>1, <3>2 DEF Needs
    <2>4. ASSUME NEW q \in D, lock[Doc] = q
          PROVE  \E r \in D, p \in D : WaitsFor(r, p) /\ WaitsFor(p, r)
      <3>1. PICK p \in D : WaitsFor(q, p)
        OBVIOUS
      <3>2. Needs(q) # Doc /\ lock[Needs(q)] = p /\ q # p
        BY <2>4, <3>1 DEF WaitsFor
      <3>3. Needs(q) \in Steps
        BY <2>2, <3>2 DEF Records
      <3>4. Needs(p) = Doc
        BY <2>3, <3>2, <3>3
      <3>5. WaitsFor(p, q)
        BY <2>1, <2>4, <3>2, <3>4 DEF WaitsFor
      <3> QED
        BY <3>1, <3>5
    <2>5. PICK r1 \in D : WaitsFor(r0, r1)
      OBVIOUS
    <2>6. CASE Needs(r0) = Doc
      BY <2>4, <2>5, <2>6 DEF WaitsFor
    <2>7. CASE Needs(r0) # Doc
      <3>1. Needs(r0) \in Steps /\ lock[Needs(r0)] = r1
        BY <2>2, <2>5, <2>7 DEF WaitsFor, Records
      <3>2. Needs(r1) = Doc
        BY <2>3, <3>1
      <3>3. PICK r2 \in D : WaitsFor(r1, r2)
        OBVIOUS
      <3> QED
        BY <2>4, <3>2, <3>3 DEF WaitsFor
    <2> QED
      BY <2>6, <2>7
  <1>2. IInv => TypeOK
    BY DEF IInv
  <1>3. Init => StepsHeld
    <2> SUFFICES ASSUME Init PROVE \A s \in Steps : lock[s] = None
      BY DEF StepsHeld
    <2>1. lock = [x \in Records |-> None]
      BY Zenon DEF Init
    <2> QED
      BY <2>1 DEF Records
  <1>4. TypeOK /\ StepsHeld /\ [Next]_vars => StepsHeld'
    BY StepStepsHeld
  <1> QED
    BY <1>1, <1>2, <1>3, <1>4, InitIInv, StepIInv, PTL DEF Spec

-----------------------------------------------------------------------------
(* One request at a time.  An open request then works on the committed rows *)
(* themselves, so its course tells what its commit will show.              *)

Alone == \A q, r \in Open : q = r

\* The steps that read d once r has committed.
StandingFor(r, d) == {s \in Steps : StepSeenBy(r, s).decision = d}

\* The status a document under review is owed then.
Owed(r) ==
    IF doc.status = "In Review"
    THEN NewStatus(Verdict(StandingFor(r, "Approved"), StandingFor(r, "Rejected"), Steps),
                   doc.status)
    ELSE doc.status

\* A decision on a step: taken from a Pending row, followed by its rollup.
Decides(r) ==
    LET t == tx[r] IN
    /\ t.event \in StepEvents /\ t.rec \in Steps /\ t.wrote \subseteq {t.rec, Doc}
    /\ t.at \notin {"check", "idle", "done"}
    /\ t.at \in {"mode", "guard", "sign", "stamp", "write"} =>
            t.row = step[t.rec] /\ t.row.decision = "Pending" /\ t.rec \notin t.wrote
    /\ t.at \in {"mode", "guard", "sign", "stamp"} => t.wrote = {}
    /\ t.at \in {"sign", "stamp"} => t.event = "approve"
    /\ t.at = "stamp" => t.docRow = doc
    /\ t.at \in {"rollup", "fetch", "cascade"} => t.rec \in t.wrote
    /\ t.rec \in t.wrote => step[t.rec].decision = "Pending" /\ t.row = Decide(step[t.rec], t.event)
    /\ t.at \in {"write", "rollup", "fetch"} => DocSeenBy(r).status = doc.status
    /\ \/ DocSeenBy(r).signed = doc.signed
       \/ t.event = "approve" /\ DocSeenBy(r).signed = doc.signed \cup {t.rec}
    /\ t.at \in {"fetch", "cascade"} /\ Initial = Steps =>
            t.verdict = Verdict(StandingFor(r, "Approved"), StandingFor(r, "Rejected"), Steps)
    /\ t.at = "cascade" => doc.status = "In Review" /\ t.docRow = DocSeenBy(r)
                           /\ t.docRow.status = "In Review"
    /\ t.at = "respond" /\ t.rec \notin t.wrote => t.wrote = {}
    /\ t.at = "respond" /\ t.rec \in t.wrote /\ Initial = Steps => DocSeenBy(r).status = Owed(r)

\* Submit or withdraw, from Draft.
Moves(r) ==
    LET t == tx[r] IN
    /\ t.event \in DocEvents /\ t.rec = Doc /\ t.wrote \subseteq {Doc}
    /\ t.at \in {"write", "respond"}
    /\ t.at = "write" => t.wrote = {} /\ t.docRow = doc /\ doc.status = "Draft"
    /\ Doc \in t.wrote => t.docRow = Moved(doc, t.event) /\ doc.status = "Draft"

\* A form: what it writes leaves decisions, status and signatures as they were.
Edits(r) ==
    LET t == tx[r] IN
    /\ t.event \in {"edit", "create"} /\ t.wrote \subseteq {t.rec}
    /\ t.at \in {"check", "write", "respond"}
    /\ t.rec \in Steps =>
            /\ t.row.decision = IF t.event = "edit" THEN step[t.rec].decision ELSE "Pending"
            /\ (t.event = "edit") = Exists(t.rec)
            /\ t.at = "write" \/ t.rec \in t.wrote => ~Taken(t.rec, t.row)
    /\ t.rec \notin Steps => /\ t.event = "edit" /\ t.rec = Doc
                             /\ t.docRow.status = doc.status /\ t.docRow.signed = doc.signed

SoloInv == Alone /\ \A r \in Open : Decides(r) \/ Moves(r) \/ Edits(r)

\* Nobody else's request is open when one is.
LEMMA NobodyElse ==
  ASSUME TypeOK, Alone, MaxOpen = 1, NEW r \in Requests, Start(r)
  PROVE  Open = {}
  <1> SUFFICES ASSUME NEW q \in Open PROVE FALSE
    OBVIOUS
  <1>1. Open = {q}
    BY DEF Alone
  <1>2. Cardinality(Open) = 1
    BY <1>1, FS_Singleton
  <1> QED
    BY <1>2 DEF Start

\* A request that arrives, or goes on, is the only one.
LEMMA StaysAlone ==
  ASSUME TypeOK, Alone, MaxOpen = 1, NEW r \in Requests, Arrive(r) \/ Inside(r)
  PROVE  Alone' /\ Open' \subseteq {r}
  <1>1. Open \subseteq {r}
    <2>1. CASE Arrive(r)
      BY <2>1, NobodyElse
         DEF Arrive, TriggerStep, TriggerDoc, EditStep, EditDoc, CreateStep, Begin
    <2>2. CASE Inside(r)
      <3>1. r \in Open
        BY <2>2 DEF Inside, Refuse, ReadMode, PassGuard, CheckSequence, Sign, Stamp,
                    WriteStep, WriteDoc, Rollup, Fetch, Cascade, Open
      <3> QED
        BY <3>1 DEF Alone
    <2> QED
      BY <2>1, <2>2
  <1>2. \A q \in Requests \ {r} : tx'[q] = tx[q]
    BY LocalFrame
  <1> QED
    BY <1>1, <1>2 DEF Alone, Open

Course(r) == Decides(r) \/ Moves(r) \/ Edits(r)

\* A request that has just arrived is on course.
LEMMA ArriveOnCourse ==
  ASSUME TypeOK, NEW r \in Requests, Arrive(r)
  PROVE  Course(r)'
  <1>0. /\ step \in [Steps -> StepRow] /\ doc \in DocRow /\ Doc \notin Steps
        /\ tx \in [Requests -> Tx]
    BY ApprovalAssumption DEF TypeOK
  <1>1. ASSUME NEW e, NEW x, NEW at, NEW row, NEW docRow, Begin(r, e, x, at, row, docRow)
        PROVE  /\ tx'[r].event = e /\ tx'[r].rec = x /\ tx'[r].at = at /\ tx'[r].row = row
               /\ tx'[r].docRow = docRow /\ tx'[r].wrote = {}
               /\ step' = step /\ doc' = doc
    BY <1>0, <1>1 DEF Begin, Idle
  <1>2. CASE \E s \in Steps, e \in StepEvents : TriggerStep(r, e, s)
    <2>1. PICK s \in Steps, e \in StepEvents : TriggerStep(r, e, s)
      BY <1>2
    <2>2. PICK at : /\ Begin(r, e, s, at, step[s], Idle.docRow)
                    /\ at = IF StepCondition(step[s]) THEN "mode" ELSE "respond"
      BY <2>1 DEF TriggerStep
    <2>3. /\ tx'[r].event = e /\ tx'[r].rec = s /\ tx'[r].at = at /\ tx'[r].row = step[s]
          /\ tx'[r].wrote = {} /\ step' = step /\ doc' = doc
      BY <1>1, <2>2
    <2>4. DocSeenBy(r)' = doc
      BY <2>3 DEF DocSeenBy
    <2>5. (at = "mode" /\ step[s].decision = "Pending") \/ at = "respond"
      BY <2>2 DEF StepCondition
    <2> QED
      BY <2>3, <2>4, <2>5 DEF Course, Decides
  <1>3. CASE \E e \in DocEvents : TriggerDoc(r, e)
    <2>1. PICK e \in DocEvents : TriggerDoc(r, e)
      BY <1>3
    <2>2. PICK at : /\ Begin(r, e, Doc, at, Nothing, doc)
                    /\ at = IF DocCondition(doc) THEN "write" ELSE "respond"
      BY <2>1 DEF TriggerDoc
    <2>3. /\ tx'[r].event = e /\ tx'[r].rec = Doc /\ tx'[r].at = at /\ tx'[r].docRow = doc
          /\ tx'[r].wrote = {} /\ step' = step /\ doc' = doc
      BY <1>1, <2>2
    <2> QED
      BY <2>2, <2>3 DEF Course, Moves, DocCondition
  <1>4. CASE \E s \in Steps : \E q \in Sequences \cup {step[s].seq} : EditStep(r, s, q)
    <2>0. PICK s \in Steps : \E q \in Sequences \cup {step[s].seq} : EditStep(r, s, q)
      BY <1>4
    <2>1. PICK q \in Sequences \cup {step[s].seq} : EditStep(r, s, q)
      BY <2>0
    <2>2. /\ Exists(s)
          /\ Begin(r, "edit", s, "check", [step[s] EXCEPT !.seq = q], Idle.docRow)
      BY <2>1 DEF EditStep
    <2>3. /\ tx'[r].event = "edit" /\ tx'[r].rec = s /\ tx'[r].at = "check"
          /\ tx'[r].row = [step[s] EXCEPT !.seq = q]
          /\ tx'[r].wrote = {} /\ step' = step
      BY <1>1, <2>2
    <2>4. tx'[r].row.decision = step[s].decision
      BY <1>0, <2>3 DEF StepRow
    <2> QED
      BY <2>2, <2>3, <2>4 DEF Course, Edits, Exists
  <1>5. CASE \E m \in Modes : EditDoc(r, m)
    <2>1. PICK m \in Modes : Begin(r, "edit", Doc, "write", Nothing, [doc EXCEPT !.mode = m])
      BY <1>5 DEF EditDoc
    <2>2. /\ tx'[r].event = "edit" /\ tx'[r].rec = Doc /\ tx'[r].at = "write"
          /\ tx'[r].docRow = [doc EXCEPT !.mode = m] /\ tx'[r].wrote = {} /\ doc' = doc
      BY <1>1, <2>1
    <2>3. tx'[r].docRow.status = doc.status /\ tx'[r].docRow.signed = doc.signed
      BY <1>0, <2>2 DEF DocRow
    <2> QED
      BY <1>0, <2>2, <2>3 DEF Course, Edits
  <1>6. CASE \E s \in Steps, q \in Sequences : CreateStep(r, s, q)
    <2>1. PICK s \in Steps, q \in Sequences :
            /\ ~Exists(s)
            /\ Begin(r, "create", s, "check", [decision |-> "Pending", seq |-> q], Idle.docRow)
      BY <1>6 DEF CreateStep
    <2>2. /\ tx'[r].event = "create" /\ tx'[r].rec = s /\ tx'[r].at = "check"
          /\ tx'[r].row = [decision |-> "Pending", seq |-> q]
          /\ tx'[r].wrote = {} /\ step' = step
      BY <1>1, <2>1
    <2> QED
      BY <2>1, <2>2 DEF Course, Edits, Exists
  <1> QED
    BY <1>2, <1>3, <1>4, <1>5, <1>6 DEF Arrive

\* Every statement of a decision keeps it on course: the rollup counts exactly
\* the decisions that its commit will show.
LEMMA DecidesOn ==
  ASSUME IInv, NEW r \in Requests, Decides(r), Inside(r)
  PROVE  Decides(r)'
  <1> DEFINE t == tx[r]
             u == tx'[r]
             x == t.rec
  <1>0. /\ tx \in [Requests -> Tx] /\ t \in Tx /\ Doc \notin Steps
        /\ step \in [Steps -> StepRow] /\ doc \in DocRow
        /\ UNCHANGED <<step, doc>> /\ TypeOK
    BY ApprovalAssumption, LocalFrame DEF IInv, TypeOK
  <1>1. /\ t.event \in StepEvents /\ x \in Steps /\ t.wrote \subseteq {x, Doc} /\ x # Doc
    BY <1>0 DEF Decides
  <1>2. ASSUME u.row = t.row, u.rec = x, u.wrote \cap Steps = t.wrote \cap Steps
        PROVE  /\ StandingFor(r, "Approved")' = StandingFor(r, "Approved")
               /\ StandingFor(r, "Rejected")' = StandingFor(r, "Rejected")
    BY <1>0, <1>2 DEF StandingFor, StepSeenBy
  <1>3. CASE Refuse(r)
    <2>1. /\ t.at \in {"mode", "guard"} /\ u.at = "respond" /\ u.row = t.row /\ u.wrote = t.wrote
          /\ u.event = t.event /\ u.rec = x
      BY <1>0, <1>1, <1>3 DEF Refuse, GoTo, Decides, Tx
    <2>2. DocSeenBy(r)' = doc
      BY <1>0, <2>1 DEF Decides, DocSeenBy
    <2> QED
      BY <1>0, <1>1, <2>1, <2>2 DEF Decides
  <1>4. CASE ReadMode(r) \/ PassGuard(r)
    <2>1. /\ t.at \in {"mode", "guard"} /\ u.at \in {"guard", "sign", "write"}
          /\ u.at = "sign" => t.event = "approve"
          /\ u.row = t.row /\ u.wrote = t.wrote /\ u.event = t.event /\ u.rec = x
      BY <1>0, <1>4 DEF ReadMode, PassGuard, Accept, GoTo, Tx
    <2>2. DocSeenBy(r)' = doc
      BY <1>0, <2>1 DEF Decides, DocSeenBy
    <2> QED
      BY <1>0, <1>1, <2>1, <2>2 DEF Decides
  <1>5. CASE Sign(r)
    <2>1. /\ t.at = "sign" /\ u.at = "stamp" /\ u.docRow = DocSeenBy(r)
          /\ u.row = t.row /\ u.wrote = t.wrote /\ u.event = t.event /\ u.rec = x
      BY <1>0, <1>5 DEF Sign, Tx
    <2>2. DocSeenBy(r) = doc /\ DocSeenBy(r)' = doc
      BY <1>0, <2>1 DEF Decides, DocSeenBy
    <2> QED
      BY <1>0, <1>1, <2>1, <2>2 DEF Decides
  <1>6. CASE Stamp(r)
    <2>1. /\ t.at = "stamp" /\ u.at = "write"
          /\ u.docRow = [t.docRow EXCEPT !.signed = @ \cup {x}]
          /\ u.row = t.row /\ u.wrote = t.wrote \cup {Doc} /\ u.event = t.event /\ u.rec = x
      BY <1>0, <1>6 DEF Stamp, Tx
    <2>2. t.docRow = doc /\ t.event = "approve" /\ t.wrote = {}
      BY <2>1 DEF Decides
    <2>3. DocSeenBy(r)'.status = doc.status /\ DocSeenBy(r)'.signed = doc.signed \cup {x}
      BY <1>0, <2>1, <2>2 DEF DocSeenBy, DocRow
    <2> QED
      BY <1>0, <1>1, <2>1, <2>2, <2>3 DEF Decides
  <1>7. CASE WriteStep(r)
    <2>1. /\ t.at = "write" /\ u.at = "rollup" /\ u.row = Decide(t.row, t.event)
          /\ u.docRow = t.docRow /\ u.wrote = t.wrote \cup {x} /\ u.event = t.event /\ u.rec = x
      BY <1>0, <1>1, <1>7 DEF WriteStep, Tx
    <2>2. DocSeenBy(r)' = DocSeenBy(r)
      BY <1>0, <1>1, <2>1 DEF DocSeenBy
    <2> QED
      BY <1>0, <1>1, <2>1, <2>2 DEF Decides
  <1>8. CASE Rollup(r)
    <2> DEFINE A == StandingFor(r, "Approved")
               R == StandingFor(r, "Rejected")
    <2>1. /\ t.at = "rollup" /\ u.at \in {"respond", "fetch"}
          /\ u.at = "respond" => u.verdict = "none"
          /\ u.docRow = t.docRow /\ u.row = t.row /\ u.wrote = t.wrote
          /\ u.event = t.event /\ u.rec = x
      BY <1>0, <1>8 DEF Rollup, Tx
    <2>2. DocSeenBy(r)' = DocSeenBy(r) /\ DocSeenBy(r).status = doc.status
      BY <1>0, <2>1 DEF DocSeenBy, Decides
    <2>3. /\ StandingFor(r, "Approved")' = StandingFor(r, "Approved")
          /\ StandingFor(r, "Rejected")' = StandingFor(r, "Rejected")
      BY <1>2, <2>1
    <2>4. Initial = Steps => u.verdict = Verdict(A, R, Steps)
      <3> SUFFICES ASSUME Initial = Steps PROVE u.verdict = Verdict(A, R, Steps)
        OBVIOUS
      <3>1. \A s \in Steps : StepSeenBy(r, s).decision # "Absent"
        BY DEF IInv, Settled, InFlight, StepSeenBy, Exists
      <3>2. /\ {s \in Steps : StepSeenBy(r, s).decision # "Absent"} = Steps
        BY <3>1
      <3> QED
        BY <1>0, <1>8, <3>2 DEF Rollup, Tx, StandingFor
    <2>5. Initial = Steps /\ u.at = "respond" => Owed(r) = doc.status
      <3>1. Initial = Steps /\ u.at = "respond" => Verdict(A, R, Steps) = "none"
        BY <2>1, <2>4
      <3> QED
        BY <3>1 DEF Owed, NewStatus
    <2>6. Owed(r)' = Owed(r)
      BY <1>0, <2>3 DEF Owed
    <2> QED
      BY <1>0, <1>1, <2>1, <2>2, <2>3, <2>4, <2>5, <2>6 DEF Decides
  <1>9. CASE Fetch(r)
    <2>1. /\ t.at = "fetch" /\ u.docRow = DocSeenBy(r)
          /\ u.at = IF DocSeenBy(r).status = "In Review" THEN "cascade" ELSE "respond"
          /\ u.row = t.row /\ u.wrote = t.wrote /\ u.event = t.event /\ u.rec = x
          /\ u.verdict = t.verdict
      BY <1>0, <1>9 DEF Fetch, Tx
    <2>2. DocSeenBy(r)' = DocSeenBy(r) /\ DocSeenBy(r).status = doc.status
      BY <1>0, <2>1 DEF DocSeenBy, Decides
    <2>3. /\ StandingFor(r, "Approved")' = StandingFor(r, "Approved")
          /\ StandingFor(r, "Rejected")' = StandingFor(r, "Rejected")
      BY <1>2, <2>1
    <2>4. u.at = "respond" => Owed(r)' = doc.status
      BY <1>0, <2>1, <2>2 DEF Owed
    <2> QED
      BY <1>0, <1>1, <2>1, <2>2, <2>3, <2>4 DEF Decides
  <1>10. CASE Cascade(r)
    <2> DEFINE A == StandingFor(r, "Approved")
               R == StandingFor(r, "Rejected")
    <2>1. /\ t.at = "cascade" /\ u.at = "respond" /\ u.docRow = Moved(t.docRow, t.verdict)
          /\ u.row = t.row /\ u.wrote = t.wrote \cup {Doc} /\ u.event = t.event /\ u.rec = x
      BY <1>0, <1>10 DEF Cascade, Tx
    <2>2. doc.status = "In Review" /\ t.docRow = DocSeenBy(r) /\ t.docRow.status = "In Review"
      BY <2>1 DEF Decides
    <2>3. /\ DocSeenBy(r)'.status = NewStatus(t.verdict, "In Review")
          /\ DocSeenBy(r)'.signed = DocSeenBy(r).signed
      BY <1>0, <2>1, <2>2 DEF DocSeenBy, Moved, Tx, DocRow
    <2>4. /\ StandingFor(r, "Approved")' = StandingFor(r, "Approved")
          /\ StandingFor(r, "Rejected")' = StandingFor(r, "Rejected")
      BY <1>0, <1>2, <2>1
    <2>5. Initial = Steps => DocSeenBy(r)'.status = Owed(r)
      BY <2>1, <2>2, <2>3 DEF Decides, Owed
    <2>6. Owed(r)' = Owed(r)
      BY <1>0, <2>4 DEF Owed
    <2>7. x \in t.wrote
      BY <2>1 DEF Decides
    <2> QED
      BY <1>0, <1>1, <2>1, <2>2, <2>3, <2>4, <2>5, <2>6, <2>7 DEF Decides
  <1>11. ~(CheckSequence(r) \/ WriteDoc(r))
    BY <1>0, <1>1 DEF CheckSequence, WriteDoc, Decides
  <1> QED
    BY <1>3, <1>4, <1>5, <1>6, <1>7, <1>8, <1>9, <1>10, <1>11 DEF Inside

\* So do the statements of the document's own events and of forms.
LEMMA MovesOn ==
  ASSUME IInv, NEW r \in Requests, Moves(r), Inside(r)
  PROVE  Moves(r)'
  <1> DEFINE t == tx[r]
             u == tx'[r]
  <1>0. /\ tx \in [Requests -> Tx] /\ t \in Tx /\ Doc \notin Steps
        /\ UNCHANGED <<step, doc>>
    BY ApprovalAssumption, LocalFrame DEF IInv, TypeOK
  <1>1. t.event \in DocEvents /\ t.rec = Doc /\ t.at \in {"write", "respond"}
    BY DEF Moves
  <1>2. Refuse(r) \/ WriteDoc(r)
    BY <1>0, <1>1 DEF Inside, ReadMode, PassGuard, CheckSequence, Sign, Stamp, WriteStep,
                      Rollup, Fetch, Cascade
  <1>3. CASE Refuse(r)
    BY <1>0, <1>1, <1>3 DEF Refuse, GoTo, Moves, Tx
  <1>4. CASE WriteDoc(r)
    <2>1. /\ t.at = "write" /\ u.at = "respond" /\ u.docRow = Moved(t.docRow, t.event)
          /\ u.wrote = t.wrote \cup {Doc} /\ u.event = t.event /\ u.rec = Doc
      BY <1>0, <1>1, <1>4 DEF WriteDoc, Tx
    <2> QED
      BY <1>0, <1>1, <2>1 DEF Moves
  <1> QED
    BY <1>2, <1>3, <1>4

LEMMA EditsOn ==
  ASSUME IInv, NEW r \in Requests, Edits(r), Inside(r)
  PROVE  Edits(r)'
  <1> DEFINE t == tx[r]
             u == tx'[r]
             x == t.rec
  <1>0. /\ tx \in [Requests -> Tx] /\ t \in Tx /\ Doc \notin Steps
        /\ UNCHANGED <<step, doc>>
    BY ApprovalAssumption, LocalFrame DEF IInv, TypeOK
  <1>1. /\ t.event \in {"edit", "create"} /\ t.event \notin StepEvents \cup DocEvents
        /\ t.at \in {"check", "write", "respond"} /\ t.wrote \subseteq {x}
    BY DEF Edits, StepEvents, DocEvents
  <1>2. Refuse(r) \/ CheckSequence(r) \/ WriteStep(r) \/ WriteDoc(r)
    BY <1>0, <1>1 DEF Inside, ReadMode, PassGuard, Sign, Stamp, Rollup, Fetch, Cascade
  <1>3. CASE Refuse(r) \/ CheckSequence(r)
    <2>1. /\ u.at \in {"write", "respond"} /\ u.row = t.row /\ u.docRow = t.docRow
          /\ u.wrote = t.wrote /\ u.event = t.event /\ u.rec = x
          /\ u.at = "write" => ~Taken(x, t.row)
      BY <1>0, <1>3 DEF Refuse, CheckSequence, GoTo, Tx
    <2>2. \A y, row : Taken(y, row)' = Taken(y, row)
      BY <1>0 DEF Taken, Exists
    <2> QED
      BY <1>0, <1>1, <2>1, <2>2 DEF Edits, Exists, Taken
  <1>4. CASE WriteStep(r)
    <2>1. /\ t.at = "write" /\ x \in Steps /\ u.at = "respond" /\ u.row = Decide(t.row, t.event)
          /\ u.wrote = t.wrote \cup {x} /\ u.event = t.event /\ u.rec = x
      BY <1>0, <1>1, <1>4 DEF WriteStep, Tx
    <2>2. u.row.decision = t.row.decision /\ u.row.seq = t.row.seq
      BY <1>0, <1>1, <2>1 DEF Decide, NewDecision, Tx, StepRow
    <2>3. ~Taken(x, t.row)
      BY <2>1 DEF Edits
    <2>4. ~Taken(tx[r].rec, tx[r].row)'
      BY <1>0, <2>1, <2>2, <2>3 DEF Taken, Exists
    <2> QED
      BY <1>0, <1>1, <2>1, <2>2, <2>4 DEF Edits, Exists
  <1>5. CASE WriteDoc(r)
    <2>1. /\ t.at = "write" /\ x = Doc /\ u.at = "respond" /\ u.docRow = Moved(t.docRow, t.event)
          /\ u.wrote = t.wrote \cup {x} /\ u.event = t.event /\ u.rec = x
      BY <1>0, <1>1, <1>5 DEF WriteDoc, Tx
    <2>2. u.docRow.status = t.docRow.status /\ u.docRow.signed = t.docRow.signed
      BY <1>0, <1>1, <2>1 DEF Moved, NewStatus, Tx, DocRow
    <2> QED
      BY <1>0, <1>1, <2>1, <2>2 DEF Edits
  <1> QED
    BY <1>2, <1>3, <1>4, <1>5

\* The invariant of requests that come one at a time.
LEMMA SoloStep ==
  ASSUME MaxOpen = 1, IInv, SoloInv, [Next]_vars
  PROVE  SoloInv'
  <1>1. ASSUME NEW r \in Requests, Arrive(r) \/ Inside(r) PROVE SoloInv'
    <2>1. Alone' /\ Open' \subseteq {r}
      BY <1>1, StaysAlone DEF IInv, SoloInv
    <2>2. Course(r)'
      <3>1. CASE Arrive(r)
        BY <3>1, ArriveOnCourse DEF IInv
      <3>2. CASE Inside(r)
        <4>1. r \in Open
          BY <3>2 DEF Inside, Refuse, ReadMode, PassGuard, CheckSequence, Sign, Stamp,
                      WriteStep, WriteDoc, Rollup, Fetch, Cascade, Open
        <4> QED
          BY <3>2, <4>1, DecidesOn, MovesOn, EditsOn DEF Course, SoloInv
      <3> QED
        BY <1>1, <3>1, <3>2
    <2> QED
      BY <2>1, <2>2 DEF SoloInv, Course
  <1>2. ASSUME NEW r \in Requests, Ending(r) PROVE SoloInv'
    <2>1. r \in Open
      BY <1>2 DEF Ending, Commit, RollBack, BreakDeadlock, Open
    <2>2. tx' = [tx EXCEPT ![r] = Done]
      BY <1>2, EndingFrame DEF IInv
    <2>3. Open' = {}
      BY <2>1, <2>2 DEF Open, Done, Idle, SoloInv, Alone, IInv, TypeOK
    <2> QED
      BY <2>3 DEF SoloInv, Alone
  <1>3. CASE UNCHANGED vars
    <2>1. Open' = Open
      BY <1>3 DEF vars, Open
    <2> SUFFICES ASSUME NEW r \in Open PROVE Course(r)'
      BY <2>1 DEF SoloInv, Alone, Course
    <2>2. /\ StandingFor(r, "Approved")' = StandingFor(r, "Approved")
          /\ StandingFor(r, "Rejected")' = StandingFor(r, "Rejected")
          /\ DocSeenBy(r)' = DocSeenBy(r) /\ tx'[r] = tx[r] /\ step' = step /\ doc' = doc
      BY <1>3 DEF vars, StandingFor, StepSeenBy, DocSeenBy
    <2>3. Decides(r) => Decides(r)'
      BY <2>2 DEF Decides, Owed
    <2>4. Moves(r) => Moves(r)'
      BY <2>2 DEF Moves
    <2>5. Edits(r) => Edits(r)'
      BY <2>2 DEF Edits, Exists, Taken
    <2> QED
      BY <2>3, <2>4, <2>5 DEF SoloInv, Course
  <1> QED
    BY <1>1, <1>2, <1>3 DEF Next, Proceed, Inside, Ending

LEMMA Solo ==
  ASSUME MaxOpen = 1 PROVE Spec => [](IInv /\ SoloInv)
  <1>1. Init => SoloInv
    <2> SUFFICES ASSUME Init PROVE Open = {}
      BY DEF SoloInv, Alone
    <2> QED
      BY DEF Init, Open, Idle
  <1>2. IInv /\ SoloInv /\ [Next]_vars => SoloInv'
    BY SoloStep
  <1> QED
    BY <1>1, <1>2, InitIInv, StepIInv, PTL DEF Spec

\* The abstract module counts as this one does.
LEMMA SameCardinality == \A S : AsVerdict!Cardinality(S) = Cardinality(S)
  BY DEF AsVerdict!Cardinality, Cardinality

\* Counting from either end.
LEMMA Margins ==
  ASSUME NEW a \in Nat, NEW k \in Nat, NEW m \in Nat, NEW n \in Nat
  PROVE  /\ k > n - m => n - k < m
         /\ n - k < m => k > n - m
         /\ a <= n /\ a >= n => a = n
         /\ a = n => a >= n
         /\ k # 0 => n - k < n
         /\ n - k < n => k # 0
  OBVIOUS

\* doAggregateStatus, with its two orders of cases, is the abstract verdict.
LEMMA VerdictSettles ==
  ASSUME NEW A \in SUBSET Steps, NEW R \in SUBSET Steps, A \cap R = {}, doc.status = "In Review"
  PROVE  /\ NewStatus(Verdict(A, R, Steps), "In Review") = AsVerdict!Settle(A, R)
         /\ Verdict(A, R, Steps) = "none" => AsVerdict!Settle(A, R) = "In Review"
  <1> DEFINE threshold == IF MinApprovals > 0 THEN MinApprovals ELSE Cardinality(Steps)
  <1>1. IsFiniteSet(Steps) /\ IsFiniteSet(A) /\ IsFiniteSet(R)
    BY ApprovalAssumption, FS_Subset
  <1>2. /\ Cardinality(A) \in Nat /\ Cardinality(R) \in Nat /\ Cardinality(Steps) \in Nat
        /\ Cardinality(Steps \ R) = Cardinality(Steps) - Cardinality(R)
        /\ Cardinality(A) <= Cardinality(Steps)
        /\ Cardinality(A) = Cardinality(Steps) => A = Steps
        /\ Cardinality(R) = 0 <=> R = {}
    <2>1. Steps \cap R = R
      OBVIOUS
    <2>2. Cardinality(Steps \ R) = Cardinality(Steps) - Cardinality(R)
      BY <1>1, <2>1, FS_Difference
    <2>3. /\ Cardinality(A) <= Cardinality(Steps)
          /\ Cardinality(A) = Cardinality(Steps) => A = Steps
      BY <1>1, FS_Subset
    <2> QED
      BY <1>1, <2>2, <2>3, FS_CardinalityType, FS_EmptySet
  <1>3. AsVerdict!Settle(A, R) =
            IF Cardinality(A) >= threshold THEN "Approved"
            ELSE IF Cardinality(Steps \ R) < threshold THEN "Rejected" ELSE "In Review"
    BY SameCardinality DEF AsVerdict!Settle, AsVerdict!Reachable
  <1>4. PICK a \in Nat, n \in Nat, k \in Nat :
            /\ a = Cardinality(A) /\ k = Cardinality(R) /\ n = Cardinality(Steps)
            /\ n - k = Cardinality(Steps \ R) /\ a <= n
            /\ a = n <=> A = Steps
            /\ k = 0 <=> R = {}
    BY <1>2
  <1>5. CASE MinApprovals > 0
    <2>0. threshold = MinApprovals /\ MinApprovals \in Nat
      BY <1>5, ApprovalAssumption
    <2> HIDE DEF threshold
    <2>1. /\ Enough(A, Steps) <=> a >= threshold
          /\ TooMany(R, Steps) <=> n - k < threshold
      <3>1. Enough(A, Steps) <=> a >= MinApprovals
        BY <1>4, <1>5 DEF Enough
      <3>2. TooMany(R, Steps) <=> k > n - MinApprovals
        BY <1>4, <1>5 DEF TooMany
      <3>3. k > n - MinApprovals <=> n - k < MinApprovals
        BY <2>0, Margins
      <3> QED
        BY <2>0, <3>1, <3>2, <3>3
    <2> QED
      BY <1>3, <1>4, <1>5, <2>1 DEF Verdict, NewStatus
  <1>6. CASE ~(MinApprovals > 0)
    <2>0. threshold = n
      BY <1>4, <1>6
    <2> HIDE DEF threshold
    <2>1. /\ Enough(A, Steps) <=> a >= threshold
          /\ TooMany(R, Steps) <=> n - k < threshold
      <3>1. Enough(A, Steps) <=> a = n
        BY <1>4, <1>6 DEF Enough
      <3>2. TooMany(R, Steps) <=> k # 0
        BY <1>4, <1>6 DEF TooMany
      <3>3. (a = n <=> a >= n) /\ (k # 0 <=> n - k < n)
        <4>1. a <= n
          BY <1>4
        <4> QED
          BY <4>1, Margins
      <3> QED
        BY <2>0, <3>1, <3>2, <3>3
    <2>2. ~(Enough(A, Steps) /\ TooMany(R, Steps))
      BY <1>6 DEF Enough, TooMany
    <2> QED
      BY <1>3, <1>4, <1>6, <2>1, <2>2 DEF Verdict, NewStatus
  <1> QED
    BY <1>5, <1>6


\* What a request owes is what the abstract document asks for.
LEMMA OwedSettles ==
  ASSUME NEW r
  PROVE  Owed(r) = AsVerdict!Settle(StandingFor(r, "Approved"), StandingFor(r, "Rejected"))
  <1> DEFINE A == StandingFor(r, "Approved")
             R == StandingFor(r, "Rejected")
  <1>1. A \in SUBSET Steps /\ R \in SUBSET Steps /\ A \cap R = {}
    BY DEF StandingFor
  <1>2. Owed(r) = IF doc.status = "In Review" THEN NewStatus(Verdict(A, R, Steps), "In Review")
                                              ELSE doc.status
    BY DEF Owed
  <1> HIDE DEF A, R
  <1>3. CASE doc.status = "In Review"
    BY <1>1, <1>2, <1>3, VerdictSettles DEF A, R
  <1>4. CASE doc.status # "In Review"
    BY <1>2, <1>4 DEF AsVerdict!Settle
  <1> QED
    BY <1>3, <1>4

\* A commit is a step of the abstract document, or changes nothing it shows.
LEMMA CommitImplements ==
  ASSUME IInv, Initial = Steps, NEW r \in Requests, Course(r), Commit(r)
  PROVE  [AsVerdict!Next]_(AsVerdict!vars)
  <1> DEFINE t == tx[r]
             x == t.rec
             A == StandingFor(r, "Approved")
             R == StandingFor(r, "Rejected")
  <1>0. /\ tx \in [Requests -> Tx] /\ t \in Tx /\ Doc \notin Steps
        /\ step \in [Steps -> StepRow] /\ doc \in DocRow /\ t.at = "respond"
    BY ApprovalAssumption DEF IInv, TypeOK, Commit
  <1>1. /\ doc' = DocSeenBy(r)
        /\ Standing("Approved")' = A /\ Standing("Rejected")' = R
    BY DEF Commit, Standing, StandingFor
  <1>2. ASSUME doc'.signed = doc.signed, doc'.status = doc.status,
               \A s \in Steps \cap t.wrote : t.row.decision = step[s].decision
                   \/ {t.row.decision, step[s].decision} \cap {"Approved", "Rejected"} = {}
        PROVE  UNCHANGED AsVerdict!vars
    <2>1. Standing("Approved")' = Standing("Approved") /\ Standing("Rejected")' = Standing("Rejected")
      <3>1. \A s \in Steps : \A d \in {"Approved", "Rejected"} :
              StepSeenBy(r, s).decision = d <=> step[s].decision = d
        BY <1>2 DEF StepSeenBy
      <3> QED
        BY <1>1, <3>1 DEF Standing, StandingFor
    <2> QED
      BY <1>2, <2>1 DEF AsVerdict!vars
  <1>3. CASE Decides(r)
    <2>1. CASE x \in t.wrote
      <3>1. /\ x \in Steps /\ t.event \in StepEvents /\ step[x].decision = "Pending"
            /\ t.row.decision = NewDecision(t.event, "Pending") /\ t.wrote \cap Steps = {x}
        BY <1>0, <1>3, <2>1 DEF Decides, Decide, StepRow
      <3>2. x \notin Standing("Approved") \cup Standing("Rejected")
        BY <3>1 DEF Standing
      <3>3. CASE t.event = "approve"
        <4>1. A = Standing("Approved") \cup {x} /\ R = Standing("Rejected")
          BY <3>1, <3>3 DEF Standing, StandingFor, StepSeenBy, NewDecision
        <4>2. doc'.signed \in {doc.signed, doc.signed \cup {x}}
          BY <1>1, <1>3 DEF Decides
        <4>3. doc'.status = AsVerdict!Settle(A, Standing("Rejected"))
          BY <1>0, <1>1, <1>3, <2>1, <4>1, OwedSettles DEF Decides
        <4>4. AsVerdict!Approve(x)
          BY <1>1, <3>2, <4>1, <4>2, <4>3 DEF AsVerdict!Approve
        <4> QED
          BY <3>1, <4>4 DEF AsVerdict!Next
      <3>4. CASE t.event = "reject"
        <4>1. R = Standing("Rejected") \cup {x} /\ A = Standing("Approved")
          BY <3>1, <3>4 DEF Standing, StandingFor, StepSeenBy, NewDecision
        <4>2. doc'.signed = doc.signed
          BY <1>1, <1>3, <3>4 DEF Decides
        <4>3. doc'.status = AsVerdict!Settle(Standing("Approved"), R)
          BY <1>0, <1>1, <1>3, <2>1, <4>1, OwedSettles DEF Decides
        <4>4. AsVerdict!Reject(x)
          BY <1>1, <3>2, <4>1, <4>2, <4>3 DEF AsVerdict!Reject
        <4> QED
          BY <3>1, <4>4 DEF AsVerdict!Next
      <3> QED
        BY <3>1, <3>3, <3>4 DEF StepEvents
    <2>2. CASE x \notin t.wrote
      BY <1>0, <1>1, <1>2, <1>3, <2>2 DEF Decides, DocSeenBy
    <2> QED
      BY <2>1, <2>2
  <1>4. CASE Moves(r)
    <2>1. t.wrote \cap Steps = {}
      BY <1>0, <1>4 DEF Moves
    <2>2. CASE Doc \in t.wrote
      <3>1. /\ t.event \in DocEvents /\ doc.status = "Draft" /\ doc'.signed = doc.signed
            /\ doc'.status = NewStatus(t.event, "Draft")
        BY <1>0, <1>1, <1>4, <2>2 DEF Moves, DocSeenBy, Moved, DocRow
      <3>2. Standing("Approved")' = Standing("Approved") /\ Standing("Rejected")' = Standing("Rejected")
        BY <1>1, <2>1 DEF Standing, StandingFor, StepSeenBy
      <3>3. AsVerdict!Submit \/ AsVerdict!Withdraw
        BY <3>1, <3>2 DEF DocEvents, NewStatus, AsVerdict!Submit, AsVerdict!Withdraw
      <3> QED
        BY <3>3 DEF AsVerdict!Next
    <2>3. CASE Doc \notin t.wrote
      BY <1>1, <1>2, <2>1, <2>3 DEF DocSeenBy
    <2> QED
      BY <2>2, <2>3
  <1>5. CASE Edits(r)
    <2>1. doc'.status = doc.status /\ doc'.signed = doc.signed
      BY <1>0, <1>1, <1>5 DEF Edits, DocSeenBy
    <2>2. \A s \in Steps \cap t.wrote : t.row.decision = step[s].decision
      BY <1>5, ApprovalAssumption DEF Edits, IInv, Settled
    <2> QED
      BY <1>2, <2>1, <2>2
  <1> QED
    BY <1>3, <1>4, <1>5 DEF Course

\* So does every other step: only commits show.
LEMMA StepImplements ==
  ASSUME IInv, SoloInv, Initial = Steps, [Next]_vars
  PROVE  [AsVerdict!Next]_(AsVerdict!vars)
  <1>1. CASE UNCHANGED <<step, doc>>
    BY <1>1 DEF AsVerdict!vars, Standing
  <1>2. ASSUME NEW r \in Requests, Commit(r) PROVE [AsVerdict!Next]_(AsVerdict!vars)
    <2>1. Course(r)
      BY <1>2 DEF Commit, Open, SoloInv, Course
    <2> QED
      BY <1>2, <2>1, CommitImplements
  <1>3. ASSUME NEW r \in Requests,
               Arrive(r) \/ Inside(r) \/ RollBack(r) \/ BreakDeadlock(r)
        PROVE  UNCHANGED <<step, doc>>
    BY <1>3, LocalFrame DEF IInv, RollBack, BreakDeadlock, EndWithoutEffect
  <1> QED
    BY <1>1, <1>2, <1>3 DEF Next, Proceed, Inside, vars

\* Among requests that do not overlap, and of steps that all exist, the handlers
\* implement the abstract document: the rollup fires exactly when it should,
\* with the right event, for any number of steps and any quorum.
THEOREM Implementation ==
  ASSUME MaxOpen = 1, Initial = Steps PROVE Spec => ImplementsVerdict
  <1>1. Init => AsVerdict!Init
    <2> SUFFICES ASSUME Init PROVE AsVerdict!Init
      OBVIOUS
    <2>1. PICK status \in {"Draft", "In Review"}, mode \in Modes : doc = NewDoc(status, mode)
      BY DEF Init
    <2>2. doc.status = status /\ doc.signed = {}
      BY <2>1 DEF NewDoc
    <2>3. Standing("Approved") = {} /\ Standing("Rejected") = {}
      BY DEF Init, Standing, Nothing
    <2> QED
      BY <2>2, <2>3 DEF AsVerdict!Init
  <1>2. IInv /\ SoloInv /\ [Next]_vars => [AsVerdict!Next]_(AsVerdict!vars)
    BY StepImplements
  <1> QED
    BY <1>1, <1>2, Solo, PTL DEF Spec, ImplementsVerdict, AsVerdict!Spec

\* The abstract document keeps its verdicts justified: approvals are never
\* taken back, and a quorum out of reach stays so.
LEMMA FinalStep ==
  ASSUME AsVerdict!Final, [AsVerdict!Next]_(AsVerdict!vars)
  PROVE  AsVerdict!Final'
  <1> DEFINE threshold == IF MinApprovals > 0 THEN MinApprovals ELSE Cardinality(Steps)
             Enough2(A) == Cardinality(A) >= threshold
             Lost(R) == Cardinality(Steps \ R) < threshold
  <1>0. IsFiniteSet(Steps) /\ threshold \in Nat
    BY ApprovalAssumption, FS_CardinalityType
  <1>1. PICK A \in SUBSET Steps, R \in SUBSET Steps, B \in SUBSET Steps, S \in SUBSET Steps :
          /\ A = Standing("Approved") /\ R = Standing("Rejected")
          /\ B = Standing("Approved")' /\ S = Standing("Rejected")'
    BY DEF Standing
  <1>2. ASSUME NEW X \in SUBSET Steps, NEW Y \in SUBSET Steps, X \subseteq Y
        PROVE  (Enough2(X) => Enough2(Y)) /\ (Lost(X) => Lost(Y))
    <2>1. /\ IsFiniteSet(X) /\ IsFiniteSet(Y) /\ Cardinality(X) <= Cardinality(Y)
          /\ IsFiniteSet(Steps \ X) /\ IsFiniteSet(Steps \ Y)
          /\ Cardinality(Steps \ Y) <= Cardinality(Steps \ X)
      <3>1. Steps \ Y \in SUBSET (Steps \ X) /\ Steps \ X \in SUBSET Steps
        BY <1>2
      <3> QED
        BY <1>0, <1>2, <3>1, FS_Subset
    <2>2. /\ Cardinality(X) \in Nat /\ Cardinality(Y) \in Nat
          /\ Cardinality(Steps \ X) \in Nat /\ Cardinality(Steps \ Y) \in Nat
      BY <2>1, FS_CardinalityType
    <2> QED
      BY <1>0, <2>1, <2>2
  <1>3. /\ doc.status = "Approved" => Enough2(A)
        /\ doc.status = "Rejected" => Lost(R)
    BY <1>1, SameCardinality DEF AsVerdict!Final, AsVerdict!Reachable
  <1> HIDE DEF threshold, Enough2, Lost
  <1>4. \A C, T : AsVerdict!Settle(C, T) =
            IF doc.status # "In Review" THEN doc.status
            ELSE IF Enough2(C) THEN "Approved" ELSE IF Lost(T) THEN "Rejected" ELSE doc.status
    BY SameCardinality DEF AsVerdict!Settle, AsVerdict!Reachable, Enough2, Lost, threshold
  <1>5. /\ doc'.status = "Approved" => Enough2(B)
        /\ doc'.status = "Rejected" => Lost(S)
    <2>1. ASSUME NEW s \in Steps, AsVerdict!Approve(s) PROVE <1>5
      <3>1. B = A \cup {s} /\ S = R /\ doc'.status = AsVerdict!Settle(B, R)
        BY <1>1, <2>1 DEF AsVerdict!Approve
      <3> QED
        BY <1>2, <1>3, <1>4, <3>1
    <2>2. ASSUME NEW s \in Steps, AsVerdict!Reject(s) PROVE <1>5
      <3>1. S = R \cup {s} /\ B = A /\ doc'.status = AsVerdict!Settle(A, S)
        BY <1>1, <2>2 DEF AsVerdict!Reject
      <3> QED
        BY <1>2, <1>3, <1>4, <3>1
    <2>3. CASE AsVerdict!Submit \/ AsVerdict!Withdraw
      BY <2>3 DEF AsVerdict!Submit, AsVerdict!Withdraw
    <2>4. CASE UNCHANGED AsVerdict!vars
      BY <1>1, <1>3, <2>4 DEF AsVerdict!vars
    <2> QED
      BY <2>1, <2>2, <2>3, <2>4 DEF AsVerdict!Next
  <1> QED
    BY <1>1, <1>5, SameCardinality
       DEF AsVerdict!Final, AsVerdict!Reachable, Enough2, Lost, threshold

\* A document that reads Approved has its quorum, one that reads Rejected could
\* not have reached it: carried over from the abstract document.
THEOREM VerdictsFinal ==
  ASSUME MaxOpen = 1, Initial = Steps PROVE Spec => []VerdictFinal
  <1>1. AsVerdict!Init => AsVerdict!Final
    BY DEF AsVerdict!Init, AsVerdict!Final
  <1>2. AsVerdict!Final /\ [AsVerdict!Next]_(AsVerdict!vars) => AsVerdict!Final'
    BY FinalStep
  <1>3. AsVerdict!Spec => []AsVerdict!Final
    BY <1>1, <1>2, PTL DEF AsVerdict!Spec
  <1> QED
    BY <1>3, Implementation, PTL DEF ImplementsVerdict, VerdictFinal

\* A commit of a request on course keeps Sequences apart.
LEMMA CommitUnique ==
  ASSUME IInv, UniqueSequence, NEW r \in Requests, Course(r), Commit(r)
  PROVE  UniqueSequence'
  <1> DEFINE t == tx[r]
             x == t.rec
  <1>0. /\ t \in Tx /\ Doc \notin Steps /\ step \in [Steps -> StepRow] /\ t.at = "respond"
    BY ApprovalAssumption DEF IInv, TypeOK, Commit
  <1>1. /\ step' = [s \in Steps |-> StepSeenBy(r, s)]
        /\ \A s \in Steps : s \in t.wrote => s = x
    BY DEF Commit, IInv, InFlight
  <1>2. \A s \in Steps \ {x} : step'[s] = step[s]
    BY <1>1 DEF StepSeenBy
  <1>3. CASE x \in Steps /\ x \in t.wrote
    <2>1. step'[x] = t.row
      BY <1>1, <1>3 DEF StepSeenBy
    <2>2. \/ Exists(x) /\ t.row.seq = step[x].seq
          \/ ~Taken(x, t.row)
      <3>1. Decides(r) => Exists(x) /\ t.row.seq = step[x].seq
        BY <1>0, <1>3 DEF Decides, Decide, Exists, StepRow
      <3>2. Edits(r) => ~Taken(x, t.row)
        BY <1>3 DEF Edits
      <3>3. ~Moves(r)
        BY <1>0, <1>3 DEF Moves
      <3> QED
        BY <3>1, <3>2, <3>3 DEF Course
    <2>3. \A s \in Steps \ {x} : Exists(s) => step[s].seq # t.row.seq
      BY <1>3, <2>2 DEF UniqueSequence, Present, Taken
    <2> QED
      BY <1>2, <2>1, <2>3 DEF UniqueSequence, Present, Exists
  <1>4. CASE ~(x \in Steps /\ x \in t.wrote)
    <2>1. \A s \in Steps : step'[s] = step[s]
      BY <1>1, <1>4 DEF StepSeenBy
    <2> QED
      BY <2>1 DEF UniqueSequence, Present, Exists
  <1> QED
    BY <1>3, <1>4

\* Among requests that do not overlap no two steps come to share a Sequence,
\* however steps are added and renumbered, if none did to begin with.
THEOREM SequencesUnique ==
  ASSUME MaxOpen = 1, \A s, t \in Initial : s # t => Sequence[s] # Sequence[t]
  PROVE  Spec => []UniqueSequence
  <1>1. Init => UniqueSequence
    <2> SUFFICES ASSUME Init PROVE UniqueSequence
      OBVIOUS
    <2>1. \A s \in Steps : /\ s \in Initial => step[s].seq = Sequence[s]
                           /\ s \notin Initial => step[s].decision = "Absent"
      BY DEF Init, Nothing
    <2> QED
      BY <2>1 DEF UniqueSequence, Present, Exists
  <1>2. IInv /\ SoloInv /\ UniqueSequence /\ [Next]_vars => UniqueSequence'
    <2> SUFFICES ASSUME IInv, SoloInv, UniqueSequence, [Next]_vars PROVE UniqueSequence'
      OBVIOUS
    <2>1. CASE UNCHANGED step
      BY <2>1 DEF UniqueSequence, Present, Exists
    <2>2. ASSUME NEW r \in Requests, Commit(r) PROVE UniqueSequence'
      <3>1. Course(r)
        BY <2>2 DEF Commit, Open, SoloInv, Course
      <3> QED
        BY <2>2, <3>1, CommitUnique
    <2>3. ASSUME NEW r \in Requests,
                 Arrive(r) \/ Inside(r) \/ RollBack(r) \/ BreakDeadlock(r)
          PROVE  UNCHANGED step
      BY <2>3, LocalFrame DEF IInv, RollBack, BreakDeadlock, EndWithoutEffect
    <2> QED
      BY <2>1, <2>2, <2>3 DEF Next, Proceed, Inside, vars
  <1> QED
    BY <1>1, <1>2, Solo, PTL DEF Spec

=============================================================================
