------------------------------ MODULE Records ------------------------------
(***************************************************************************)
(* The record store under overlapping requests: forms that create, edit,   *)
(* archive and restore records, the evidence counter a Process Requirement *)
(* keeps on a parent record (CAP-W01), generated document numbers          *)
(* (CAP-F18), immutable states (CAP-R07) and master data (CAP-O02).        *)
(*                                                                         *)
(* Parents are the records of one machine (a Case with a Submit            *)
(* requirement), Children those of the machine that references it (a Photo *)
(* with a reference and an auto-number field).  Every request runs in one  *)
(* transaction at READ COMMITTED: each statement sees the rows committed   *)
(* before it, an UPDATE waits for the row's lock and then works on the     *)
(* newest committed row, and the request's writes are installed together   *)
(* by Commit or dropped by Fail.                                           *)
(***************************************************************************)
EXTENDS Naturals, FiniteSets

CONSTANTS Parents, Children, Requests,
          Nil,          \* no parent, no child
          Overlap,      \* bound: TRUE for requests that overlap, FALSE one at a time
          Steered,      \* bound: TRUE for metadata that writes the status past its events
          Sequence,     \* the field_sequences row of the auto-number field
          Need,         \* the requirement's minimum cardinality
          MasterData,   \* Machine.Config["master_data"] of the parent machine
          Frozen,       \* Machine.Config["immutable_values"], for the status
          MaxNumber     \* bound: numbers drawn from the sequence

Statuses == {"Open", "Submitted"}

ASSUME RecordsAssumption ==
    /\ IsFiniteSet(Children)
    /\ Nil \notin Parents \cup Children
    /\ Sequence \notin Parents \cup Children \cup {Nil}
    /\ Parents \cap Children = {}
    /\ Overlap \in SUBSET BOOLEAN /\ Steered \in SUBSET BOOLEAN
    /\ Need \in Nat \ {0}
    /\ MasterData \in BOOLEAN
    /\ Frozen \subseteq Statuses
    /\ MaxNumber \in Nat

VARIABLES
    parent,     \* committed rows of the parent machine
    child,      \* committed rows of the child machine
    sequence,   \* last number drawn by a committed transaction
    tx,         \* the transaction each request runs
    overlap,    \* whether requests overlap in this behaviour
    steered     \* whether a board is grouped by the status, or a cross_set_field sets it

vars == <<parent, child, sequence, tx, overlap, steered>>

Rows == Parents \cup Children \cup {Sequence}

ParentRow == [status : Statuses, counter : Nat, archived : BOOLEAN]

\* origin is the parent whose counter the creation of the row stamped, number
\* the number the sequence gave it (0 when the submitter typed one).
ChildRow == [state : {"absent", "live", "archived"},
             parent : Parents \cup {Nil},
             origin : Parents \cup {Nil},
             number : Nat]

\* crossSet stands for every whole-row write that goes by none of this machine's
\* rules: an action of another record's event, a form or an event of a record
\* named under another machine's page.  archiveElsewhere is setDeleted under
\* such a page; drop is BoardMove.
Kinds == {"create", "import", "edit", "submit", "crossSet", "drop",
          "archive", "archiveElsewhere", "restore", "archiveChild", "repoint"}

Stages == {"idle", "begun", "numbered", "inserted", "read", "checked", "done"}

\* row and fresh are what the request read of the parent and the child, and
\* once it holds their locks what it has written to them.
Request == [kind : Kinds, at : Stages, p : Parents \cup {Nil}, c : Children \cup {Nil},
            row : ParentRow, fresh : ChildRow, number : Nat, holds : SUBSET Rows]

NewParent == [status |-> "Open", counter |-> 0, archived |-> FALSE]
NoChild   == [state |-> "absent", parent |-> Nil, origin |-> Nil, number |-> 0]

Idle == [kind |-> "edit", at |-> "idle", p |-> Nil, c |-> Nil,
         row |-> NewParent, fresh |-> NoChild, number |-> 0, holds |-> {}]

CanLock(r, x) == \A q \in Requests \ {r} : x \notin tx[q].holds

\* Records of the child machine whose creation counted as evidence for p.
Evidence(p) == {c \in Children : child[c].state # "absent" /\ child[c].origin = p}

\* What childLists shows for p: List leaves archived records out.
Referencing(p) == {c \in Children : child[c].state = "live" /\ child[c].parent = p}

----------------------------------------------------------------------------
Init ==
    /\ parent = [p \in Parents |-> NewParent]
    /\ child = [c \in Children |-> NoChild]
    /\ sequence = 0
    /\ tx = [r \in Requests |-> Idle]
    /\ overlap \in Overlap
    /\ steered \in Steered

Set(r, t) == /\ tx' = [tx EXCEPT ![r] = t]
             /\ UNCHANGED <<parent, child, sequence, overlap, steered>>

\* Requests that have no check to make before their UPDATE: setDeleted looks at
\* a record's state and references only under its own machine's page, BoardMove
\* at no rule at all.
Unchecked == {"archiveElsewhere", "restore", "archiveChild", "drop"}

\* The stage at which the first statement of each kind of request finds it.
FirstStage(kind) ==
    CASE kind = "import"       -> {"numbered"}
      [] kind = "create"       -> {"begun", "numbered"}
      [] kind \in Unchecked    -> {"checked"}
      [] OTHER                 -> {"begun"}

\* A request arrives.  A form's reference may name no record at all (Nil), and
\* its auto-number field may be filled in ("numbered") or left blank.
Begin(r, kind, p, c) ==
    /\ tx[r].at = "idle"
    /\ overlap \/ \A q \in Requests : tx[q].at = "idle"
    /\ p = Nil => kind \in {"create", "import", "repoint", "archiveChild"}
    /\ kind = "archiveChild" => p = Nil
    /\ kind = "drop" => steered
    /\ IF kind \in {"archiveChild", "repoint"}
       THEN c # Nil /\ child[c].state # "absent"
       ELSE c = Nil
    /\ \E stage \in FirstStage(kind) :
          Set(r, [Idle EXCEPT !.kind = kind, !.at = stage, !.p = p, !.c = c])

\* A SELECT of the last number and a later UPDATE.
DrawNumberUnlocked(r) ==
    /\ tx[r].kind = "create" /\ tx[r].at = "begun" /\ sequence < MaxNumber
    /\ Set(r, [tx[r] EXCEPT !.at = "numbered", !.number = sequence + 1,
                            !.holds = @ \cup {Sequence}])

\* NextSequence: one upsert, which locks the counter row until the request ends.
DrawNumber(r) ==
    /\ tx[r].kind = "create" /\ tx[r].at = "begun"
    /\ CanLock(r, Sequence) /\ sequence < MaxNumber
    /\ Set(r, [tx[r] EXCEPT !.at = "numbered", !.number = sequence + 1,
                            !.holds = @ \cup {Sequence}])

\* A refused form renders the page with status 200, so the request commits.
Refuse(r) == Set(r, [tx[r] EXCEPT !.at = "done"])

\* referenceViolations: Exists counts archived records as well as live ones.
ReferenceExists(p) == p \in Parents

\* The checks and the INSERT of a form or of a CSV row; any other rule of the
\* machine may refuse the row too.
Insert(r) ==
    /\ tx[r].kind \in {"create", "import"} /\ tx[r].at = "numbered"
    /\ \/ Refuse(r)
       \/ /\ ReferenceExists(tx[r].p)
          /\ \E c \in Children :
                /\ child[c].state = "absent" /\ CanLock(r, c)
                /\ Set(r, [tx[r] EXCEPT
                      !.at = IF tx[r].kind = "create" THEN "inserted" ELSE "done",
                      !.c = c,
                      !.fresh = [state |-> "live", parent |-> tx[r].p,
                                 origin |-> IF tx[r].kind = "create" THEN tx[r].p ELSE Nil,
                                 number |-> tx[r].number],
                      !.holds = @ \cup {c}])

\* One increment per transition that declares the requirement.
StampPerTransition(r) ==
    /\ tx[r].kind = "create" /\ tx[r].at = "inserted"
    /\ CanLock(r, tx[r].p)
    /\ Set(r, [tx[r] EXCEPT !.at = "done",
                            !.row = [parent[tx[r].p] EXCEPT !.counter = @ + 2],
                            !.holds = @ \cup {tx[r].p}])

\* An increment WHERE deleted_at IS NULL.
StampLive(r) ==
    /\ tx[r].kind = "create" /\ tx[r].at = "inserted"
    /\ CanLock(r, tx[r].p)
    /\ Set(r, [tx[r] EXCEPT !.at = "done",
                            !.row = [parent[tx[r].p] EXCEPT !.counter = IF parent[tx[r].p].archived THEN @ ELSE @ + 1],
                            !.holds = @ \cup {tx[r].p}])

\* stampRequirementCounters: IncrementField, one atomic UPDATE of the newest row.
Stamp(r) ==
    /\ tx[r].kind = "create" /\ tx[r].at = "inserted"
    /\ CanLock(r, tx[r].p)
    /\ Set(r, [tx[r] EXCEPT !.at = "done",
                            !.row = [parent[tx[r].p] EXCEPT !.counter = @ + 1],
                            !.holds = @ \cup {tx[r].p}])

----------------------------------------------------------------------------
RequirementNearlyMet(row) == row.status = "Submitted" => row.counter + 1 >= Need

\* The requirement's compiled constraint: checked whenever the status is the
\* transition's to-state.
RequirementMet(row) == row.status = "Submitted" => row.counter >= Need

EditedToEventName(kind, row) == IF kind = "submit" THEN [row EXCEPT !.status = "Submit"] ELSE row

\* The parent as the request will write it back: a form's own fields are left
\* out of the model, the trigger of Submit sets the status.
Edited(kind, row) == IF kind = "submit" THEN [row EXCEPT !.status = "Submitted"] ELSE row

MayEditOrArchive(kind, row) ==
    CASE kind = "edit"     -> row.status \notin Frozen /\ RequirementMet(row)
      [] kind = "submit"   -> row.status = "Open" /\ RequirementMet(Edited(kind, row))
      [] kind \in {"crossSet", "archive"} -> TRUE

MayEdit(kind, row) ==
    CASE kind = "edit"     -> row.status \notin Frozen /\ RequirementMet(row)
      [] kind = "submit"   -> row.status = "Open" /\ RequirementMet(Edited(kind, row))
      [] kind = "crossSet" -> TRUE
      [] kind = "archive"  -> row.status \notin Frozen

\* What a cross_set_field of the status makes of the row.
Assigned(kind, row) ==
    {[row EXCEPT !.status = s] : s \in IF steered /\ kind = "crossSet" THEN Statuses ELSE {}}

\* Get, and every check made on what it returned.
Read(r) ==
    /\ tx[r].kind \in {"edit", "submit", "crossSet", "archive"} /\ tx[r].at = "begun"
    /\ LET row == parent[tx[r].p] IN
          IF MayEdit(tx[r].kind, row)
          THEN \E new \in {Edited(tx[r].kind, row)} \cup Assigned(tx[r].kind, row) :
                  Set(r, [tx[r] EXCEPT !.at = "read", !.row = new])
          ELSE Refuse(r)

\* RecordStore.Update writes the whole data map that was read, with no check
\* that the row is still the one read; deleted_at is not part of it.
WriteBack(r) ==
    /\ tx[r].kind \in {"edit", "submit", "crossSet"} /\ tx[r].at = "read"
    /\ CanLock(r, tx[r].p)
    /\ Set(r, [tx[r] EXCEPT !.at = "done",
                            !.row.archived = parent[tx[r].p].archived,
                            !.holds = @ \cup {tx[r].p}])

\* Only records archived already are looked through.
ScanArchivedReferences(r) ==
    /\ tx[r].kind = "archive" /\ tx[r].at = "read"
    /\ IF MasterData /\ \E c \in Children : child[c].state = "archived" /\ child[c].parent = tx[r].p
       THEN Refuse(r)
       ELSE Set(r, [tx[r] EXCEPT !.at = "checked"])

\* CAP-O02: a master-data record is not archived while a record references it.
ScanReferences(r) ==
    /\ tx[r].kind = "archive" /\ tx[r].at = "read"
    /\ IF MasterData /\ Referencing(tx[r].p) # {}
       THEN Refuse(r)
       ELSE Set(r, [tx[r] EXCEPT !.at = "checked"])

\* RecordStore.Archive and Restore: an UPDATE of deleted_at alone, by id.
SetDeleted(r) ==
    /\ tx[r].kind \in {"archive", "archiveElsewhere", "restore"} /\ tx[r].at = "checked"
    /\ CanLock(r, tx[r].p)
    /\ Set(r, [tx[r] EXCEPT !.at = "done",
                            !.row = [parent[tx[r].p] EXCEPT !.archived = tx[r].kind # "restore"],
                            !.holds = @ \cup {tx[r].p}])

\* BoardMove on a board grouped by the status: MoveToLane sets that one key in
\* the newest row (where the card stands on the board is left to Ordering).
DropOnLane(r) ==
    /\ tx[r].kind = "drop" /\ tx[r].at = "checked"
    /\ CanLock(r, tx[r].p)
    /\ \E lane \in Statuses :
          Set(r, [tx[r] EXCEPT !.at = "done",
                               !.row = [parent[tx[r].p] EXCEPT !.status = lane],
                               !.holds = @ \cup {tx[r].p}])

SetChildDeleted(r) ==
    /\ tx[r].kind = "archiveChild" /\ tx[r].at = "checked"
    /\ CanLock(r, tx[r].c)
    /\ \E state \in {"live", "archived"} :
          Set(r, [tx[r] EXCEPT !.at = "done",
                               !.fresh = [child[tx[r].c] EXCEPT !.state = state],
                               !.holds = @ \cup {tx[r].c}])

\* Update of a child through its form, which exposes the reference: no counter
\* follows the record to its new parent.
ReadChild(r) ==
    /\ tx[r].kind = "repoint" /\ tx[r].at = "begun"
    /\ IF ReferenceExists(tx[r].p)
       THEN Set(r, [tx[r] EXCEPT !.at = "read",
                                 !.fresh = [child[tx[r].c] EXCEPT !.parent = tx[r].p]])
       ELSE Refuse(r)

WriteChild(r) ==
    /\ tx[r].kind = "repoint" /\ tx[r].at = "read"
    /\ CanLock(r, tx[r].c)
    /\ Set(r, [tx[r] EXCEPT !.at = "done",
                            !.fresh.state = child[tx[r].c].state,
                            !.holds = @ \cup {tx[r].c}])

----------------------------------------------------------------------------
\* workspaceTx commits when the handler answered below 500.
Commit(r) ==
    /\ tx[r].at = "done"
    /\ LET t == tx[r] IN
       /\ parent' = [p \in Parents |-> IF p \in t.holds THEN t.row ELSE parent[p]]
       /\ child' = [c \in Children |-> IF c \in t.holds THEN t.fresh ELSE child[c]]
       /\ sequence' = IF Sequence \in t.holds THEN t.number ELSE sequence
    /\ tx' = [tx EXCEPT ![r] = Idle]
    /\ UNCHANGED <<overlap, steered>>

\* A 5xx, a panic, a lost connection, a failed commit or a restart of the server.
Fail(r) ==
    /\ tx[r].at # "idle"
    /\ Set(r, Idle)

Step(r) ==
    \/ \E kind \in Kinds, p \in Parents \cup {Nil}, c \in Children \cup {Nil} : Begin(r, kind, p, c)
    \/ DrawNumber(r) \/ Insert(r) \/ Stamp(r)
    \/ Read(r) \/ WriteBack(r) \/ ScanReferences(r) \/ SetDeleted(r)
    \/ DropOnLane(r) \/ SetChildDeleted(r) \/ ReadChild(r) \/ WriteChild(r)
    \/ Commit(r) \/ Fail(r)

Next == \E r \in Requests : Step(r)

Spec == Init /\ [][Next]_vars

----------------------------------------------------------------------------
TypeOK ==
    /\ parent \in [Parents -> ParentRow]
    /\ child \in [Children -> ChildRow]
    /\ sequence \in Nat
    /\ tx \in [Requests -> Request]
    /\ overlap \in BOOLEAN /\ steered \in BOOLEAN

\* The counter of a parent never claims more evidence than was created for it,
\* whatever overlaps: increments are atomic and commit with the child, a stale
\* whole-row write only brings an earlier, smaller count back.  Among requests
\* that do not overlap it is exact.
CounterSound ==
    \A p \in Parents : /\ parent[p].counter <= Cardinality(Evidence(p))
                       /\ ~overlap => parent[p].counter = Cardinality(Evidence(p))

\* No submitted parent lacks the evidence its requirement asks to have been
\* created, whatever was read and written around the transition; unless metadata
\* writes the status past Submit, which no requirement is compiled into.
SubmittedHadEvidence ==
    ~steered => \A p \in Parents :
                   parent[p].status = "Submitted" => Cardinality(Evidence(p)) >= Need

\* Two records never carry the same generated number, although the number of a
\* rolled-back request is drawn again by the next one.
NumbersUnique ==
    \A c, d \in Children :
        (c # d /\ child[c].number # 0) => child[c].number # child[d].number

\* The request that writes p, if it is of one of these kinds.
WrittenBy(p, kinds) == \E r \in Requests : p \in tx[r].holds /\ tx[r].kind \in kinds

\* Among requests that do not overlap a record in an immutable state keeps that
\* state and is not archived ("record is frozen once Posted"), and master data is
\* not archived while a live record references it: whatever forms, events, stamps
\* and archivals do.  Past immutabilityViolation and the scan of references go a
\* board or a cross_set_field of the status, for the state, and the page of
\* another machine, for the archival; and nothing else.
FrozenStays ==
    [][~overlap => \A p \in Parents :
          LET archival == parent'[p].archived /\ ~parent[p].archived IN
          /\ parent[p].status \in Frozen =>
                /\ parent'[p].status = parent[p].status
                      \/ (steered /\ WrittenBy(p, {"drop", "crossSet"}))
                /\ archival => WrittenBy(p, {"archiveElsewhere"})
          /\ MasterData /\ archival =>
                Referencing(p) = {} \/ WrittenBy(p, {"archiveElsewhere"})]_vars

\* "'frozen' means frozen against every mutation path, not just field edits"
\* (record_crud.go, setDeleted): among requests that do not overlap nothing at all
\* changes or archives a record in an immutable state.
FrozenOnEveryPath ==
    [][~overlap => \A p \in Parents : parent[p].status \in Frozen =>
          /\ parent'[p].status = parent[p].status
          /\ parent'[p].archived => parent[p].archived]_vars
=============================================================================
