---------------------------- MODULE RecordsProofs ----------------------------
(***************************************************************************)
(* Type correctness of Records, and that its counters, its numbers and its *)
(* submitted parents are sound, for any records, requests and requirement; *)
(* and that frozen records stay when requests do not overlap.              *)
(***************************************************************************)
EXTENDS Records, FiniteSetTheorems, TLAPS

\* No two transactions hold the same row.
Exclusive == \A q, r \in Requests : q # r => tx[q].holds \cap tx[r].holds = {}

\* Without overlap one transaction at most is open.
Alone == ~overlap => \A q, r \in Requests : q # r => tx[q].at = "idle" \/ tx[r].at = "idle"

\* A transaction writes one parent and one child at most, and has a number
\* exactly while it holds the sequence, one ahead of what is committed.
Numbering(t) ==
    /\ t.holds \subseteq {Sequence, t.p, t.c}
    /\ t.at = "idle" => t.holds = {}
    /\ IF Sequence \in t.holds THEN t.kind = "create" /\ t.number = sequence + 1
                               ELSE t.number = 0

\* A creation has inserted nothing yet, or a row nobody else can see, and the
\* stamp it owes its parent comes with it.
Creating(t) ==
    t.kind \in {"create", "import"} =>
        IF t.c = Nil
        THEN t.p \notin t.holds /\ t.at # "inserted"
        ELSE /\ t.c \in t.holds /\ t.p \in Parents
             /\ t.at \in {"inserted", "done"}
             /\ child[t.c].state = "absent"
             /\ t.fresh = [state |-> "live", parent |-> t.p,
                           origin |-> IF t.kind = "create" THEN t.p ELSE Nil, number |-> t.number]
             /\ (t.p \in t.holds <=> (t.kind = "create" /\ t.at = "done"))
             /\ t.p \in t.holds => t.row = [parent[t.p] EXCEPT !.counter = @ + 1]

\* A change of a child neither renumbers it nor moves the evidence it counted as.
Changing(t) ==
    t.kind \in {"repoint", "archiveChild"} /\ t.at # "idle" =>
        /\ t.c \in Children /\ child[t.c].state # "absent"
        /\ t.p \notin t.holds
        /\ t.at = "read" \/ t.c \in t.holds =>
              /\ t.fresh.number = child[t.c].number /\ t.fresh.origin = child[t.c].origin
              /\ t.fresh.state # "absent"

\* Requests that write a parent.
Writers == {"edit", "submit", "crossSet", "drop", "archive", "archiveElsewhere", "restore"}

\* What a request read of a parent, however stale, claims no more evidence than
\* there is.
Writing(t) ==
    t.kind \in Writers /\ t.at # "idle" =>
        /\ t.p \in Parents /\ t.c = Nil
        /\ t.kind = "drop" => steered
        /\ t.at = "read" \/ t.p \in t.holds =>
              /\ t.row.counter <= Cardinality(Evidence(t.p))
              /\ ~overlap => t.row.counter = parent[t.p].counter
              /\ ~steered /\ t.row.status = "Submitted" => Cardinality(Evidence(t.p)) >= Need

Good(t) == Numbering(t) /\ Creating(t) /\ Changing(t) /\ Writing(t)

\* Numbers in use were drawn from the sequence.
Drawn == \A c \in Children : /\ child[c].number <= sequence
                             /\ child[c].state = "absent" => child[c].number = 0

IInv ==
    /\ TypeOK /\ Exclusive /\ Alone /\ Drawn
    /\ \A r \in Requests : Good(tx[r])
    /\ NumbersUnique /\ CounterSound /\ SubmittedHadEvidence

----------------------------------------------------------------------------
\* Evidence for a parent is a finite set.
LEMMA EvidenceFinite ==
  ASSUME NEW p PROVE IsFiniteSet(Evidence(p)) /\ Cardinality(Evidence(p)) \in Nat
  <1>1. Evidence(p) \subseteq Children
    BY DEF Evidence
  <1> QED
    BY <1>1, RecordsAssumption, FS_Subset, FS_CardinalityType

\* The initial states satisfy the inductive invariant.
LEMMA InitIInv == Init => IInv
  <1> SUFFICES ASSUME Init PROVE IInv
    OBVIOUS
  <1> USE RecordsAssumption DEF Init
  <1>1. TypeOK
    BY DEF TypeOK, ParentRow, ChildRow, Request, Idle, NewParent, NoChild, Kinds, Stages, Statuses
  <1>2. Exclusive /\ Alone /\ Drawn /\ NumbersUnique
    BY DEF Exclusive, Alone, Drawn, NumbersUnique, Idle, NoChild
  <1>3. \A r \in Requests : Good(tx[r])
    BY DEF Good, Numbering, Creating, Changing, Writing, Writers, Idle
  <1>4. CounterSound /\ SubmittedHadEvidence
    <2>1. \A p \in Parents : Evidence(p) = {}
      BY DEF Evidence, NoChild
    <2>2. Cardinality({}) = 0
      BY FS_EmptySet
    <2>3. \A p \in Parents : Cardinality(Evidence(p)) = 0
      BY <2>1, <2>2
    <2>4. \A p \in Parents : parent[p].counter = 0 /\ parent[p].status = "Open"
      BY DEF NewParent
    <2> QED
      BY <2>3, <2>4 DEF CounterSound, SubmittedHadEvidence
  <1> QED
    BY <1>1, <1>2, <1>3, <1>4 DEF IInv

\* A statement that changes its own transaction only preserves the invariant if
\* it leaves that transaction good and locks nothing another one holds.
LEMMA SetIInv ==
  ASSUME IInv, NEW r \in Requests, NEW t \in Request, Set(r, t), Good(t),
         \A x \in t.holds : x \in tx[r].holds \/ CanLock(r, x),
         tx[r].at # "idle" \/ overlap \/ \A q \in Requests : tx[q].at = "idle"
  PROVE  IInv'
  <1> USE DEF IInv, Set
  <1>1. /\ tx'[r] = t /\ \A q \in Requests \ {r} : tx'[q] = tx[q]
        /\ UNCHANGED <<parent, child, sequence, overlap, steered>>
    BY DEF TypeOK
  <1>2. TypeOK'
    BY <1>1 DEF TypeOK
  <1>3. Exclusive'
    BY <1>1 DEF Exclusive, CanLock
  <1>4. Alone'
    BY <1>1 DEF Alone
  <1>5. \A p : Evidence(p)' = Evidence(p)
    BY <1>1 DEF Evidence
  <1>6. Drawn' /\ NumbersUnique' /\ CounterSound' /\ SubmittedHadEvidence'
    BY <1>1, <1>5 DEF Drawn, NumbersUnique, CounterSound, SubmittedHadEvidence
  <1>7. ASSUME NEW q \in Requests PROVE Good(tx[q])'
    <2>1. Good(tx'[q])
      BY <1>1
    <2> QED
      BY <2>1, <1>1, <1>5 DEF Good, Numbering, Creating, Changing, Writing, Writers
  <1> QED
    BY <1>2, <1>3, <1>4, <1>6, <1>7

\* An idle transaction is good.
LEMMA IdleGood == Idle \in Request /\ Good(Idle)
  BY RecordsAssumption DEF Idle, Request, Good, Numbering, Creating, Changing, Writing, Writers,
     Kinds, Stages, NewParent, NoChild, ParentRow, ChildRow, Statuses

\* Requests begin with nothing read or written.
LEMMA BeginIInv ==
  ASSUME IInv, NEW r \in Requests, NEW kind \in Kinds,
         NEW p \in Parents \cup {Nil}, NEW c \in Children \cup {Nil}, Begin(r, kind, p, c)
  PROVE  IInv'
  <1> USE RecordsAssumption
  <1>1. PICK stage \in FirstStage(kind) :
           Set(r, [Idle EXCEPT !.kind = kind, !.at = stage, !.p = p, !.c = c])
    BY Zenon DEF Begin
  <1> DEFINE t == [Idle EXCEPT !.kind = kind, !.at = stage, !.p = p, !.c = c]
  <1>2. stage \in {"begun", "numbered", "checked"}
        /\ (kind \in {"repoint", "archiveChild"} => stage # "read")
    BY DEF FirstStage, Unchecked, Kinds
  <1>3. t \in Request
    BY <1>2, IdleGood DEF Request, Stages, Idle
  <1>4. /\ t.kind = kind /\ t.at = stage /\ t.p = p /\ t.c = c
        /\ t.holds = {} /\ t.number = 0
    BY DEF Idle
  <1>5. Good(t)
    <2>1. Numbering(t)
      BY <1>4 DEF Numbering
    <2>2. Creating(t)
      BY <1>2, <1>4 DEF Creating, Begin
    <2>3. Changing(t)
      BY <1>2, <1>4 DEF Changing, Begin
    <2>4. Writing(t)
      BY <1>2, <1>4 DEF Writing, Writers, Begin
    <2> QED
      BY <2>1, <2>2, <2>3, <2>4 DEF Good
  <1>6. tx[r].at # "idle" \/ overlap \/ \A q \in Requests : tx[q].at = "idle"
    BY DEF Begin
  <1> QED
    BY <1>1, <1>3, <1>4, <1>5, <1>6, SetIInv

\* A refusal writes nothing more.
LEMMA RefuseIInv ==
  ASSUME IInv, NEW r \in Requests, Refuse(r), tx[r].at \in {"begun", "numbered", "read"}
  PROVE  IInv'
  <1> DEFINE t == [tx[r] EXCEPT !.at = "done"]
  <1> USE RecordsAssumption DEF IInv
  <1>1. tx[r] \in Request
    BY DEF TypeOK
  <1>2. t \in Request
    BY <1>1 DEF Request, Stages
  <1>3. /\ t.kind = tx[r].kind /\ t.at = "done" /\ t.p = tx[r].p /\ t.c = tx[r].c
        /\ t.holds = tx[r].holds /\ t.number = tx[r].number
        /\ t.row = tx[r].row /\ t.fresh = tx[r].fresh
    BY <1>1 DEF Request
  <1>4. Good(tx[r])
    OBVIOUS
  <1>5. Good(t)
    BY <1>1, <1>3, <1>4 DEF Good, Numbering, Creating, Changing, Writing, Writers
  <1> QED
    BY <1>2, <1>3, <1>5, SetIInv DEF Refuse

\* The upsert gives the number after the last committed one, and nobody else
\* draws before this request ends.
LEMMA DrawNumberIInv ==
  ASSUME IInv, NEW r \in Requests, DrawNumber(r) PROVE IInv'
  <1> DEFINE t == [tx[r] EXCEPT !.at = "numbered", !.number = sequence + 1,
                                !.holds = @ \cup {Sequence}]
  <1> USE RecordsAssumption DEF IInv, DrawNumber
  <1>1. tx[r] \in Request /\ sequence \in Nat /\ sequence + 1 \in Nat
    BY DEF TypeOK
  <1>2. t \in Request
    BY <1>1 DEF Request, Stages, Rows
  <1>3. /\ t.kind = "create" /\ t.at = "numbered" /\ t.p = tx[r].p /\ t.c = tx[r].c
        /\ t.holds = tx[r].holds \cup {Sequence} /\ t.number = sequence + 1
        /\ t.row = tx[r].row /\ t.fresh = tx[r].fresh
    BY <1>1 DEF Request
  <1>4. Good(tx[r])
    OBVIOUS
  <1>5. Good(t)
    <2>1. Numbering(t)
      BY <1>1, <1>3, <1>4 DEF Good, Numbering
    <2>2. Creating(t)
      BY <1>1, <1>3, <1>4 DEF Good, Creating, Request
    <2>3. Changing(t) /\ Writing(t)
      BY <1>3 DEF Changing, Writing, Writers
    <2> QED
      BY <2>1, <2>2, <2>3 DEF Good
  <1> QED
    BY <1>2, <1>3, <1>5, SetIInv

\* The row inserted has a number of its own and is seen by nobody else yet.
LEMMA InsertIInv ==
  ASSUME IInv, NEW r \in Requests, Insert(r) PROVE IInv'
  <1> USE RecordsAssumption DEF IInv
  <1>1. CASE Refuse(r)
    BY <1>1, RefuseIInv DEF Insert
  <1>2. CASE ~Refuse(r)
    <2>1. PICK c \in Children :
             /\ child[c].state = "absent" /\ CanLock(r, c)
             /\ Set(r, [tx[r] EXCEPT
                   !.at = IF tx[r].kind = "create" THEN "inserted" ELSE "done",
                   !.c = c,
                   !.fresh = [state |-> "live", parent |-> tx[r].p,
                              origin |-> IF tx[r].kind = "create" THEN tx[r].p ELSE Nil,
                              number |-> tx[r].number],
                   !.holds = @ \cup {c}])
      BY <1>2, Zenon DEF Insert
    <2> DEFINE t == [tx[r] EXCEPT
                   !.at = IF tx[r].kind = "create" THEN "inserted" ELSE "done",
                   !.c = c,
                   !.fresh = [state |-> "live", parent |-> tx[r].p,
                              origin |-> IF tx[r].kind = "create" THEN tx[r].p ELSE Nil,
                              number |-> tx[r].number],
                   !.holds = @ \cup {c}]
    <2>2. tx[r] \in Request /\ tx[r].kind \in {"create", "import"} /\ tx[r].at = "numbered"
          /\ tx[r].p \in Parents
      <3>1. tx[r] \in Request
        BY DEF TypeOK
      <3>2. tx[r].kind \in {"create", "import"} /\ tx[r].at = "numbered" /\ tx[r].p \in Parents
        BY <1>2, Zenon DEF Insert, ReferenceExists
      <3> QED
        BY <3>1, <3>2
    <2>3. t \in Request
      BY <2>2 DEF Request, Stages, Rows, ChildRow
    <2>4. /\ t.kind = tx[r].kind /\ t.p = tx[r].p /\ t.c = c
          /\ t.at = IF tx[r].kind = "create" THEN "inserted" ELSE "done"
          /\ t.holds = tx[r].holds \cup {c} /\ t.number = tx[r].number
          /\ t.fresh = [state |-> "live", parent |-> tx[r].p,
                        origin |-> IF tx[r].kind = "create" THEN tx[r].p ELSE Nil,
                        number |-> tx[r].number]
      BY <2>2 DEF Request
    <2>5. Good(tx[r])
      OBVIOUS
    <2>6. tx[r].c = Nil /\ tx[r].p \notin tx[r].holds
      BY <2>2, <2>5 DEF Good, Creating
    <2>7. Good(t)
      <3>1. Numbering(t)
        BY <2>2, <2>4, <2>5, <2>6 DEF Good, Numbering, Request, Rows
      <3>2. t.p \notin t.holds /\ t.c # Nil
        BY <2>2, <2>4, <2>6
      <3>3. Creating(t)
        BY <2>1, <2>2, <2>4, <3>2 DEF Creating
      <3>4. Changing(t) /\ Writing(t)
        BY <2>2, <2>4 DEF Changing, Writing, Writers
      <3> QED
        BY <3>1, <3>3, <3>4 DEF Good
    <2>8. \A x \in t.holds : x \in tx[r].holds \/ CanLock(r, x)
      BY <2>1, <2>4
    <2>9. tx[r].at # "idle" /\ Set(r, t)
      BY <2>1, <2>2
    <2> HIDE DEF t
    <2> QED
      BY <2>3, <2>7, <2>8, <2>9, SetIInv
  <1> QED
    BY <1>1, <1>2

\* The increment works on the newest row of the parent and locks it.
LEMMA StampIInv ==
  ASSUME IInv, NEW r \in Requests, Stamp(r) PROVE IInv'
  <1> DEFINE t == [tx[r] EXCEPT !.at = "done", !.row = [parent[tx[r].p] EXCEPT !.counter = @ + 1],
                                !.holds = @ \cup {tx[r].p}]
  <1> USE RecordsAssumption DEF IInv, Stamp
  <1>1. tx[r] \in Request /\ Good(tx[r])
    BY DEF TypeOK
  <1>2. tx[r].c # Nil /\ tx[r].p \in Parents
    BY <1>1 DEF Good, Creating
  <1>3. parent[tx[r].p] \in ParentRow
    BY <1>2 DEF TypeOK
  <1>4. [parent[tx[r].p] EXCEPT !.counter = @ + 1] \in ParentRow
    BY <1>3 DEF ParentRow
  <1>5. t \in Request
    BY <1>1, <1>2, <1>4 DEF Request, Stages, Rows
  <1>6. /\ t.kind = "create" /\ t.at = "done" /\ t.p = tx[r].p /\ t.c = tx[r].c
        /\ t.holds = tx[r].holds \cup {tx[r].p} /\ t.number = tx[r].number
        /\ t.row = [parent[tx[r].p] EXCEPT !.counter = @ + 1] /\ t.fresh = tx[r].fresh
    BY <1>1 DEF Request
  <1>7. Good(t)
    <2>1. Numbering(t)
      BY <1>1, <1>2, <1>6 DEF Good, Numbering
    <2>2. Creating(t)
      BY <1>1, <1>2, <1>6 DEF Good, Creating
    <2>3. Changing(t) /\ Writing(t)
      BY <1>6 DEF Changing, Writing, Writers
    <2> QED
      BY <2>1, <2>2, <2>3 DEF Good
  <1> QED
    BY <1>5, <1>6, <1>7, SetIInv

\* What is read of a parent is covered by the evidence it has at that time.
LEMMA ReadIInv ==
  ASSUME IInv, NEW r \in Requests, Read(r) PROVE IInv'
  <1> USE RecordsAssumption DEF IInv
  <1>1. CASE Refuse(r)
    BY <1>1, RefuseIInv, Zenon DEF Read
  <1>2. CASE ~Refuse(r)
    <2> DEFINE row == parent[tx[r].p]
    <2>1. tx[r] \in Request /\ Good(tx[r]) /\ tx[r].at = "begun"
          /\ tx[r].kind \in {"edit", "submit", "crossSet", "archive"}
      BY Zenon DEF TypeOK, Read
    <2>2. MayEdit(tx[r].kind, row)
          /\ \E new \in {Edited(tx[r].kind, row)} \cup Assigned(tx[r].kind, row) :
                Set(r, [tx[r] EXCEPT !.at = "read", !.row = new])
      BY <1>2, Zenon DEF Read
    <2>3. tx[r].p \in Parents /\ tx[r].c = Nil
      BY <2>1 DEF Good, Writing, Writers
    <2>4. row \in ParentRow
      BY <2>3 DEF TypeOK
    <2> PICK new \in {Edited(tx[r].kind, row)} \cup Assigned(tx[r].kind, row) :
                Set(r, [tx[r] EXCEPT !.at = "read", !.row = new])
      BY <2>2, Zenon
    <2> DEFINE t == [tx[r] EXCEPT !.at = "read", !.row = new]
    <2>5. /\ new \in ParentRow /\ new.counter = row.counter
          /\ ~steered => new = Edited(tx[r].kind, row)
      <3>1. CASE new = Edited(tx[r].kind, row)
        BY <2>4, <3>1 DEF Edited, ParentRow, Statuses
      <3>2. CASE new \in Assigned(tx[r].kind, row)
        BY <2>4, <3>2 DEF Assigned, ParentRow
      <3> QED
        BY <3>1, <3>2
    <2>6. t \in Request
      BY <2>1, <2>5 DEF Request, Stages
    <2>7. /\ t.kind = tx[r].kind /\ t.at = "read" /\ t.p = tx[r].p /\ t.c = tx[r].c
          /\ t.holds = tx[r].holds /\ t.number = tx[r].number
          /\ t.row = new
      BY <2>1 DEF Request
    <2>8. row.counter \in Nat /\ row.counter <= Cardinality(Evidence(tx[r].p))
          /\ Cardinality(Evidence(tx[r].p)) \in Nat
      BY <2>3, <2>4, EvidenceFinite DEF CounterSound, ParentRow
    <2>9. ~steered /\ new.status = "Submitted" => Cardinality(Evidence(tx[r].p)) >= Need
      <3> SUFFICES ASSUME ~steered, new.status = "Submitted"
                   PROVE  Cardinality(Evidence(tx[r].p)) >= Need
        OBVIOUS
      <3>0. new = Edited(tx[r].kind, row)
        BY <2>5
      <3>1. CASE tx[r].kind = "submit"
        BY <2>2, <2>5, <2>8, <2>4, <3>0, <3>1 DEF MayEdit, RequirementMet, Edited, ParentRow
      <3>2. CASE tx[r].kind # "submit"
        BY <2>3, <3>0, <3>2 DEF Edited, SubmittedHadEvidence
      <3> QED
        BY <3>1, <3>2
    <2> HIDE DEF t
    <2>10. Good(t)
      <3>1. Numbering(t)
        BY <2>1, <2>7 DEF Good, Numbering
      <3>2. Creating(t) /\ Changing(t)
        BY <2>1, <2>7 DEF Creating, Changing
      <3>3. ~overlap => new.counter = parent[tx[r].p].counter
        BY <2>5
      <3>4. t.kind \in {"edit", "submit", "crossSet", "archive"}
        BY <2>1, <2>7
      <3>5. Writing(t)
        <4> HIDE DEF IInv
        <4> QED
          BY <2>3, <2>5, <2>7, <2>8, <2>9, <3>3, <3>4 DEF Writing
      <3> QED
        BY <3>1, <3>2, <3>5 DEF Good
    <2>11. Set(r, t)
      BY DEF t
    <2> QED
      BY <2>1, <2>6, <2>7, <2>10, <2>11, SetIInv
  <1> QED
    BY <1>1, <1>2

\* The whole row that was read is written, stale or not.
LEMMA WriteBackIInv ==
  ASSUME IInv, NEW r \in Requests, WriteBack(r) PROVE IInv'
  <1> DEFINE t == [tx[r] EXCEPT !.at = "done", !.row.archived = parent[tx[r].p].archived,
                                !.holds = @ \cup {tx[r].p}]
  <1> USE RecordsAssumption DEF IInv, WriteBack
  <1>1. tx[r] \in Request /\ Good(tx[r])
    BY DEF TypeOK
  <1>2. tx[r].p \in Parents /\ tx[r].c = Nil
    BY <1>1 DEF Good, Writing, Writers
  <1>3. parent[tx[r].p].archived \in BOOLEAN
    BY <1>2 DEF TypeOK, ParentRow
  <1>4. t \in Request
    BY <1>1, <1>2, <1>3 DEF Request, Stages, Rows, ParentRow
  <1>5. /\ t.kind = tx[r].kind /\ t.at = "done" /\ t.p = tx[r].p /\ t.c = tx[r].c
        /\ t.holds = tx[r].holds \cup {tx[r].p} /\ t.number = tx[r].number
        /\ t.row.counter = tx[r].row.counter /\ t.row.status = tx[r].row.status
    BY <1>1 DEF Request, ParentRow
  <1>6. Good(t)
    <2>1. Numbering(t)
      BY <1>1, <1>2, <1>5 DEF Good, Numbering
    <2>2. Creating(t) /\ Changing(t)
      BY <1>5 DEF Creating, Changing
    <2>3. Writing(t)
      BY <1>1, <1>2, <1>5 DEF Good, Writing, Writers
    <2> QED
      BY <2>1, <2>2, <2>3 DEF Good
  <1> QED
    BY <1>4, <1>5, <1>6, SetIInv

\* Looking for references writes nothing.
LEMMA ScanReferencesIInv ==
  ASSUME IInv, NEW r \in Requests, ScanReferences(r) PROVE IInv'
  <1> USE RecordsAssumption DEF IInv
  <1>1. CASE Refuse(r)
    BY <1>1, RefuseIInv DEF ScanReferences
  <1>2. CASE ~Refuse(r)
    <2> DEFINE t == [tx[r] EXCEPT !.at = "checked"]
    <2>1. tx[r] \in Request /\ Good(tx[r]) /\ tx[r].at = "read" /\ tx[r].kind = "archive" /\ Set(r, t)
      BY <1>2 DEF TypeOK, ScanReferences
    <2>2. t \in Request
      BY <2>1 DEF Request, Stages
    <2>3. /\ t.kind = "archive" /\ t.at = "checked" /\ t.p = tx[r].p /\ t.c = tx[r].c
          /\ t.holds = tx[r].holds /\ t.number = tx[r].number /\ t.row = tx[r].row
      BY <2>1 DEF Request
    <2>4. Good(t)
      BY <2>1, <2>3 DEF Good, Numbering, Creating, Changing, Writing, Writers
    <2> QED
      BY <2>1, <2>2, <2>3, <2>4, SetIInv
  <1> QED
    BY <1>1, <1>2

\* Archiving and restoring write the newest row of the parent.
LEMMA SetDeletedIInv ==
  ASSUME IInv, NEW r \in Requests, SetDeleted(r) PROVE IInv'
  <1> DEFINE t == [tx[r] EXCEPT !.at = "done",
                          !.row = [parent[tx[r].p] EXCEPT !.archived = tx[r].kind # "restore"],
                          !.holds = @ \cup {tx[r].p}]
  <1> USE RecordsAssumption DEF IInv, SetDeleted
  <1>1. tx[r] \in Request /\ Good(tx[r])
    BY DEF TypeOK
  <1>2. tx[r].p \in Parents /\ tx[r].c = Nil
    BY <1>1 DEF Good, Writing, Writers
  <1>3. parent[tx[r].p] \in ParentRow
    BY <1>2 DEF TypeOK
  <1>4. [parent[tx[r].p] EXCEPT !.archived = tx[r].kind # "restore"] \in ParentRow
    BY <1>3 DEF ParentRow
  <1>5. t \in Request
    BY <1>1, <1>2, <1>4 DEF Request, Stages, Rows
  <1>6. /\ t.kind = tx[r].kind /\ t.at = "done" /\ t.p = tx[r].p /\ t.c = tx[r].c
        /\ t.holds = tx[r].holds \cup {tx[r].p} /\ t.number = tx[r].number
        /\ t.row.counter = parent[tx[r].p].counter /\ t.row.status = parent[tx[r].p].status
    BY <1>1, <1>3 DEF Request, ParentRow
  <1>7. Good(t)
    <2>1. Numbering(t)
      BY <1>1, <1>2, <1>6 DEF Good, Numbering
    <2>2. Creating(t) /\ Changing(t)
      BY <1>6 DEF Creating, Changing
    <2>3. Writing(t)
      BY <1>2, <1>6 DEF Writing, Writers, CounterSound, SubmittedHadEvidence
    <2> QED
      BY <2>1, <2>2, <2>3 DEF Good
  <1> QED
    BY <1>5, <1>6, <1>7, SetIInv

\* A drop on a board writes the status of the newest row, on metadata that says so.
LEMMA DropOnLaneIInv ==
  ASSUME IInv, NEW r \in Requests, DropOnLane(r) PROVE IInv'
  <1> USE RecordsAssumption DEF IInv
  <1>1. tx[r] \in Request /\ Good(tx[r]) /\ tx[r].kind = "drop" /\ tx[r].at = "checked"
        /\ CanLock(r, tx[r].p)
    BY DEF TypeOK, DropOnLane
  <1> PICK lane \in Statuses :
         Set(r, [tx[r] EXCEPT !.at = "done", !.row = [parent[tx[r].p] EXCEPT !.status = lane],
                              !.holds = @ \cup {tx[r].p}])
    BY Zenon DEF DropOnLane
  <1> DEFINE t == [tx[r] EXCEPT !.at = "done", !.row = [parent[tx[r].p] EXCEPT !.status = lane],
                                !.holds = @ \cup {tx[r].p}]
  <1>2. tx[r].p \in Parents /\ tx[r].c = Nil /\ steered
    BY <1>1 DEF Good, Writing, Writers
  <1>3. parent[tx[r].p] \in ParentRow
    BY <1>2 DEF TypeOK
  <1>4. [parent[tx[r].p] EXCEPT !.status = lane] \in ParentRow
    BY <1>3 DEF ParentRow
  <1>5. t \in Request
    BY <1>1, <1>2, <1>4 DEF Request, Stages, Rows
  <1>6. /\ t.kind = "drop" /\ t.at = "done" /\ t.p = tx[r].p /\ t.c = tx[r].c
        /\ t.holds = tx[r].holds \cup {tx[r].p} /\ t.number = tx[r].number
        /\ t.row.counter = parent[tx[r].p].counter
    BY <1>1, <1>3 DEF Request, ParentRow
  <1>7. Set(r, t)
    OBVIOUS
  <1> HIDE DEF t
  <1>8. Good(t)
    <2>1. Numbering(t)
      BY <1>1, <1>2, <1>6 DEF Good, Numbering
    <2>2. Creating(t) /\ Changing(t)
      BY <1>6 DEF Creating, Changing
    <2>3. Writing(t)
      BY <1>2, <1>6 DEF Writing, Writers, CounterSound
    <2> QED
      BY <2>1, <2>2, <2>3 DEF Good
  <1> QED
    BY <1>1, <1>5, <1>6, <1>7, <1>8, SetIInv

\* So do they with a child.
LEMMA SetChildDeletedIInv ==
  ASSUME IInv, NEW r \in Requests, SetChildDeleted(r) PROVE IInv'
  <1> USE RecordsAssumption DEF IInv, SetChildDeleted
  <1>1. PICK state \in {"live", "archived"} :
           Set(r, [tx[r] EXCEPT !.at = "done", !.fresh = [child[tx[r].c] EXCEPT !.state = state],
                                !.holds = @ \cup {tx[r].c}])
    OBVIOUS
  <1> DEFINE t == [tx[r] EXCEPT !.at = "done", !.fresh = [child[tx[r].c] EXCEPT !.state = state],
                                !.holds = @ \cup {tx[r].c}]
  <1>2. tx[r] \in Request /\ Good(tx[r])
    BY DEF TypeOK
  <1>3. tx[r].c \in Children /\ tx[r].p \notin tx[r].holds
    BY <1>2 DEF Good, Changing
  <1>4. child[tx[r].c] \in ChildRow
    BY <1>3 DEF TypeOK
  <1>5. [child[tx[r].c] EXCEPT !.state = state] \in ChildRow
    BY <1>4 DEF ChildRow
  <1>6. t \in Request
    BY <1>2, <1>3, <1>5 DEF Request, Stages, Rows
  <1>7. /\ t.kind = "archiveChild" /\ t.at = "done" /\ t.p = tx[r].p /\ t.c = tx[r].c
        /\ t.holds = tx[r].holds \cup {tx[r].c} /\ t.number = tx[r].number
        /\ t.fresh.number = child[tx[r].c].number /\ t.fresh.origin = child[tx[r].c].origin
        /\ t.fresh.state = state
    BY <1>2, <1>4 DEF Request, ChildRow
  <1>8. t.p \notin t.holds
    BY <1>2, <1>3, <1>7 DEF Request
  <1>9. Good(t)
    <2>1. Numbering(t)
      BY <1>2, <1>3, <1>7 DEF Good, Numbering
    <2>2. Creating(t) /\ Writing(t)
      BY <1>7 DEF Creating, Writing, Writers
    <2>3. Changing(t)
      BY <1>2, <1>3, <1>7, <1>8 DEF Good, Changing
    <2> QED
      BY <2>1, <2>2, <2>3 DEF Good
  <1> QED
    BY <1>1, <1>6, <1>7, <1>9, SetIInv

\* A child is read for its new parent ...
LEMMA ReadChildIInv ==
  ASSUME IInv, NEW r \in Requests, ReadChild(r) PROVE IInv'
  <1> USE RecordsAssumption DEF IInv
  <1>1. CASE Refuse(r)
    BY <1>1, RefuseIInv DEF ReadChild
  <1>2. CASE ~Refuse(r)
    <2> DEFINE t == [tx[r] EXCEPT !.at = "read", !.fresh = [child[tx[r].c] EXCEPT !.parent = tx[r].p]]
    <2>1. tx[r] \in Request /\ Good(tx[r]) /\ tx[r].at = "begun" /\ tx[r].kind = "repoint" /\ Set(r, t)
          /\ tx[r].p \in Parents
      BY <1>2 DEF TypeOK, ReadChild, ReferenceExists
    <2>2. tx[r].c \in Children /\ child[tx[r].c] \in ChildRow /\ child[tx[r].c].state # "absent"
      BY <2>1 DEF Good, Changing, TypeOK
    <2>3. [child[tx[r].c] EXCEPT !.parent = tx[r].p] \in ChildRow
      BY <2>1, <2>2 DEF ChildRow
    <2>4. t \in Request
      BY <2>1, <2>3 DEF Request, Stages
    <2>5. /\ t.kind = "repoint" /\ t.at = "read" /\ t.p = tx[r].p /\ t.c = tx[r].c
          /\ t.holds = tx[r].holds /\ t.number = tx[r].number
          /\ t.fresh.number = child[tx[r].c].number /\ t.fresh.origin = child[tx[r].c].origin
          /\ t.fresh.state = child[tx[r].c].state
      BY <2>1, <2>2 DEF Request, ChildRow
    <2>6. Good(t)
      BY <2>1, <2>2, <2>5 DEF Good, Numbering, Creating, Changing, Writing, Writers
    <2> QED
      BY <2>1, <2>4, <2>5, <2>6, SetIInv
  <1> QED
    BY <1>1, <1>2

\* ... and written back whole, but for its archived mark.
LEMMA WriteChildIInv ==
  ASSUME IInv, NEW r \in Requests, WriteChild(r) PROVE IInv'
  <1> DEFINE t == [tx[r] EXCEPT !.at = "done", !.fresh.state = child[tx[r].c].state,
                                !.holds = @ \cup {tx[r].c}]
  <1> USE RecordsAssumption DEF IInv, WriteChild
  <1>1. tx[r] \in Request /\ Good(tx[r])
    BY DEF TypeOK
  <1>2. /\ tx[r].c \in Children /\ child[tx[r].c] \in ChildRow /\ child[tx[r].c].state # "absent"
        /\ tx[r].p \notin tx[r].holds
    BY <1>1 DEF Good, Changing, TypeOK
  <1>3. t \in Request
    BY <1>1, <1>2 DEF Request, Stages, Rows, ChildRow
  <1>4. /\ t.kind = "repoint" /\ t.at = "done" /\ t.p = tx[r].p /\ t.c = tx[r].c
        /\ t.holds = tx[r].holds \cup {tx[r].c} /\ t.number = tx[r].number
        /\ t.fresh.number = tx[r].fresh.number /\ t.fresh.origin = tx[r].fresh.origin
        /\ t.fresh.state = child[tx[r].c].state
    BY <1>1 DEF Request, ChildRow
  <1>5. t.p \notin t.holds
    BY <1>1, <1>2, <1>4 DEF Request
  <1>6. Good(t)
    <2>1. Numbering(t)
      BY <1>1, <1>2, <1>4 DEF Good, Numbering
    <2>2. Creating(t) /\ Writing(t)
      BY <1>4 DEF Creating, Writing, Writers
    <2>3. Changing(t)
      BY <1>1, <1>2, <1>4, <1>5 DEF Good, Changing
    <2> QED
      BY <2>1, <2>2, <2>3 DEF Good
  <1> QED
    BY <1>3, <1>4, <1>6, SetIInv

\* A failed transaction leaves nothing.
LEMMA FailIInv ==
  ASSUME IInv, NEW r \in Requests, Fail(r) PROVE IInv'
  <1>1. Idle.holds = {}
    BY DEF Idle
  <1> QED
    BY <1>1, IdleGood, SetIInv DEF Fail

----------------------------------------------------------------------------
\* What a commit leaves true of the committed rows, whichever kind it is.
Installed ==
    /\ parent' \in [Parents -> ParentRow] /\ child' \in [Children -> ChildRow] /\ sequence' \in Nat
    /\ \A c \in Children : child[c].state # "absent" =>
          /\ child'[c].state # "absent"
          /\ child'[c].number = child[c].number /\ child'[c].origin = child[c].origin
    /\ \A p \in Parents : Cardinality(Evidence(p)) <= Cardinality(Evidence(p)')
    /\ Drawn' /\ NumbersUnique' /\ CounterSound' /\ SubmittedHadEvidence'

\* Evidence is what the states and origins of the children make it.
LEMMA EvidenceSame ==
  ASSUME NEW p,
         \A d \in Children : (child'[d].state # "absent" /\ child'[d].origin = p)
                              <=> (child[d].state # "absent" /\ child[d].origin = p)
  PROVE  Evidence(p)' = Evidence(p)
  BY DEF Evidence

\* Who installs no child and no parent may have drawn a number in vain.
LEMMA CommitNothing ==
  ASSUME IInv, NEW r \in Requests, Commit(r), UNCHANGED <<parent, child>>
  PROVE  Installed
  <1> USE DEF IInv, Commit
  <1>1. tx[r] \in Request /\ Numbering(tx[r]) /\ sequence \in Nat
    BY DEF TypeOK, Good
  <1>2. sequence' \in Nat /\ sequence <= sequence'
    BY <1>1 DEF Numbering
  <1>3. \A p : Evidence(p)' = Evidence(p)
    BY DEF Evidence
  <1>4. \A c \in Children : child[c].number \in Nat
    BY DEF TypeOK, ChildRow
  <1>5. Drawn'
    BY <1>1, <1>2, <1>4 DEF Drawn
  <1>6. NumbersUnique' /\ CounterSound' /\ SubmittedHadEvidence'
    BY <1>3 DEF NumbersUnique, CounterSound, SubmittedHadEvidence
  <1>7. \A p \in Parents : Cardinality(Evidence(p)) <= Cardinality(Evidence(p)')
    BY <1>3, EvidenceFinite
  <1> QED
    BY <1>2, <1>5, <1>6, <1>7 DEF Installed, TypeOK

\* A new child takes a number nobody has, and comes with its stamp.
LEMMA CommitCreating ==
  ASSUME IInv, NEW r \in Requests, Commit(r),
         NEW t \in Request, t = tx[r], t.kind \in {"create", "import"},
         NEW c, c = t.c, c # Nil, NEW p, p = t.p
  PROVE  Installed
  <1> USE RecordsAssumption DEF IInv, Commit
  <1>1. t.at = "done" /\ Numbering(t) /\ Creating(t) /\ sequence \in Nat
    BY DEF TypeOK, Good
  <1>2. /\ c \in Children /\ c \in t.holds /\ p \in Parents
        /\ child[c].state = "absent" /\ child[c].number = 0
        /\ t.fresh = [state |-> "live", parent |-> p,
                      origin |-> IF t.kind = "create" THEN p ELSE Nil, number |-> t.number]
    BY <1>1 DEF Creating, Request, Drawn
  <1>3. child' = [child EXCEPT ![c] = t.fresh]
    BY <1>1, <1>2 DEF Numbering, TypeOK
  <1>4. t.number \in Nat /\ t.fresh \in ChildRow /\ t.row \in ParentRow
    BY <1>1 DEF Request
  <1>5. child' \in [Children -> ChildRow]
    BY <1>2, <1>3, <1>4 DEF TypeOK
  <1>6. /\ sequence' \in Nat /\ sequence <= sequence' /\ t.number <= sequence'
        /\ t.number = 0 \/ t.number = sequence + 1
    BY <1>1 DEF Numbering
  <1>7. \A d \in Children : child[d].number \in Nat /\ child[d].number <= sequence
    BY DEF TypeOK, ChildRow, Drawn
  <1>8. /\ child'[c] = t.fresh /\ child'[c].number = t.number
        /\ \A d \in Children \ {c} : child'[d] = child[d]
    BY <1>2, <1>3 DEF TypeOK
  <1>9. Drawn'
    <2>1. ASSUME NEW d \in Children
          PROVE  child'[d].number <= sequence' /\ (child'[d].state = "absent" => child'[d].number = 0)
      <3>1. CASE d = c
        BY <1>2, <1>6, <1>8, <3>1
      <3>2. CASE d # c
        BY <1>1, <1>6, <1>7, <1>8, <3>2 DEF Drawn
      <3> QED
        BY <3>1, <3>2
    <2> QED
      BY <2>1 DEF Drawn
  <1>10. NumbersUnique'
    <2>1. ASSUME NEW d \in Children, NEW e \in Children, d # e, child'[d].number # 0
          PROVE  child'[d].number # child'[e].number
      <3>1. CASE d = c
        <4>1. e # c /\ child'[e] = child[e] /\ t.number = sequence + 1
          BY <1>6, <1>8, <2>1, <3>1
        <4>2. child'[d].number = sequence + 1 /\ child'[e].number <= sequence /\ child'[e].number \in Nat
          BY <1>7, <1>8, <3>1, <4>1
        <4> QED
          BY <1>1, <4>2
      <3>2. CASE e = c
        <4>1. child'[d] = child[d] /\ child'[e].number = t.number
          BY <1>8, <2>1, <3>2
        <4>2. child'[d].number <= sequence /\ child'[d].number \in Nat
          BY <1>7, <4>1
        <4> QED
          BY <1>1, <1>6, <2>1, <4>1, <4>2
      <3>3. CASE d # c /\ e # c
        BY <1>8, <2>1, <3>3 DEF NumbersUnique
      <3> QED
        BY <3>1, <3>2, <3>3
    <2> QED
      BY <2>1 DEF NumbersUnique
  <1>11. \A q \in Parents : parent[q] \in ParentRow /\ parent[q].counter \in Nat
    BY DEF TypeOK, ParentRow
  <1>12. \A q : IsFiniteSet(Evidence(q)) /\ Cardinality(Evidence(q)) \in Nat
    BY EvidenceFinite
  <1>13. CASE t.kind = "import"
    <2>1. parent' = parent
      BY <1>1, <1>2, <1>13 DEF Creating, Numbering, TypeOK
    <2>2. \A q \in Parents : Evidence(q)' = Evidence(q)
      BY <1>2, <1>8, <1>13 DEF Evidence
    <2>3. CounterSound' /\ SubmittedHadEvidence'
      BY <2>1, <2>2 DEF CounterSound, SubmittedHadEvidence
    <2>4. \A q \in Parents : Cardinality(Evidence(q)) <= Cardinality(Evidence(q)')
      BY <2>2, <1>12
    <2> QED
      BY <1>2, <1>5, <1>6, <1>8, <1>9, <1>10, <2>1, <2>3, <2>4 DEF Installed, TypeOK
  <1>14. CASE t.kind = "create"
    <2>1. p \in t.holds /\ t.row = [parent[p] EXCEPT !.counter = @ + 1]
      BY <1>1, <1>2, <1>14 DEF Creating
    <2>2. parent' = [parent EXCEPT ![p] = t.row]
      <3>1. t.holds \cap Parents = {p}
        BY <1>1, <1>2, <2>1 DEF Numbering
      <3>2. \A q \in Parents : q \in tx[r].holds <=> q = p
        BY <1>2, <3>1
      <3> QED
        BY <1>2, <3>2 DEF TypeOK
    <2>3. /\ parent'[p].counter = parent[p].counter + 1 /\ parent'[p].status = parent[p].status
          /\ \A q \in Parents \ {p} : parent'[q] = parent[q]
      BY <1>2, <1>11, <2>1, <2>2 DEF TypeOK, ParentRow
    <2>4. parent' \in [Parents -> ParentRow]
      BY <1>2, <1>4, <2>2 DEF TypeOK
    <2>5. Evidence(p)' = Evidence(p) \cup {c} /\ c \notin Evidence(p)
      BY <1>2, <1>8, <1>14 DEF Evidence
    <2>6. ASSUME NEW q \in Parents \ {p} PROVE Evidence(q)' = Evidence(q)
      <3>1. \A d \in Children : (child'[d].state # "absent" /\ child'[d].origin = q)
                                  <=> (child[d].state # "absent" /\ child[d].origin = q)
        BY <1>2, <1>8, <1>14
      <3> QED
        BY <3>1, EvidenceSame
    <2>7. Cardinality(Evidence(p)') = Cardinality(Evidence(p)) + 1
      <3> HIDE DEF IInv, Commit
      <3>1. IsFiniteSet(Evidence(p))
        BY <1>12
      <3>2. Cardinality(Evidence(p) \cup {c}) = Cardinality(Evidence(p)) + 1
        BY <2>5, <3>1, FS_AddElement
      <3> QED
        BY <2>5, <3>2
    <2>8. ASSUME NEW q \in Parents PROVE Cardinality(Evidence(q)) <= Cardinality(Evidence(q)')
      <3> HIDE DEF IInv, Commit
      <3>1. CASE q = p
        BY <1>12, <2>7, <3>1
      <3>2. CASE q # p
        BY <1>12, <2>6, <3>2
      <3> QED
        BY <3>1, <3>2
    <2>9. overlap' = overlap
      OBVIOUS
    <2>10. CounterSound'
      <3>1. ASSUME NEW q \in Parents
            PROVE  /\ parent'[q].counter <= Cardinality(Evidence(q)')
                   /\ ~overlap => parent'[q].counter = Cardinality(Evidence(q)')
        <4>0. /\ parent[q].counter <= Cardinality(Evidence(q)) /\ parent[q].counter \in Nat
              /\ ~overlap => parent[q].counter = Cardinality(Evidence(q))
          BY <1>11 DEF CounterSound
        <4> HIDE DEF IInv, Commit
        <4>1. CASE q = p
          BY <1>12, <2>3, <2>7, <4>0, <4>1
        <4>2. CASE q # p
          BY <2>3, <2>6, <4>0, <4>2
        <4> QED
          BY <4>1, <4>2
      <3> QED
        BY <2>9, <3>1 DEF CounterSound
    <2>11. SubmittedHadEvidence'
      <3>1. ASSUME ~steered, NEW q \in Parents, parent'[q].status = "Submitted"
            PROVE  Cardinality(Evidence(q)') >= Need
        <4>0. parent[q].status = "Submitted" => Cardinality(Evidence(q)) >= Need
          BY <3>1 DEF SubmittedHadEvidence
        <4> HIDE DEF IInv, Commit
        <4>1. CASE q = p
          BY <1>12, <2>3, <2>7, <3>1, <4>0, <4>1, RecordsAssumption
        <4>2. CASE q # p
          BY <2>3, <2>6, <3>1, <4>0, <4>2
        <4> QED
          BY <4>1, <4>2
      <3> QED
        BY <3>1 DEF SubmittedHadEvidence
    <2> QED
      BY <1>2, <1>5, <1>6, <1>8, <1>9, <1>10, <2>4, <2>8, <2>10, <2>11 DEF Installed
  <1> QED
    BY <1>13, <1>14

\* A changed child keeps its number and stays the evidence it was.
LEMMA CommitChanging ==
  ASSUME IInv, NEW r \in Requests, Commit(r),
         NEW t \in Request, t = tx[r], t.kind \in {"repoint", "archiveChild"}, NEW c, c = t.c
  PROVE  Installed
  <1> USE RecordsAssumption DEF IInv, Commit
  <1>1. t \in Request /\ t.at = "done" /\ Numbering(t) /\ Changing(t) /\ sequence \in Nat
    BY DEF TypeOK, Good
  <1>2. c \in Children /\ child[c].state # "absent" /\ t.p \notin t.holds
    BY <1>1 DEF Changing
  <1>3. parent' = parent /\ sequence' = sequence
    BY <1>1, <1>2 DEF Numbering, TypeOK
  <1>4. CASE c \notin t.holds
    <2>1. child' = child
      BY <1>1, <1>2, <1>4 DEF Numbering, Request, TypeOK
    <2> QED
      BY <1>3, <2>1, CommitNothing
  <1>5. CASE c \in t.holds
    <2>1. t.fresh \in ChildRow /\ t.fresh.number = child[c].number
          /\ t.fresh.origin = child[c].origin /\ t.fresh.state # "absent"
      BY <1>1, <1>5 DEF Changing, Request
    <2>2. child' = [child EXCEPT ![c] = t.fresh]
      BY <1>1, <1>2, <1>5 DEF Numbering, Request, TypeOK
    <2>3. child' \in [Children -> ChildRow]
      BY <1>2, <2>1, <2>2 DEF TypeOK
    <2>4. \A d \in Children : /\ child'[d].number = child[d].number
                              /\ child'[d].origin = child[d].origin
                              /\ (child'[d].state = "absent") <=> (child[d].state = "absent")
      BY <1>2, <2>1, <2>2 DEF TypeOK
    <2>5. ASSUME NEW p PROVE Evidence(p)' = Evidence(p)
      <3>1. \A d \in Children : (child'[d].state # "absent" /\ child'[d].origin = p)
                                  <=> (child[d].state # "absent" /\ child[d].origin = p)
        BY <2>4
      <3> QED
        BY <3>1, EvidenceSame
    <2>6. Drawn' /\ NumbersUnique'
      <3>1. Drawn /\ NumbersUnique
        OBVIOUS
      <3>2. \A d \in Children : child'[d].number = child[d].number
        BY <2>4
      <3> HIDE DEF IInv, Commit
      <3>3. Drawn'
        BY <1>3, <2>4, <3>1 DEF Drawn
      <3>4. NumbersUnique'
        BY <3>1, <3>2 DEF NumbersUnique
      <3> QED
        BY <3>3, <3>4
    <2>7. CounterSound' /\ SubmittedHadEvidence'
      BY <1>3, <2>5 DEF CounterSound, SubmittedHadEvidence
    <2>8. \A p \in Parents : Cardinality(Evidence(p)) <= Cardinality(Evidence(p)')
      BY <2>5, EvidenceFinite
    <2>9. parent \in [Parents -> ParentRow]
      BY DEF TypeOK
    <2> HIDE DEF IInv, Commit
    <2> QED
      BY <1>1, <1>3, <2>3, <2>4, <2>6, <2>7, <2>8, <2>9 DEF Installed
  <1> QED
    BY <1>4, <1>5

\* A parent written from what was read brings back a count its evidence covers.
LEMMA CommitWriting ==
  ASSUME IInv, NEW r \in Requests, Commit(r),
         NEW t \in Request, t = tx[r],
         t.kind \in Writers, NEW p, p = t.p
  PROVE  Installed
  <1> USE RecordsAssumption DEF IInv, Commit
  <1>1. t \in Request /\ t.at = "done" /\ Numbering(t) /\ Writing(t) /\ sequence \in Nat
    BY DEF TypeOK, Good
  <1>2. p \in Parents /\ t.c = Nil
    BY <1>1 DEF Writing, Writers
  <1>3. child' = child /\ sequence' = sequence
    <2>1. t.holds \cap Children = {} /\ Sequence \notin t.holds
      BY <1>1, <1>2 DEF Numbering, Writers
    <2> QED
      BY <2>1 DEF TypeOK
  <1>4. CASE p \notin t.holds
    <2>1. parent' = parent
      BY <1>1, <1>2, <1>4 DEF Numbering, TypeOK
    <2> QED
      BY <1>3, <2>1, CommitNothing
  <1>5. CASE p \in t.holds
    <2>1. /\ t.row \in ParentRow
          /\ t.row.counter <= Cardinality(Evidence(p))
          /\ ~overlap => t.row.counter = parent[p].counter
          /\ ~steered /\ t.row.status = "Submitted" => Cardinality(Evidence(p)) >= Need
      BY <1>1, <1>5 DEF Writing, Writers, Request
    <2>2. parent' = [parent EXCEPT ![p] = t.row]
      BY <1>1, <1>2, <1>5 DEF Numbering, TypeOK
    <2>3. parent' \in [Parents -> ParentRow]
      BY <1>2, <2>1, <2>2 DEF TypeOK
    <2>4. \A q : Evidence(q)' = Evidence(q)
      BY <1>3 DEF Evidence
    <2>5. Drawn' /\ NumbersUnique'
      BY <1>3 DEF Drawn, NumbersUnique
    <2>6. parent'[p] = t.row /\ \A q \in Parents \ {p} : parent'[q] = parent[q]
      BY <1>2, <2>2 DEF TypeOK
    <2>7. overlap' = overlap /\ steered' = steered
      OBVIOUS
    <2>8. CounterSound'
      <3>1. ASSUME NEW q \in Parents
            PROVE  /\ parent'[q].counter <= Cardinality(Evidence(q))
                   /\ ~overlap => parent'[q].counter = Cardinality(Evidence(q))
        BY <1>2, <2>1, <2>6 DEF CounterSound
      <3> QED
        BY <2>4, <2>7, <3>1 DEF CounterSound
    <2>9. SubmittedHadEvidence'
      BY <2>1, <2>4, <2>6, <2>7 DEF SubmittedHadEvidence
    <2>10. \A q \in Parents : Cardinality(Evidence(q)) <= Cardinality(Evidence(q)')
      BY <2>4, EvidenceFinite
    <2> QED
      BY <1>1, <1>3, <2>3, <2>5, <2>8, <2>9, <2>10 DEF Installed, TypeOK
  <1> QED
    BY <1>4, <1>5

\* A commit installs what its request wrote and frees what it held.
LEMMA CommitIInv ==
  ASSUME IInv, NEW r \in Requests, Commit(r) PROVE IInv'
  <1> USE RecordsAssumption
  <1>1. PICK t \in Request : t = tx[r] /\ Good(t) /\ t.at = "done"
    BY DEF IInv, TypeOK, Commit
  <1>2. PICK c, p : c = t.c /\ p = t.p
    OBVIOUS
  <1>3. Installed
    <2>1. t.kind \in Kinds
      BY DEF Request
    <2>2. CASE t.kind \in {"create", "import"} /\ c = Nil
      <3>1. \A x \in Parents \cup Children : x \notin t.holds
        BY <1>1, <1>2, <2>2 DEF Good, Creating, Numbering
      <3>2. UNCHANGED <<parent, child>>
        BY <1>1, <3>1 DEF Commit, IInv, TypeOK
      <3> QED
        BY <3>2, CommitNothing
    <2>3. CASE t.kind \in {"create", "import"} /\ c # Nil
      BY <1>1, <1>2, <2>3, CommitCreating
    <2>4. CASE t.kind \in {"repoint", "archiveChild"}
      BY <1>1, <1>2, <2>4, CommitChanging
    <2>5. CASE t.kind \in Writers
      BY <1>1, <1>2, <2>5, CommitWriting
    <2> QED
      BY <2>1, <2>2, <2>3, <2>4, <2>5 DEF Kinds, Writers
  <1>4. /\ tx'[r] = Idle /\ (\A q \in Requests \ {r} : tx'[q] = tx[q])
        /\ UNCHANGED <<overlap, steered>>
    BY DEF Commit, IInv, TypeOK
  <1>5. TypeOK'
    <2>1. tx' \in [Requests -> Request]
      BY IdleGood DEF Commit, IInv, TypeOK
    <2> QED
      BY <1>3, <1>4, <2>1 DEF Installed, IInv, TypeOK
  <1>6. Idle.holds = {} /\ Idle.at = "idle"
    BY DEF Idle
  <1>7. Exclusive'
    BY <1>4, <1>6 DEF Exclusive, IInv
  <1>8. Alone'
    BY <1>4, <1>6 DEF Alone, IInv
  <1>9. ASSUME NEW q \in Requests PROVE Good(tx[q])'
    <2>1. CASE q = r
      BY <1>4, <2>1 DEF Good, Numbering, Creating, Changing, Writing, Writers, Idle
    <2>2. CASE q # r
      <3>1. PICK u \in Request : u = tx[q] /\ tx'[q] = u /\ Good(u)
        BY <1>4, <2>2 DEF IInv, TypeOK
      <3>2. u.holds \cap t.holds = {}
        BY <1>1, <2>2, <3>1 DEF IInv, Exclusive
      <3>3. /\ Sequence \in u.holds => sequence' = sequence
            /\ \A x \in Parents \cap u.holds : parent'[x] = parent[x]
            /\ \A x \in Children \cap u.holds : child'[x] = child[x]
        BY <1>1, <3>2 DEF Commit
      <3>4. Numbering(u)'
        BY <3>1, <3>3 DEF Good, Numbering
      <3>5. Creating(u)'
        BY <3>1, <3>3 DEF Good, Creating, Request
      <3>6. Changing(u)'
        BY <1>3, <3>1 DEF Good, Changing, Installed
      <3>7. Writing(u)'
        <4>1. ~overlap => u.at = "idle"
          BY <1>1, <2>2, <3>1 DEF IInv, Alone
        <4>2. SUFFICES ASSUME u.kind \in Writers,
                              u.at # "idle", u.at = "read" \/ u.p \in u.holds
                       PROVE  /\ u.row.counter <= Cardinality(Evidence(u.p))'
                              /\ ~steered /\ u.row.status = "Submitted" => Cardinality(Evidence(u.p))' >= Need
          BY <1>4, <3>1, <4>1 DEF Good, Writing, Writers
        <4>3. /\ u.p \in Parents /\ u.row.counter <= Cardinality(Evidence(u.p))
              /\ ~steered /\ u.row.status = "Submitted" => Cardinality(Evidence(u.p)) >= Need
          BY <3>1, <4>2 DEF Good, Writing, Writers
        <4>4. Cardinality(Evidence(u.p)) <= Cardinality(Evidence(u.p)')
          BY <1>3, <4>3 DEF Installed
        <4>5. Cardinality(Evidence(u.p)) \in Nat /\ Cardinality(Evidence(u.p)') \in Nat
          <5>1. Evidence(u.p) \subseteq Children /\ Evidence(u.p)' \subseteq Children
            BY DEF Evidence
          <5> QED
            BY <5>1, FS_Subset, FS_CardinalityType
        <4>6. u.row.counter \in Nat
          BY DEF Request, ParentRow
        <4> QED
          BY <4>3, <4>4, <4>5, <4>6
      <3>8. Good(u)'
        BY <3>4, <3>5, <3>6, <3>7 DEF Good
      <3> QED
        BY <3>1, <3>8
    <2> QED
      BY <2>1, <2>2
  <1> QED
    BY <1>3, <1>5, <1>7, <1>8, <1>9 DEF IInv, Installed

\* Every step keeps the invariant.
LEMMA StepIInv == IInv /\ [Next]_vars => IInv'
  <1> SUFFICES ASSUME IInv, [Next]_vars PROVE IInv'
    OBVIOUS
  <1>1. CASE UNCHANGED vars
    <2>1. UNCHANGED <<parent, child, sequence, tx, overlap, steered>>
      BY <1>1 DEF vars
    <2>2. \A p : Evidence(p)' = Evidence(p)
      BY <2>1 DEF Evidence
    <2>3. TypeOK' /\ Exclusive' /\ Alone' /\ Drawn' /\ NumbersUnique'
      BY <2>1 DEF IInv, TypeOK, Exclusive, Alone, Drawn, NumbersUnique
    <2>4. CounterSound' /\ SubmittedHadEvidence'
      BY <2>1, <2>2 DEF IInv, CounterSound, SubmittedHadEvidence
    <2>5. \A q \in Requests : Good(tx[q])'
      BY <2>1, <2>2 DEF IInv, Good, Numbering, Creating, Changing, Writing, Writers
    <2> QED
      BY <2>3, <2>4, <2>5 DEF IInv
  <1>2. ASSUME NEW r \in Requests, Step(r) PROVE IInv'
    BY <1>2, BeginIInv, RefuseIInv, DrawNumberIInv, InsertIInv, StampIInv, ReadIInv, WriteBackIInv,
       ScanReferencesIInv, SetDeletedIInv, DropOnLaneIInv, SetChildDeletedIInv, ReadChildIInv, WriteChildIInv,
       CommitIInv, FailIInv DEF Step
  <1> QED
    BY <1>1, <1>2 DEF Next

\* The inductive invariant holds throughout.
LEMMA Inductive == Spec => []IInv
  BY InitIInv, StepIInv, PTL DEF Spec

\* Every variable keeps its type, however many requests overlap.
THEOREM TypeCorrect == Spec => []TypeOK
  <1>1. IInv => TypeOK
    BY DEF IInv
  <1> QED
    BY <1>1, Inductive, PTL

\* Two records never carry the same generated number (RecordStore.NextSequence).
THEOREM NumbersAreUnique == Spec => []NumbersUnique
  <1>1. IInv => NumbersUnique
    BY DEF IInv
  <1> QED
    BY <1>1, Inductive, PTL

\* The evidence counter of a parent never exceeds the evidence created for it,
\* and is exact among requests that do not overlap (stampRequirementCounters,
\* RecordStore.IncrementField, and every whole-row Update that may follow).
THEOREM CountersAreSound == Spec => []CounterSound
  <1>1. IInv => CounterSound
    BY DEF IInv
  <1> QED
    BY <1>1, Inductive, PTL

\* A parent is never submitted without the evidence its requirement asks for
\* (the requirement's constraint, checked against what may be a stale read).
THEOREM SubmittedHadTheirEvidence == Spec => []SubmittedHadEvidence
  <1>1. IInv => SubmittedHadEvidence
    BY DEF IInv
  <1> QED
    BY <1>1, Inductive, PTL

----------------------------------------------------------------------------
(* Frozen records.  A request on its own works on the rows that are        *)
(* committed, so its checks are still true when its write is installed.    *)

\* What a form, an event or an archival has checked of its parent.
Checked(t) ==
    t.kind \in Writers =>
        /\ t.at # "done" => t.p \notin t.holds
        /\ /\ t.at = "read" \/ t.p \in t.holds
           /\ t.kind \notin {"submit", "drop"} /\ ~(t.kind = "crossSet" /\ steered)
           => t.row.status = parent[t.p].status
        /\ t.kind = "submit" /\ (t.at = "read" \/ t.p \in t.holds) => parent[t.p].status = "Open"
        /\ t.kind = "archive" /\ (t.at \in {"read", "checked"} \/ t.p \in t.holds) =>
              parent[t.p].status \notin Frozen
        /\ t.kind = "archive" /\ MasterData /\ (t.at = "checked" \/ t.p \in t.holds) =>
              Referencing(t.p) = {}
        /\ t.kind \notin {"archive", "archiveElsewhere"} /\ t.p \in t.holds =>
              (t.row.archived => parent[t.p].archived)

AllChecked == ~overlap => \A r \in Requests : Checked(tx[r])

\* A request that is not under way has checked nothing.
LEMMA IdleChecked ==
  ASSUME NEW t, t.at = "idle", t.holds = {} PROVE Checked(t) /\ Checked(t)'
  BY DEF Checked

\* A statement of a request on its own, which installs nothing.
LEMMA SetChecked ==
  ASSUME IInv, AllChecked, NEW r \in Requests, NEW t, Set(r, t),
         ~overlap => Checked(t),
         tx[r].at # "idle" \/ overlap \/ \A q \in Requests : tx[q].at = "idle"
  PROVE  AllChecked'
  <1> SUFFICES ASSUME ~overlap', NEW q \in Requests PROVE Checked(tx[q])'
    BY DEF AllChecked
  <1>1. /\ UNCHANGED <<parent, child, steered>> /\ ~overlap
        /\ tx' = [tx EXCEPT ![r] = t] /\ tx \in [Requests -> Request]
    BY DEF Set, IInv, TypeOK
  <1>2. PICK x : x = tx'[q] /\ Checked(x)
    <2>1. CASE q = r
      BY <1>1, <2>1
    <2>2. CASE q # r
      BY <1>1, <2>2 DEF AllChecked
    <2> QED
      BY <2>1, <2>2
  <1> QED
    BY <1>1, <1>2 DEF Checked, Referencing

\* Every step of a request on its own leaves its checks true.
LEMMA StepChecked == IInv /\ AllChecked /\ [Next]_vars => AllChecked'
  <1> SUFFICES ASSUME IInv, AllChecked, [Next]_vars PROVE AllChecked'
    OBVIOUS
  <1>0. CASE UNCHANGED vars
    <2> SUFFICES ASSUME ~overlap', NEW q \in Requests PROVE Checked(tx[q])'
      BY DEF AllChecked
    <2>1. PICK x : x = tx'[q] /\ Checked(x)
      BY <1>0 DEF vars, AllChecked
    <2> QED
      BY <1>0, <2>1 DEF vars, Checked, Referencing
  <1> SUFFICES ASSUME NEW r \in Requests, Step(r) PROVE AllChecked'
    BY <1>0 DEF Next
  <1>a. PICK x : x = tx[r]
    OBVIOUS
  <1>b. /\ x \in Request /\ Numbering(x) /\ Creating(x) /\ Changing(x) /\ Writing(x)
        /\ ~overlap => Checked(x)
        /\ parent \in [Parents -> ParentRow]
    BY <1>a DEF IInv, Good, TypeOK, AllChecked
  <1>1. ASSUME NEW kind \in Kinds, NEW p \in Parents \cup {Nil}, NEW c \in Children \cup {Nil},
               Begin(r, kind, p, c)
        PROVE  AllChecked'
    <2>1. PICK stage \in FirstStage(kind) :
              Set(r, [Idle EXCEPT !.kind = kind, !.at = stage, !.p = p, !.c = c])
      BY <1>1, Zenon DEF Begin
    <2> DEFINE t == [Idle EXCEPT !.kind = kind, !.at = stage, !.p = p, !.c = c]
    <2>2. t.kind = kind /\ t.at = stage /\ t.holds = {}
      BY DEF Idle
    <2>3. kind \in {"edit", "submit", "crossSet", "archive"} => stage = "begun"
      BY <2>1 DEF FirstStage, Unchecked
    <2>4. kind \in {"restore", "archiveElsewhere", "drop"} => stage = "checked"
      BY <2>1 DEF FirstStage, Unchecked
    <2>5. Set(r, t)
      BY <2>1
    <2> HIDE DEF t
    <2>6. Checked(t)
      BY <2>2, <2>3, <2>4 DEF Checked, Writers
    <2> QED
      BY <1>1, <2>5, <2>6, SetChecked DEF Begin
  <1>2. CASE DrawNumber(r) \/ Insert(r) \/ Stamp(r)
    <2>1. x.at # "idle" /\ x.kind \in {"create", "import"}
      <3>1. CASE DrawNumber(r) \/ Stamp(r)
        BY <1>a, <3>1 DEF DrawNumber, Stamp
      <3>2. CASE Insert(r)
        BY <1>a, <3>2, Zenon DEF Insert
      <3> QED
        BY <1>2, <3>1, <3>2
    <2>2. PICK t : Set(r, t) /\ t.kind = x.kind
      <3>1. CASE DrawNumber(r)
        <4>1. PICK n : Set(r, [x EXCEPT !.at = "numbered", !.number = n, !.holds = @ \cup {Sequence}])
          BY <1>a, <3>1, Zenon DEF DrawNumber
        <4>2. [x EXCEPT !.at = "numbered", !.number = n, !.holds = @ \cup {Sequence}].kind = x.kind
          BY <1>b DEF Request
        <4> QED
          BY <4>1, <4>2
      <3>2. CASE Insert(r)
        <4>1. CASE Refuse(r)
          <5>1. Set(r, [x EXCEPT !.at = "done"]) /\ [x EXCEPT !.at = "done"].kind = x.kind
            BY <1>a, <1>b, <4>1 DEF Refuse, Request
          <5> QED
            BY <5>1
        <4>2. CASE ~Refuse(r)
          <5>1. PICK at, c, fresh : Set(r, [x EXCEPT !.at = at, !.c = c, !.fresh = fresh,
                                                     !.holds = @ \cup {c}])
            BY <1>a, <3>2, <4>2, Zenon DEF Insert
          <5>2. [x EXCEPT !.at = at, !.c = c, !.fresh = fresh, !.holds = @ \cup {c}].kind = x.kind
            BY <1>b DEF Request
          <5> QED
            BY <5>1, <5>2
        <4> QED
          BY <4>1, <4>2
      <3>3. CASE Stamp(r)
        <4>1. PICK row : Set(r, [x EXCEPT !.at = "done", !.row = row, !.holds = @ \cup {x.p}])
          BY <1>a, <3>3, Zenon DEF Stamp
        <4>2. [x EXCEPT !.at = "done", !.row = row, !.holds = @ \cup {x.p}].kind = x.kind
          BY <1>b DEF Request
        <4> QED
          BY <4>1, <4>2
      <3> QED
        BY <1>2, <3>1, <3>2, <3>3
    <2>3. Checked(t)
      BY <2>1, <2>2 DEF Checked, Writers
    <2> QED
      BY <1>a, <2>1, <2>2, <2>3, SetChecked
  <1>3. CASE SetChildDeleted(r) \/ ReadChild(r) \/ WriteChild(r)
    <2>1. x.at # "idle" /\ x.kind \in {"archiveChild", "repoint"}
      BY <1>3, <1>a DEF SetChildDeleted, ReadChild, WriteChild
    <2>2. PICK t : Set(r, t) /\ t.kind = x.kind
      <3>1. CASE SetChildDeleted(r)
        <4>1. PICK fresh : Set(r, [x EXCEPT !.at = "done", !.fresh = fresh, !.holds = @ \cup {x.c}])
          BY <1>a, <3>1, Zenon DEF SetChildDeleted
        <4>2. [x EXCEPT !.at = "done", !.fresh = fresh, !.holds = @ \cup {x.c}].kind = x.kind
          BY <1>b DEF Request
        <4> QED
          BY <4>1, <4>2
      <3>2. CASE ReadChild(r)
        <4>1. CASE Refuse(r)
          <5>1. Set(r, [x EXCEPT !.at = "done"]) /\ [x EXCEPT !.at = "done"].kind = x.kind
            BY <1>a, <1>b, <4>1 DEF Refuse, Request
          <5> QED
            BY <5>1
        <4>2. CASE ~Refuse(r)
          <5>1. PICK fresh : Set(r, [x EXCEPT !.at = "read", !.fresh = fresh])
            BY <1>a, <3>2, <4>2, Zenon DEF ReadChild
          <5>2. [x EXCEPT !.at = "read", !.fresh = fresh].kind = x.kind
            BY <1>b DEF Request
          <5> QED
            BY <5>1, <5>2
        <4> QED
          BY <4>1, <4>2
      <3>3. CASE WriteChild(r)
        <4>1. PICK t : /\ Set(r, t)
                       /\ t = [x EXCEPT !.at = "done", !.fresh.state = child[x.c].state,
                                        !.holds = @ \cup {x.c}]
          BY <1>a, <3>3 DEF WriteChild
        <4>2. t.kind = x.kind
          BY <1>b, <4>1 DEF Request
        <4> QED
          BY <4>1, <4>2
      <3> QED
        BY <1>3, <3>1, <3>2, <3>3
    <2>3. Checked(t)
      BY <2>1, <2>2 DEF Checked, Writers
    <2> QED
      BY <1>a, <2>1, <2>2, <2>3, SetChecked
  <1>4. CASE Read(r)
    <2>0. /\ x.kind \in {"edit", "submit", "crossSet", "archive"} /\ x.at = "begun"
          /\ ~overlap => x.p \notin x.holds
      <3>1. x.kind \in {"edit", "submit", "crossSet", "archive"} /\ x.at = "begun"
        BY <1>4, <1>a, Zenon DEF Read
      <3> QED
        BY <3>1, <1>b DEF Checked, Writers
    <2>1. CASE ~MayEdit(x.kind, parent[x.p])
      <3> DEFINE t == [x EXCEPT !.at = "done"]
      <3>1. Set(r, t)
        BY <1>4, <1>a, <2>1 DEF Read, Refuse
      <3>2. t.kind = x.kind /\ t.p = x.p /\ t.holds = x.holds /\ t.at = "done"
        BY <1>b DEF Request
      <3> HIDE DEF t
      <3>3. ~overlap => Checked(t)
        BY <2>0, <3>2 DEF Checked
      <3> QED
        BY <1>a, <2>0, <3>1, <3>3, SetChecked
    <2>2. CASE MayEdit(x.kind, parent[x.p])
      <3>0. PICK new \in {Edited(x.kind, parent[x.p])} \cup Assigned(x.kind, parent[x.p]) :
                Set(r, [x EXCEPT !.at = "read", !.row = new])
        BY <1>4, <1>a, <2>2, Zenon DEF Read
      <3> DEFINE t == [x EXCEPT !.at = "read", !.row = new]
      <3>1. Set(r, t)
        BY <3>0
      <3>2. /\ t.kind = x.kind /\ t.p = x.p /\ t.holds = x.holds /\ t.at = "read"
            /\ t.row = new
        BY <1>b DEF Request
      <3> HIDE DEF t
      <3>3. x.kind # "submit" /\ ~(x.kind = "crossSet" /\ steered) =>
                t.row.status = parent[x.p].status
        <4>1. CASE new = Edited(x.kind, parent[x.p])
          BY <3>2, <4>1 DEF Edited
        <4>2. CASE new \in Assigned(x.kind, parent[x.p])
          BY <4>2 DEF Assigned
        <4> QED
          BY <3>0, <4>1, <4>2
      <3>4. /\ x.kind = "submit" => parent[x.p].status = "Open"
            /\ x.kind = "archive" => parent[x.p].status \notin Frozen
        BY <2>2 DEF MayEdit
      <3>5. ~overlap => Checked(t)
        BY <2>0, <3>2, <3>3, <3>4 DEF Checked
      <3> QED
        BY <1>a, <2>0, <3>1, <3>5, SetChecked
    <2> QED
      BY <2>1, <2>2
  <1>5. CASE WriteBack(r)
    <2> DEFINE t == [x EXCEPT !.at = "done", !.row.archived = parent[x.p].archived,
                              !.holds = @ \cup {x.p}]
    <2>1. Set(r, t) /\ x.at = "read" /\ x.kind \in {"edit", "submit", "crossSet"}
      BY <1>5, <1>a DEF WriteBack
    <2>2. /\ t.kind = x.kind /\ t.p = x.p /\ t.at = "done" /\ t.row.status = x.row.status
          /\ t.row.archived = parent[x.p].archived
      BY <1>b DEF Request, ParentRow
    <2> HIDE DEF t
    <2>3. ~overlap => Checked(t)
      BY <1>b, <2>1, <2>2 DEF Checked, Writers
    <2> QED
      BY <1>a, <2>1, <2>3, SetChecked
  <1>6. CASE ScanReferences(r)
    <2>0. /\ x.kind = "archive" /\ x.at = "read"
          /\ ~overlap => x.p \notin x.holds
      <3>1. x.kind = "archive" /\ x.at = "read"
        BY <1>6, <1>a DEF ScanReferences
      <3> QED
        BY <3>1, <1>b DEF Checked, Writers
    <2>1. CASE MasterData /\ Referencing(x.p) # {}
      <3> DEFINE t == [x EXCEPT !.at = "done"]
      <3>1. Set(r, t)
        BY <1>6, <1>a, <2>1 DEF ScanReferences, Refuse
      <3>2. t.kind = x.kind /\ t.p = x.p /\ t.holds = x.holds /\ t.at = "done"
        BY <1>b DEF Request
      <3> HIDE DEF t
      <3>3. ~overlap => Checked(t)
        BY <2>0, <3>2 DEF Checked
      <3> QED
        BY <1>a, <2>0, <3>1, <3>3, SetChecked
    <2>2. CASE ~(MasterData /\ Referencing(x.p) # {})
      <3> DEFINE t == [x EXCEPT !.at = "checked"]
      <3>1. Set(r, t)
        BY <1>6, <1>a, <2>2 DEF ScanReferences
      <3>2. t.kind = x.kind /\ t.p = x.p /\ t.holds = x.holds /\ t.at = "checked" /\ t.row = x.row
        BY <1>b DEF Request
      <3> HIDE DEF t
      <3>3. ~overlap => Checked(t)
        BY <1>b, <2>0, <2>2, <3>2 DEF Checked
      <3> QED
        BY <1>a, <2>0, <3>1, <3>3, SetChecked
    <2> QED
      BY <2>1, <2>2
  <1>7. CASE SetDeleted(r)
    <2> DEFINE row == [parent[x.p] EXCEPT !.archived = x.kind # "restore"]
               t == [x EXCEPT !.at = "done", !.row = row, !.holds = @ \cup {x.p}]
    <2>1. /\ Set(r, t) /\ x.at = "checked"
          /\ x.kind \in {"archive", "archiveElsewhere", "restore"}
      BY <1>7, <1>a DEF SetDeleted
    <2>2. /\ x.p \in Parents
          /\ t.kind = x.kind /\ t.p = x.p /\ t.row = row /\ t.at = "done"
          /\ row.status = parent[x.p].status /\ row.archived = (x.kind # "restore")
      BY <1>b, <2>1 DEF Request, ParentRow, Writing, Writers
    <2> HIDE DEF t, row
    <2>3. ~overlap => Checked(t)
      BY <1>b, <2>1, <2>2 DEF Checked, Writers
    <2> QED
      BY <1>a, <2>1, <2>3, SetChecked
  <1>7a. CASE DropOnLane(r)
    <2>1. PICK lane \in Statuses :
              Set(r, [x EXCEPT !.at = "done", !.row = [parent[x.p] EXCEPT !.status = lane],
                               !.holds = @ \cup {x.p}])
      BY <1>7a, <1>a, Zenon DEF DropOnLane
    <2> DEFINE row == [parent[x.p] EXCEPT !.status = lane]
               t == [x EXCEPT !.at = "done", !.row = row, !.holds = @ \cup {x.p}]
    <2>2. Set(r, t) /\ x.at = "checked" /\ x.kind = "drop"
      BY <1>7a, <1>a, <2>1 DEF DropOnLane
    <2>3. /\ x.p \in Parents
          /\ t.kind = "drop" /\ t.p = x.p /\ t.row = row /\ t.at = "done"
          /\ row.archived = parent[x.p].archived
      BY <1>b, <2>2 DEF Request, ParentRow, Writing, Writers
    <2> HIDE DEF t, row
    <2>4. ~overlap => Checked(t)
      BY <2>3 DEF Checked
    <2> QED
      BY <1>a, <2>2, <2>4, SetChecked
  <1>8. CASE Fail(r)
    <2>1. Idle.at = "idle" /\ Idle.holds = {}
      BY DEF Idle
    <2> QED
      BY <1>8, <2>1, IdleChecked, SetChecked DEF Fail
  <1>9. CASE Commit(r)
    <2> SUFFICES ASSUME ~overlap', NEW q \in Requests PROVE Checked(tx[q])'
      BY DEF AllChecked
    <2>1. /\ ~overlap /\ tx[r].at # "idle" /\ tx' = [tx EXCEPT ![r] = Idle]
          /\ tx \in [Requests -> Request]
      BY <1>9 DEF Commit, IInv, TypeOK
    <2>2. PICK y : y = tx'[q] /\ y.at = "idle" /\ y.holds = {}
      <3>1. CASE q = r
        BY <2>1, <3>1 DEF Idle
      <3>2. CASE q # r
        BY <2>1, <3>2 DEF IInv, Alone, Good, Numbering
      <3> QED
        BY <3>1, <3>2
    <2> QED
      BY <2>2, IdleChecked
  <1> QED
    BY <1>1, <1>2, <1>3, <1>4, <1>5, <1>6, <1>7, <1>7a, <1>8, <1>9 DEF Step

\* On a machine whose immutable states no event leaves, and among requests that
\* do not overlap, in any order and over any records: a record that reached such
\* a state changes it only by a drop on a board or a cross_set_field, and only
\* where metadata groups a board by the status or sets it; it is archived only
\* under another machine's page; and so is master data that is referenced.
THEOREM FrozenRecordsStay == ASSUME "Open" \notin Frozen PROVE Spec => FrozenStays
  <1> DEFINE Archival(p) == parent'[p].archived /\ ~parent[p].archived
             Stays(p) ==
                /\ parent[p].status \in Frozen =>
                      /\ parent'[p].status = parent[p].status
                            \/ (steered /\ WrittenBy(p, {"drop", "crossSet"}))
                      /\ Archival(p) => WrittenBy(p, {"archiveElsewhere"})
                /\ MasterData /\ Archival(p) =>
                      Referencing(p) = {} \/ WrittenBy(p, {"archiveElsewhere"})
             Kept == ~overlap => \A p \in Parents : Stays(p)
  <1>1. Init => AllChecked
    <2>1. Idle.at = "idle" /\ Idle.holds = {}
      BY DEF Idle
    <2> QED
      BY <2>1, IdleChecked DEF Init, AllChecked
  <1>2. IInv /\ AllChecked /\ [Next]_vars => [Kept]_vars
    <2> SUFFICES ASSUME IInv, AllChecked, [Next]_vars PROVE parent' = parent \/ Kept
      OBVIOUS
    <2>1. ASSUME NEW r \in Requests, Commit(r) PROVE Kept
      <3> SUFFICES ASSUME ~overlap, NEW p \in Parents PROVE Stays(p)
        OBVIOUS
      <3>1. PICK x : x = tx[r]
        OBVIOUS
      <3>2. /\ x \in Request /\ Numbering(x) /\ Creating(x) /\ Changing(x) /\ Writing(x)
            /\ Checked(x) /\ x.at = "done"
            /\ parent \in [Parents -> ParentRow]
            /\ parent'[p] = IF p \in x.holds THEN x.row ELSE parent[p]
        BY <2>1, <3>1 DEF IInv, Good, TypeOK, AllChecked, Commit
      <3>3. CASE p \notin x.holds
        BY <3>2, <3>3
      <3>4. CASE p \in x.holds
        <4>1. p = x.p /\ parent'[p] = x.row
          BY <3>2, <3>4, RecordsAssumption DEF Numbering, Request
        <4>2. CASE x.kind \in {"create", "import"}
          <5>1. x.row = [parent[p] EXCEPT !.counter = @ + 1]
            BY <3>2, <3>4, <4>1, <4>2 DEF Creating
          <5>2. x.row.status = parent[p].status /\ x.row.archived = parent[p].archived
            BY <3>2, <5>1 DEF ParentRow
          <5> QED
            BY <4>1, <5>2
        <4>3. CASE x.kind \in {"repoint", "archiveChild"}
          BY <3>2, <3>4, <4>1, <4>3 DEF Changing
        <4>4. CASE x.kind \in Writers
          <5>1. ASSUME NEW kinds, x.kind \in kinds PROVE WrittenBy(p, kinds)
            BY <3>1, <3>4, <5>1 DEF WrittenBy
          <5>2. x.kind = "drop" => steered
            BY <3>2, <4>4 DEF Writing
          <5>3. x.row.status = parent[p].status
                   \/ parent[p].status \notin Frozen
                   \/ (steered /\ WrittenBy(p, {"drop", "crossSet"}))
            BY <3>2, <3>4, <4>1, <4>4, <5>1, <5>2 DEF Checked
          <5>4. Archival(p) =>
                   \/ parent[p].status \notin Frozen /\ (MasterData => Referencing(p) = {})
                   \/ WrittenBy(p, {"archiveElsewhere"})
            BY <3>2, <3>4, <4>1, <4>4, <5>1 DEF Checked
          <5> QED
            BY <4>1, <5>3, <5>4
        <4> QED
          BY <3>2, <4>2, <4>3, <4>4 DEF Request, Kinds, Writers
      <3> QED
        BY <3>3, <3>4
    <2>2. CASE UNCHANGED vars
      BY <2>2 DEF vars
    <2>3. ASSUME NEW r \in Requests, Step(r), ~Commit(r) PROVE parent' = parent
      <3>1. CASE \E kind \in Kinds, p \in Parents \cup {Nil}, c \in Children \cup {Nil} :
                    Begin(r, kind, p, c)
        BY <3>1, Zenon DEF Begin, Set
      <3>2. CASE DrawNumber(r) \/ Insert(r) \/ Stamp(r)
        BY <3>2, Zenon DEF DrawNumber, Insert, Stamp, Refuse, Set
      <3>3. CASE Read(r) \/ WriteBack(r) \/ ScanReferences(r) \/ SetDeleted(r)
        BY <3>3, Zenon DEF Read, WriteBack, ScanReferences, SetDeleted, Refuse, Set
      <3>4. CASE DropOnLane(r) \/ SetChildDeleted(r) \/ ReadChild(r) \/ WriteChild(r) \/ Fail(r)
        BY <3>4, Zenon DEF DropOnLane, SetChildDeleted, ReadChild, WriteChild, Fail, Refuse, Set
      <3> QED
        BY <2>3, <3>1, <3>2, <3>3, <3>4, Zenon DEF Step
    <2>4. parent' = parent => Kept
      OBVIOUS
    <2> QED
      BY <2>1, <2>2, <2>3 DEF Next, Step
  <1> QED
    BY <1>1, <1>2, StepChecked, Inductive, PTL DEF Spec, FrozenStays
=============================================================================
