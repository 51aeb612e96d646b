---------------------------- MODULE StoreProofs ----------------------------
(***************************************************************************)
(* The record store's parts together, for any records, boards and ledgers: *)
(* moves trade positions and drops append, and entries are posted within   *)
(* the rules whatever the other parts do meanwhile.  What a sum of lines   *)
(* is plays no part in the last: only that nobody changes the lines.       *)
(* RecordsProofs holds the theorems of Records.                            *)
(***************************************************************************)
EXTENDS Store, FiniteSetTheorems, WellFoundedInduction, TLAPS

----------------------------------------------------------------------------
Places == O!Cardinality(Cards)

\* Among requests that do not overlap one at most is under way.
AloneOnBoard == ~setting.overlap =>
            \A q, r \in Requests : q # r => move[q].at = "idle" \/ move[r].at = "idle"

\* What a request has written at each stage.
Holding(t) ==
    /\ t.at \in {"idle", "moving", "found", "dropping"} => t.holds = {}
    /\ t.at = "half" => t.holds = {t.own}
    /\ t.holds \subseteq {t.own, t.other}

\* On a machine without a board a request carries positions that exist.
Ranged(t) ==
    ~setting.board =>
        /\ t.at # "dropping"
        /\ t.at # "idle" => t.first \in 1..Places
        /\ t.at \in {"found", "half"} \/ t.holds # {} => t.second \in 1..Places

\* Without overlap the orders a move carries are still those of its two records,
\* and the order a drop carries is still the end of its lane.
InStep(t) ==
    ~setting.overlap =>
        /\ t.at = "moving" => t.first = row[t.own].order
        /\ (t.at \in {"found", "half"} \/ (t.holds # {} /\ t.own # t.other)) =>
              t.own # t.other /\ t.first = row[t.own].order /\ t.second = row[t.other].order
        /\ t.at = "done" /\ t.own # t.other => t.holds \in {{}, {t.own, t.other}}
        /\ (t.at = "dropping" \/ (t.holds # {} /\ t.own = t.other)) =>
              setting.board /\ t.own = t.other /\ t.first = O!NextInLane(t.lane)

GoodMove(t) == Holding(t) /\ Ranged(t) /\ InStep(t)

OrderInv == O!TypeOK /\ AloneOnBoard /\ O!OrdersTraded /\ \A r \in Requests : GoodMove(move[r])

\* What AppendedAtEnd says of one step.
Appending ==
    ~setting.overlap => \A x \in Cards : row'[x].lane # row[x].lane =>
        \A y \in Cards \ {x} : row'[y].lane = row'[x].lane => row'[y].order < row'[x].order

\* A board's cards are counted as the store counts them.
LEMMA CardsCounted == \A S : O!Cardinality(S) = Cardinality(S)
  BY DEF O!Cardinality, Cardinality

\* A set of bounded numbers has a greatest one.
LEMMA GreatestExists ==
  ASSUME NEW M \in Nat, NEW S, S \subseteq 0..M, S # {}
  PROVE  \E o \in S : \A q \in S : q <= o
  <1> DEFINE T == {M - o : o \in S}
             R == OpToRel(<, Nat)
  <1>1. T \subseteq Nat /\ T # {}
    <2> HIDE DEF R
    <2>1. PICK o \in S : TRUE
      OBVIOUS
    <2>2. M - o \in T
      BY <2>1
    <2>3. ASSUME NEW p \in S PROVE M - p \in Nat
      <3>1. p \in 0..M
        OBVIOUS
      <3> QED
        BY <3>1
    <2> QED
      BY <2>2, <2>3
  <1>2. \E x \in T : \A y \in T : ~(<<y, x>> \in R)
    <2> HIDE DEF T
    <2> QED
      BY <1>1, NatLessThanWellFounded, WFMin
  <1>3. PICK x \in T : \A y \in T : ~(<<y, x>> \in R)
    BY <1>2
  <1>4. \A y \in T : ~(y < x)
    BY <1>1, <1>3 DEF OpToRel
  <1> HIDE DEF R
  <1>5. PICK o \in S : x = M - o
    OBVIOUS
  <1>6. ASSUME NEW q \in S PROVE q <= o
    <2>1. M - q \in T /\ q \in Nat /\ o \in Nat
      OBVIOUS
    <2> QED
      BY <1>4, <1>5, <2>1
  <1> QED
    BY <1>6

\* The order a drop computes lies beyond every order of its lane.
LEMMA NextBeyond ==
  ASSUME O!TypeOK, NEW lane
  PROVE  /\ O!NextInLane(lane) \in Nat
         /\ \A y \in Cards : row[y].lane = lane => row[y].order < O!NextInLane(lane)
  <1> DEFINE orders == {row[y].order : y \in {z \in Cards : row[z].lane = lane}}
             top == CHOOSE o \in orders : \A q \in orders : q <= o
  <1>1. orders \subseteq 0..MaxOrder /\ MaxOrder \in Nat
    BY BoardAssumption DEF O!TypeOK, O!Row
  <1>2. O!NextInLane(lane) = IF orders = {} THEN 0 ELSE 1 + top
    BY DEF O!NextInLane
  <1>3. CASE orders = {}
    BY <1>2, <1>3
  <1>4. CASE orders # {}
    <2>1. \E o \in orders : \A q \in orders : q <= o
      <3> HIDE DEF orders
      <3> QED
        BY <1>1, <1>4, GreatestExists
    <2>2. top \in orders /\ \A q \in orders : q <= top
      BY <2>1
    <2>3. top \in Nat
      BY <1>1, <2>2
    <2>4. O!NextInLane(lane) = 1 + top
      BY <1>2, <1>4
    <2>5. ASSUME NEW y \in Cards, row[y].lane = lane
          PROVE  row[y].order < O!NextInLane(lane)
      <3>1. PICK o \in orders : o = row[y].order
        BY <2>5
      <3> HIDE DEF orders, top
      <3>2. o <= top /\ o \in Nat
        BY <1>1, <2>2, <3>1
      <3> QED
        BY <2>3, <2>4, <3>1, <3>2
    <2> HIDE DEF orders, top
    <2> QED
      BY <2>3, <2>4, <2>5
  <1> QED
    BY <1>3, <1>4

\* The initial states satisfy the inductive invariant.
LEMMA InitOrder == O!Init => OrderInv
  <1> SUFFICES ASSUME O!Init PROVE OrderInv
    OBVIOUS
  <1> DEFINE idle == [at |-> "idle", own |-> CHOOSE x \in Cards : TRUE,
                      other |-> CHOOSE x \in Cards : TRUE, lane |-> CHOOSE l \in Lanes : TRUE,
                      direction |-> "up", first |-> 0, second |-> 0, holds |-> {}]
  <1>1. (CHOOSE x \in Cards : TRUE) \in Cards /\ (CHOOSE l \in Lanes : TRUE) \in Lanes
    BY BoardAssumption
  <1>2. Places \in Nat /\ MaxOrder \in Nat /\ Places <= MaxOrder
    BY FS_CardinalityType, CardsCounted, BoardAssumption DEF Places
  <1>3. 1..Places \subseteq 0..MaxOrder /\ 0 \in 0..MaxOrder
    BY <1>2
  <1>4. idle \in O!Request /\ idle.at = "idle" /\ idle.holds = {} /\ idle.own = idle.other
    BY <1>1, <1>3 DEF O!Request, O!Directions
  <1>5. move = [r \in Requests |-> idle]
    BY DEF O!Init
  <1> HIDE DEF idle
  <1>6. row \in [Cards -> [order : 1..Places, lane : Lanes]]
        /\ \A x, y \in Cards : x # y => row[x].order # row[y].order
    BY DEF O!Init, Places
  <1>7. O!TypeOK
    <2>1. row \in [Cards -> O!Row]
      BY <1>3, <1>6 DEF O!Row
    <2> QED
      BY <1>4, <1>5, <2>1, BoardAssumption DEF O!Init, O!TypeOK
  <1>8. O!OrdersTraded
    BY <1>6 DEF O!OrdersTraded, Places
  <1>9. AloneOnBoard /\ \A r \in Requests : GoodMove(move[r])
    BY <1>4, <1>5 DEF AloneOnBoard, GoodMove, Holding, Ranged, InStep
  <1> QED
    BY <1>7, <1>8, <1>9 DEF OrderInv

\* A step that changes its own request only keeps the invariant and moves no card.
LEMMA SetOrder ==
  ASSUME OrderInv, NEW r \in Requests, NEW t \in O!Request, O!Set(r, t), GoodMove(t),
         t.at = "idle" \/ move[r].at # "idle" \/ O!MayBegin(r)
  PROVE  OrderInv' /\ Appending
  <1>1. /\ move'[r] = t /\ \A q \in Requests \ {r} : move'[q] = move[q]
        /\ UNCHANGED <<row, setting>>
    BY DEF O!Set, OrderInv, O!TypeOK
  <1>2. O!TypeOK' /\ O!OrdersTraded'
    BY DEF O!Set, OrderInv, O!TypeOK, O!OrdersTraded
  <1>3. AloneOnBoard'
    BY <1>1 DEF OrderInv, AloneOnBoard, O!MayBegin
  <1>4. ASSUME NEW q \in Requests PROVE GoodMove(move[q])'
    <2>1. GoodMove(move'[q])
      BY <1>1 DEF OrderInv
    <2>2. \A l : O!NextInLane(l)' = O!NextInLane(l)
      BY <1>1 DEF O!NextInLane
    <2> QED
      BY <1>1, <2>1, <2>2 DEF GoodMove, Holding, Ranged, InStep
  <1>5. Appending
    BY <1>1 DEF Appending
  <1> QED
    BY <1>2, <1>3, <1>4, <1>5 DEF OrderInv

\* An ended request carries nothing.
LEMMA EndedMove ==
  ASSUME OrderInv, NEW r \in Requests
  PROVE  /\ O!Ended(r) \in O!Request /\ GoodMove(O!Ended(r))
         /\ O!Ended(r).at = "idle" /\ O!Ended(r).holds = {}
         /\ O!Ended(r).own = O!Ended(r).other
  <1>1. (CHOOSE x \in Cards : TRUE) \in Cards /\ (CHOOSE l \in Lanes : TRUE) \in Lanes
    BY BoardAssumption
  <1>2. move[r] \in O!Request /\ 0 \in 0..MaxOrder
    BY BoardAssumption DEF OrderInv, O!TypeOK
  <1>3. /\ O!Ended(r) \in O!Request /\ O!Ended(r).at = "idle" /\ O!Ended(r).holds = {}
        /\ O!Ended(r).own = O!Ended(r).other
    BY <1>1, <1>2 DEF O!Ended, O!Request, O!Directions
  <1> QED
    BY <1>3 DEF GoodMove, Holding, Ranged, InStep

\* Reading the record's own order.
LEMMA BeginMoveKeeps ==
  ASSUME OrderInv, NEW r \in Requests, NEW x \in Cards, NEW d \in O!Directions,
         O!BeginMove(r, x, d)
  PROVE  OrderInv' /\ Appending
  <1> DEFINE t == [move[r] EXCEPT !.at = "moving", !.own = x, !.direction = d,
                                !.first = row[x].order, !.lane = row[x].lane]
  <1>1. move[r] \in O!Request /\ row[x] \in O!Row /\ move[r].at = "idle" /\ move[r].holds = {}
    BY DEF OrderInv, O!TypeOK, O!BeginMove, O!MayBegin, GoodMove, Holding
  <1>2. /\ t \in O!Request /\ t.at = "moving" /\ t.own = x /\ t.holds = {}
        /\ t.first = row[x].order
    BY <1>1 DEF O!Request, O!Row
  <1>3. O!Set(r, t) /\ O!MayBegin(r)
    BY DEF O!BeginMove
  <1> HIDE DEF t
  <1>4. ~setting.board => t.first \in 1..Places
    BY <1>2 DEF OrderInv, O!OrdersTraded, Places
  <1>5. GoodMove(t)
    BY <1>2, <1>4 DEF GoodMove, Holding, Ranged, InStep
  <1> QED
    BY <1>2, <1>3, <1>5, SetOrder

\* Reading the neighbour's order; the neighbour is another record when nothing
\* moved since the first read.
LEMMA FindNeighbourKeeps ==
  ASSUME OrderInv, NEW r \in Requests, O!FindNeighbour(r)
  PROVE  OrderInv' /\ Appending
  <1>1. /\ move[r] \in O!Request /\ move[r].at = "moving"
        /\ GoodMove(move[r]) /\ move[r].holds = {}
    BY DEF OrderInv, O!TypeOK, O!FindNeighbour, GoodMove, Holding
  <1>2. CASE O!Set(r, [move[r] EXCEPT !.at = "done"])
    <2> DEFINE t == [move[r] EXCEPT !.at = "done"]
    <2>1. /\ t \in O!Request /\ t.at = "done" /\ t.holds = {} /\ t.first = move[r].first
          /\ O!Set(r, t)
      BY <1>1, <1>2 DEF O!Request
    <2> HIDE DEF t
    <2>2. GoodMove(t)
      BY <1>1, <2>1 DEF GoodMove, Holding, Ranged, InStep
    <2> QED
      BY <1>1, <2>1, <2>2, SetOrder
  <1>3. ASSUME NEW y \in O!Neighbours(move[r]),
               O!Set(r, [move[r] EXCEPT !.at = "found", !.other = y, !.second = row[y].order])
        PROVE  OrderInv' /\ Appending
    <2> DEFINE t == [move[r] EXCEPT !.at = "found", !.other = y, !.second = row[y].order]
    <2>1. /\ y \in Cards
          /\ row[y].order < move[r].first \/ row[y].order > move[r].first
      BY <1>3 DEF O!Neighbours, O!Beyond
    <2>2. row[y] \in O!Row
      BY <2>1 DEF OrderInv, O!TypeOK
    <2>3. /\ t \in O!Request /\ t.at = "found" /\ t.holds = {} /\ t.own = move[r].own
          /\ t.first = move[r].first /\ t.other = y /\ t.second = row[y].order
      BY <1>1, <2>1, <2>2 DEF O!Request, O!Row
    <2>4. O!Set(r, t)
      BY <1>3
    <2> HIDE DEF t
    <2>5. ~setting.board => t.second \in 1..Places
      BY <2>1, <2>3 DEF OrderInv, O!OrdersTraded, Places
    <2>6. move[r].first = row[move[r].own].order => y # move[r].own
      <3>1. row[y].order \in Nat
        BY <2>2 DEF O!Row
      <3> QED
        BY <2>1, <3>1
    <2>7. GoodMove(t)
      BY <1>1, <2>3, <2>5, <2>6 DEF GoodMove, Holding, Ranged, InStep
    <2> QED
      BY <1>1, <2>3, <2>4, <2>7, SetOrder
  <1> QED
    BY <1>2, <1>3 DEF O!FindNeighbour

\* The first UPDATE.
LEMMA WriteOwnKeeps ==
  ASSUME OrderInv, NEW r \in Requests, O!WriteOwn(r)
  PROVE  OrderInv' /\ Appending
  <1> DEFINE t == [move[r] EXCEPT !.at = "half", !.holds = {move[r].own}]
  <1>1. move[r] \in O!Request /\ move[r].at = "found" /\ GoodMove(move[r])
    BY DEF OrderInv, O!TypeOK, O!WriteOwn
  <1>2. /\ t \in O!Request /\ t.at = "half" /\ t.holds = {t.own} /\ t.own = move[r].own
        /\ t.other = move[r].other /\ t.first = move[r].first /\ t.second = move[r].second
    BY <1>1 DEF O!Request
  <1>3. O!Set(r, t)
    BY DEF O!WriteOwn
  <1> HIDE DEF t
  <1>4. GoodMove(t)
    BY <1>1, <1>2 DEF GoodMove, Holding, Ranged, InStep
  <1> QED
    BY <1>1, <1>2, <1>3, <1>4, SetOrder

\* The second UPDATE.
LEMMA WriteOtherKeeps ==
  ASSUME OrderInv, NEW r \in Requests, O!WriteOther(r)
  PROVE  OrderInv' /\ Appending
  <1> DEFINE t == [move[r] EXCEPT !.at = "done", !.holds = @ \cup {move[r].other}]
  <1>1. /\ move[r] \in O!Request /\ move[r].at = "half" /\ GoodMove(move[r])
        /\ move[r].holds = {move[r].own}
    BY DEF OrderInv, O!TypeOK, O!WriteOther, GoodMove, Holding
  <1>2. /\ t \in O!Request /\ t.at = "done" /\ t.holds = {t.own, t.other} /\ t.own = move[r].own
        /\ t.other = move[r].other /\ t.first = move[r].first /\ t.second = move[r].second
    BY <1>1 DEF O!Request
  <1>3. O!Set(r, t)
    BY DEF O!WriteOther
  <1> HIDE DEF t
  <1>4. GoodMove(t)
    BY <1>1, <1>2 DEF GoodMove, Holding, Ranged, InStep
  <1> QED
    BY <1>1, <1>2, <1>3, <1>4, SetOrder

\* Reading the end of the lane.
LEMMA BeginDropKeeps ==
  ASSUME OrderInv, NEW r \in Requests, NEW x \in Cards, NEW l \in Lanes,
         O!BeginDrop(r, x, l)
  PROVE  OrderInv' /\ Appending
  <1> DEFINE t == [move[r] EXCEPT !.at = "dropping", !.own = x, !.other = x, !.lane = l,
                                !.first = O!NextInLane(l)]
  <1>1. move[r] \in O!Request /\ move[r].at = "idle" /\ move[r].holds = {}
    BY DEF OrderInv, O!TypeOK, O!BeginDrop, O!MayBegin, GoodMove, Holding
  <1>2. O!NextInLane(l) \in 0..MaxOrder
    <2>1. O!NextInLane(l) \in Nat
      BY NextBeyond DEF OrderInv
    <2> QED
      BY <2>1, BoardAssumption DEF O!BeginDrop
  <1>3. /\ t \in O!Request /\ t.at = "dropping" /\ t.own = x /\ t.other = x /\ t.lane = l
        /\ t.first = O!NextInLane(l) /\ t.holds = {}
    BY <1>1, <1>2 DEF O!Request
  <1>4. O!Set(r, t) /\ O!MayBegin(r) /\ setting.board
    BY DEF O!BeginDrop
  <1> HIDE DEF t
  <1>5. GoodMove(t)
    BY <1>3, <1>4 DEF GoodMove, Holding, Ranged, InStep
  <1> QED
    BY <1>3, <1>4, <1>5, SetOrder

\* The UPDATE of lane and order.
LEMMA DropKeeps ==
  ASSUME OrderInv, NEW r \in Requests, O!Drop(r)
  PROVE  OrderInv' /\ Appending
  <1> DEFINE t == [move[r] EXCEPT !.at = "done", !.holds = {move[r].own}]
  <1>1. move[r] \in O!Request /\ move[r].at = "dropping" /\ GoodMove(move[r])
    BY DEF OrderInv, O!TypeOK, O!Drop
  <1>2. /\ t \in O!Request /\ t.at = "done" /\ t.holds = {t.own} /\ t.own = move[r].own
        /\ t.other = move[r].other /\ t.first = move[r].first /\ t.second = move[r].second
        /\ t.lane = move[r].lane
    BY <1>1 DEF O!Request
  <1>3. O!Set(r, t)
    BY DEF O!Drop
  <1> HIDE DEF t
  <1>4. GoodMove(t)
    BY <1>1, <1>2 DEF GoodMove, Holding, Ranged, InStep
  <1> QED
    BY <1>1, <1>2, <1>3, <1>4, SetOrder

\* A commit exchanges two positions, puts one record at the end of its lane, or
\* writes nothing.
LEMMA CommitOrder ==
  ASSUME OrderInv, NEW r \in Requests, O!Commit(r)
  PROVE  OrderInv' /\ Appending
  <1>1. PICK t \in O!Request : t = move[r]
    BY DEF OrderInv, O!TypeOK
  <1>2. t.at = "done" /\ GoodMove(t) /\ t.own \in Cards /\ t.other \in Cards
        /\ t.holds \subseteq {t.own, t.other}
    BY <1>1 DEF OrderInv, O!Commit, GoodMove, Holding, O!Request
  <1>3. row' = [x \in Cards |-> IF x \in t.holds THEN O!Written(t, x) ELSE row[x]]
        /\ setting' = setting
    BY <1>1 DEF O!Commit
  <1>4. \A x \in Cards : row[x] \in O!Row
    BY DEF OrderInv, O!TypeOK
  <1>5. ASSUME NEW x \in Cards PROVE
          /\ x \notin t.holds => row'[x] = row[x]
          /\ x \in t.holds /\ t.own = t.other =>
                row'[x].order = t.first /\ row'[x].lane = t.lane
          /\ x \in t.holds /\ t.own # t.other =>
                /\ row'[x].order = IF x = t.own THEN t.second ELSE t.first
                /\ row'[x].lane = row[x].lane
          /\ row'[x] \in O!Row
    BY <1>3, <1>4 DEF O!Written, O!Row, O!Request
  <1>6. O!TypeOK'
    <2>1. row' \in [Cards -> O!Row]
      BY <1>3, <1>5
    <2>2. move' \in [Requests -> O!Request]
      BY EndedMove DEF OrderInv, O!TypeOK, O!Commit
    <2> QED
      BY <1>3, <2>1, <2>2 DEF OrderInv, O!TypeOK
  <1>7. /\ move'[r] = O!Ended(r) /\ O!Ended(r).at = "idle" /\ O!Ended(r).holds = {}
        /\ \A q \in Requests \ {r} : move'[q] = move[q]
    BY EndedMove DEF OrderInv, O!TypeOK, O!Commit
  <1>8. AloneOnBoard'
    BY <1>3, <1>7 DEF OrderInv, AloneOnBoard
  <1>9. O!OrdersTraded'
    <2> SUFFICES ASSUME ~setting.board
                 PROVE  /\ \A x \in Cards : row'[x].order \in 1..Places
                        /\ ~setting.overlap =>
                              \A x, y \in Cards : x # y => row'[x].order # row'[y].order
      BY <1>3 DEF O!OrdersTraded, Places
    <2>1. /\ \A x \in Cards : row[x].order \in 1..Places
          /\ ~setting.overlap =>
                \A x, y \in Cards : x # y => row[x].order # row[y].order
      BY DEF OrderInv, O!OrdersTraded, Places
    <2>2. t.holds # {} => t.first \in 1..Places /\ t.second \in 1..Places
      BY <1>2 DEF GoodMove, Ranged
    <2>3. \A x \in Cards : row'[x].order \in 1..Places
      BY <1>5, <2>1, <2>2
    <2>4. ASSUME ~setting.overlap, NEW x \in Cards, NEW y \in Cards, x # y
          PROVE  row'[x].order # row'[y].order
      <3>1. CASE t.holds = {}
        BY <1>5, <2>1, <2>4, <3>1
      <3>2. CASE t.holds # {}
        <4>1. /\ t.own # t.other /\ t.holds = {t.own, t.other}
              /\ t.first = row[t.own].order /\ t.second = row[t.other].order
          BY <1>2, <2>4, <3>2 DEF GoodMove, InStep
        <4> QED
          BY <1>2, <1>5, <2>1, <2>4, <4>1
      <3> QED
        BY <3>1, <3>2
    <2> QED
      BY <2>3, <2>4
  <1>10. ASSUME NEW q \in Requests PROVE GoodMove(move[q])'
    <2>1. PICK u \in O!Request : u = move'[q]
      BY <1>6 DEF O!TypeOK
    <2>2. Holding(u) /\ Ranged(u)
      BY <1>7, <2>1, EndedMove DEF OrderInv, GoodMove
    <2>3. ~setting.overlap => u.at = "idle" /\ u.holds = {}
      BY <1>1, <1>2, <1>7, <2>1, <2>2 DEF OrderInv, AloneOnBoard, Holding
    <2>4. Holding(u)' /\ Ranged(u)'
      BY <1>3, <2>2 DEF Holding, Ranged
    <2>5. InStep(u)'
      BY <1>3, <2>3 DEF InStep
    <2> QED
      BY <2>1, <2>4, <2>5 DEF GoodMove, Holding, Ranged, InStep
  <1>11. Appending
    <2> SUFFICES ASSUME ~setting.overlap, NEW x \in Cards, row'[x].lane # row[x].lane,
                        NEW y \in Cards \ {x}, row'[y].lane = row'[x].lane
                 PROVE  row'[y].order < row'[x].order
      BY DEF Appending
    <2>1. t.own = t.other /\ x \in t.holds
      BY <1>5
    <2>2. x = t.own /\ y \notin t.holds /\ t.first = O!NextInLane(t.lane)
      BY <1>2, <2>1 DEF GoodMove, InStep
    <2>3. row'[x].order = O!NextInLane(t.lane) /\ row'[x].lane = t.lane
      BY <1>5, <2>1, <2>2
    <2>4. row'[y] = row[y] /\ row[y].lane = t.lane
      BY <1>5, <2>2, <2>3
    <2> QED
      BY <2>3, <2>4, NextBeyond DEF OrderInv
  <1> QED
    BY <1>6, <1>8, <1>9, <1>10, <1>11 DEF OrderInv

\* Every step keeps the invariant and appends the cards it drops.
LEMMA StepOrder == ASSUME OrderInv, [O!Next]_(O!vars) PROVE OrderInv' /\ Appending
  <1>1. CASE UNCHANGED O!vars
    <2>1. O!TypeOK' /\ AloneOnBoard' /\ O!OrdersTraded'
      BY <1>1 DEF O!vars, OrderInv, O!TypeOK, AloneOnBoard, O!OrdersTraded
    <2>2. ASSUME NEW q \in Requests PROVE GoodMove(move[q])'
      <3>1. \A l : O!NextInLane(l)' = O!NextInLane(l)
        BY <1>1 DEF O!vars, O!NextInLane
      <3> QED
        BY <1>1, <3>1 DEF O!vars, OrderInv, GoodMove, Holding, Ranged, InStep
    <2>3. Appending
      BY <1>1 DEF O!vars, Appending
    <2> QED
      BY <2>1, <2>2, <2>3 DEF OrderInv
  <1>2. ASSUME NEW r \in Requests, O!Fail(r) \/ O!BreakDeadlock(r) PROVE OrderInv' /\ Appending
    <2>1. O!Set(r, O!Ended(r))
      BY <1>2 DEF O!Fail, O!BreakDeadlock
    <2> QED
      BY <2>1, EndedMove, SetOrder
  <1> QED
    BY <1>1, <1>2, BeginMoveKeeps, BeginDropKeeps, FindNeighbourKeeps, WriteOwnKeeps,
       WriteOtherKeeps, DropKeeps, CommitOrder DEF O!Next, O!Advance

----------------------------------------------------------------------------
\* Among requests that do not overlap one at most is under way.
AlonePosting == ~posting =>
    \A q, r \in Requests : q # r => post[q].at = "idle" \/ post[r].at = "idle"

PostStages == {"read", "debits", "balanced", "checked"}

\* What each stage keeps of the entry it read.
Shaped(t) ==
    /\ t.at \in PostStages => t = [at |-> t.at, e |-> t.e, row |-> t.row, sum |-> t.sum]
    /\ t.at \in PostStages \cup {"moving"} => t.e \in Entries /\ t.row \in L!EntryRow
    /\ t.at = "entry" => t.x \in Entries /\ t.row \in L!EntryRow

\* Without overlap the rules found satisfied still are, and a form's copy of an
\* entry that is not posted stays a copy of one.
StillTrue(t) ==
    ~posting =>
        /\ t.at = "debits" => t.sum = L!Total(line, "debit", t.e)
        /\ t.at \in {"balanced", "checked"} => L!Balanced(t.e)
        /\ t.at = "checked" => t.row.period \in open
        /\ t.at = "moving" => ~t.row.posted /\ ~entry[t.e].posted
        /\ t.at = "entry" => \/ t.row.posted /\ L!Balanced(t.x) /\ t.row.period \in open
                             \/ ~t.row.posted /\ ~entry[t.x].posted

GoodPost(t) == Shaped(t) /\ StillTrue(t)

LedgerInv ==
    /\ entry \in [Entries -> L!EntryRow]
    /\ post = [r \in Requests |-> post[r]]
    /\ AlonePosting
    /\ \A r \in Requests : GoodPost(post[r])

\* What PostedWithinRules says of one step.
Ruled ==
    ~posting => \A e \in Entries :
        /\ L!Posts(e) => L!Balanced(e) /\ entry'[e].period \in open
        /\ entry[e].posted => entry'[e].posted

\* The initial states satisfy the inductive invariant.
LEMMA InitLedger == L!Init => LedgerInv
  <1> SUFFICES ASSUME L!Init PROVE LedgerInv
    OBVIOUS
  <1>1. post = [r \in Requests |-> L!Idle]
    BY DEF L!Init
  <1>2. entry \in [Entries -> L!EntryRow]
    <2>1. [posted : {FALSE}, period : Periods] \subseteq L!EntryRow
      BY DEF L!EntryRow
    <2>2. entry \in [Entries -> [posted : {FALSE}, period : Periods]]
      BY DEF L!Init
    <2> QED
      BY <2>1, <2>2
  <1>3. \A r \in Requests : post[r].at = "idle" /\ GoodPost(post[r])
    BY <1>1 DEF L!Idle, GoodPost, Shaped, StillTrue, PostStages
  <1> QED
    BY <1>1, <1>2, <1>3 DEF LedgerInv, AlonePosting

\* A step that changes its own request only keeps the invariant and posts nothing.
LEMMA SetLedger ==
  ASSUME LedgerInv, NEW r \in Requests, NEW t, L!Set(r, t), GoodPost(t),
         t.at = "idle" \/ post[r].at # "idle" \/ L!MayBegin(r)
  PROVE  LedgerInv' /\ Ruled
  <1>1. /\ post'[r] = t /\ \A q \in Requests \ {r} : post'[q] = post[q]
        /\ post' = [q \in Requests |-> post'[q]]
        /\ open' = open /\ entry' = entry /\ line' = line /\ posting' = posting
    BY DEF L!Set, LedgerInv
  <1>2. AlonePosting'
    BY <1>1 DEF LedgerInv, AlonePosting, L!MayBegin
  <1>3. ASSUME NEW q \in Requests PROVE GoodPost(post[q])'
    <2>1. GoodPost(post'[q])
      BY <1>1 DEF LedgerInv
    <2> QED
      BY <1>1, <2>1 DEF GoodPost, Shaped, StillTrue, L!Balanced
  <1>4. Ruled
    BY <1>1 DEF Ruled, L!Posts, LedgerInv
  <1> QED
    BY <1>1, <1>2, <1>3, <1>4 DEF LedgerInv

\* A request that is refused or idle has nothing to keep.
LEMMA PlainPost == GoodPost([at |-> "refused"]) /\ GoodPost(L!Idle) /\ L!Idle.at = "idle"
  BY DEF GoodPost, Shaped, StillTrue, L!Idle, PostStages

\* Posting begins, or is refused.
LEMMA BeginPostFollows ==
  ASSUME LedgerInv, NEW r \in Requests, NEW e \in Entries, L!BeginPost(r, e)
  PROVE  LedgerInv' /\ Ruled
  <1>1. CASE entry[e].posted
    BY <1>1, PlainPost, SetLedger DEF L!BeginPost
  <1>2. CASE ~entry[e].posted
    <2> DEFINE t == [at |-> "read", e |-> e, row |-> entry[e], sum |-> 0]
    <2>1. L!Set(r, t) /\ L!MayBegin(r)
      BY <1>2 DEF L!BeginPost
    <2>2. GoodPost(t)
      BY DEF LedgerInv, GoodPost, Shaped, StillTrue, PostStages
    <2> HIDE DEF t
    <2> QED
      BY <2>1, <2>2, SetLedger
  <1> QED
    BY <1>1, <1>2

\* A form is read; one of an entry not yet posted keeps a copy that is not posted.
LEMMA BeginEditEntryFollows ==
  ASSUME LedgerInv, NEW r \in Requests, NEW e \in Entries, NEW p \in Periods,
         L!BeginEditEntry(r, e, p)
  PROVE  LedgerInv' /\ Ruled
  <1> DEFINE copy == [entry[e] EXCEPT !.period = p]
             t == IF entry[e].posted
                  THEN [at |-> "read", e |-> e, row |-> copy, sum |-> 0]
                  ELSE [at |-> "moving", e |-> e, row |-> copy]
  <1>1. entry[e] \in L!EntryRow /\ copy \in L!EntryRow /\ copy.posted = entry[e].posted
    BY DEF LedgerInv, L!EntryRow
  <1>2. L!Set(r, t) /\ L!MayBegin(r)
    BY DEF L!BeginEditEntry
  <1> HIDE DEF copy
  <1>3. GoodPost(t)
    BY <1>1 DEF GoodPost, Shaped, StillTrue, PostStages
  <1> HIDE DEF t
  <1> QED
    BY <1>2, <1>3, SetLedger

\* The first sum.
LEMMA SumDebitsFollows ==
  ASSUME LedgerInv, NEW r \in Requests, L!SumDebits(r)
  PROVE  LedgerInv' /\ Ruled
  <1>0. PICK total : total = L!Total(line, "debit", post[r].e)
    OBVIOUS
  <1> DEFINE t == [post[r] EXCEPT !.at = "debits", !.sum = total]
  <1>1. GoodPost(post[r]) /\ post[r].at = "read" /\ L!Set(r, t)
    BY <1>0 DEF LedgerInv, L!SumDebits
  <1>2. /\ post[r] = [at |-> "read", e |-> post[r].e, row |-> post[r].row, sum |-> post[r].sum]
        /\ post[r].e \in Entries /\ post[r].row \in L!EntryRow
    BY <1>1 DEF GoodPost, Shaped, PostStages
  <1>3. t = [at |-> "debits", e |-> post[r].e, row |-> post[r].row, sum |-> total]
    <2>1. PICK u : u = post[r]
      OBVIOUS
    <2>2. PICK e, copy, sum : u = [at |-> "read", e |-> e, row |-> copy, sum |-> sum]
      BY <1>2, <2>1
    <2>3. PICK v : v = [u EXCEPT !.at = "debits"]
      OBVIOUS
    <2>4. v = [at |-> "debits", e |-> e, row |-> copy, sum |-> sum]
      BY <2>2, <2>3
    <2>5. [v EXCEPT !.sum = total] = [at |-> "debits", e |-> e, row |-> copy, sum |-> total]
      BY <2>4
    <2> QED
      BY <2>1, <2>2, <2>3, <2>5
  <1> HIDE DEF t
  <1>4. GoodPost(t)
    BY <1>0, <1>2, <1>3 DEF GoodPost, Shaped, StillTrue, PostStages
  <1> QED
    BY <1>1, <1>4, SetLedger

\* The second sum; equal sums are a balance.
LEMMA SumCreditsFollows ==
  ASSUME LedgerInv, NEW r \in Requests, L!SumCredits(r)
  PROVE  LedgerInv' /\ Ruled
  <1>1. GoodPost(post[r]) /\ post[r].at = "debits"
    BY DEF LedgerInv, L!SumCredits
  <1>2. /\ post[r] = [at |-> "debits", e |-> post[r].e, row |-> post[r].row, sum |-> post[r].sum]
        /\ post[r].e \in Entries /\ post[r].row \in L!EntryRow
    BY <1>1 DEF GoodPost, Shaped, PostStages
  <1>3. CASE post[r].sum = L!Total(line, "credit", post[r].e)
    <2> DEFINE t == [post[r] EXCEPT !.at = "balanced"]
    <2>1. L!Set(r, t)
      BY <1>3 DEF L!SumCredits
    <2>2. t = [at |-> "balanced", e |-> post[r].e, row |-> post[r].row, sum |-> post[r].sum]
      BY <1>2
    <2> HIDE DEF t
    <2>3. ~posting => L!Balanced(post[r].e)
      BY <1>1, <1>3 DEF GoodPost, StillTrue, L!Balanced
    <2>4. GoodPost(t)
      BY <1>2, <2>2, <2>3 DEF GoodPost, Shaped, StillTrue, PostStages
    <2> QED
      BY <1>1, <2>1, <2>4, SetLedger
  <1>4. CASE post[r].sum # L!Total(line, "credit", post[r].e)
    BY <1>1, <1>4, PlainPost, SetLedger DEF L!SumCredits
  <1> QED
    BY <1>3, <1>4

\* The period is looked up.
LEMMA CheckPeriodFollows ==
  ASSUME LedgerInv, NEW r \in Requests, L!CheckPeriod(r)
  PROVE  LedgerInv' /\ Ruled
  <1>1. GoodPost(post[r]) /\ post[r].at = "balanced"
    BY DEF LedgerInv, L!CheckPeriod
  <1>2. /\ post[r] = [at |-> "balanced", e |-> post[r].e, row |-> post[r].row, sum |-> post[r].sum]
        /\ post[r].e \in Entries /\ post[r].row \in L!EntryRow
        /\ ~posting => L!Balanced(post[r].e)
    BY <1>1 DEF GoodPost, Shaped, StillTrue, PostStages
  <1>3. CASE post[r].row.period \in open
    <2> DEFINE t == [post[r] EXCEPT !.at = "checked"]
    <2>1. L!Set(r, t)
      BY <1>3 DEF L!CheckPeriod
    <2>2. t = [at |-> "checked", e |-> post[r].e, row |-> post[r].row, sum |-> post[r].sum]
      BY <1>2
    <2> HIDE DEF t
    <2>3. GoodPost(t)
      BY <1>2, <1>3, <2>2 DEF GoodPost, Shaped, StillTrue, PostStages
    <2> QED
      BY <1>1, <2>1, <2>3, SetLedger
  <1>4. CASE post[r].row.period \notin open
    BY <1>1, <1>4, PlainPost, SetLedger DEF L!CheckPeriod
  <1> QED
    BY <1>3, <1>4

\* The UPDATEs of an entry.
LEMMA WriteEntryFollows ==
  ASSUME LedgerInv, NEW r \in Requests, L!WritePosted(r) \/ L!WriteEntry(r)
  PROVE  LedgerInv' /\ Ruled
  <1>1. GoodPost(post[r])
    BY DEF LedgerInv
  <1>2. CASE L!WritePosted(r)
    <2> DEFINE copy == [post[r].row EXCEPT !.posted = TRUE]
               t == [at |-> "entry", x |-> post[r].e, row |-> copy]
    <2>1. post[r].at = "checked" /\ L!Set(r, t)
      BY <1>2 DEF L!WritePosted
    <2>2. post[r].row \in L!EntryRow /\ post[r].e \in Entries
      BY <1>1, <2>1 DEF GoodPost, Shaped, PostStages
    <2>3. copy \in L!EntryRow /\ copy.posted /\ copy.period = post[r].row.period
      BY <2>2 DEF L!EntryRow
    <2> HIDE DEF copy
    <2>4. GoodPost(t)
      BY <1>1, <2>1, <2>2, <2>3 DEF GoodPost, Shaped, StillTrue, PostStages
    <2> HIDE DEF t
    <2> QED
      BY <2>1, <2>4, SetLedger
  <1>3. CASE L!WriteEntry(r)
    <2> DEFINE t == [at |-> "entry", x |-> post[r].e, row |-> post[r].row]
    <2>1. post[r].at = "moving" /\ L!Set(r, t)
      BY <1>3 DEF L!WriteEntry
    <2>2. GoodPost(t)
      BY <1>1, <2>1 DEF GoodPost, Shaped, StillTrue, PostStages
    <2> HIDE DEF t
    <2> QED
      BY <2>1, <2>2, SetLedger
  <1> QED
    BY <1>2, <1>3

\* What the lines' and the periods' requests do before they commit.
LEMMA OtherWritesFollows ==
  ASSUME LedgerInv, NEW r \in Requests,
         \/ \E l \in Lines, e \in Entries, d, c \in Amounts : L!WriteLine(r, l, e, d, c)
         \/ \E p \in Periods : L!BeginClose(r, p)
         \/ L!WriteClosed(r)
  PROVE  LedgerInv' /\ Ruled
  <1>1. ASSUME NEW l \in Lines, NEW e \in Entries, NEW d \in Amounts, NEW c \in Amounts,
               L!WriteLine(r, l, e, d, c)
        PROVE  LedgerInv' /\ Ruled
    <2> DEFINE t == [at |-> "line", x |-> l,
                     row |-> [live |-> TRUE, entry |-> e, debit |-> d, credit |-> c]]
    <2>1. L!Set(r, t) /\ L!MayBegin(r) /\ GoodPost(t)
      BY <1>1 DEF L!WriteLine, GoodPost, Shaped, StillTrue, PostStages
    <2> HIDE DEF t
    <2> QED
      BY <2>1, SetLedger
  <1>2. ASSUME NEW p \in Periods, L!BeginClose(r, p) PROVE LedgerInv' /\ Ruled
    <2>1. GoodPost([at |-> "closing", p |-> p])
      BY DEF GoodPost, Shaped, StillTrue, PostStages
    <2> QED
      BY <1>2, <2>1, PlainPost, SetLedger DEF L!BeginClose
  <1>3. CASE L!WriteClosed(r)
    <2> DEFINE t == [at |-> "period", x |-> post[r].p]
    <2>1. L!Set(r, t) /\ post[r].at # "idle" /\ GoodPost(t)
      BY <1>3 DEF L!WriteClosed, GoodPost, Shaped, StillTrue, PostStages
    <2> HIDE DEF t
    <2> QED
      BY <2>1, SetLedger
  <1> QED
    BY <1>1, <1>2, <1>3

\* A commit posts what the rules still hold of.
LEMMA CommitLedger ==
  ASSUME LedgerInv, NEW r \in Requests, L!Commit(r)
  PROVE  LedgerInv' /\ Ruled
  <1>1. GoodPost(post[r]) /\ post[r].at # "idle"
    BY DEF LedgerInv, L!Commit
  <1>2. /\ post'[r] = L!Idle /\ \A q \in Requests \ {r} : post'[q] = post[q]
        /\ post' = [q \in Requests |-> post'[q]] /\ posting' = posting
    BY DEF LedgerInv, L!Commit
  <1>3. /\ post[r].at # "entry" => entry' = entry
        /\ post[r].at = "entry" => entry' = [entry EXCEPT ![post[r].x] = post[r].row]
    BY DEF L!Commit
  <1>4. entry' \in [Entries -> L!EntryRow]
    BY <1>1, <1>3 DEF LedgerInv, GoodPost, Shaped
  <1>5. AlonePosting'
    BY <1>2, PlainPost DEF LedgerInv, AlonePosting
  <1>6. ASSUME NEW q \in Requests PROVE GoodPost(post[q])'
    <2>1. Shaped(post'[q])
      BY <1>2, PlainPost DEF LedgerInv, GoodPost
    <2>2. ~posting => post'[q].at = "idle"
      BY <1>1, <1>2, PlainPost DEF LedgerInv, AlonePosting
    <2> QED
      BY <1>2, <2>1, <2>2 DEF GoodPost, Shaped, StillTrue
  <1>7. Ruled
    <2> SUFFICES ASSUME ~posting, NEW e \in Entries
                 PROVE  /\ L!Posts(e) => L!Balanced(e) /\ entry'[e].period \in open
                        /\ entry[e].posted => entry'[e].posted
      BY DEF Ruled
    <2>1. CASE entry'[e] = entry[e]
      BY <2>1 DEF L!Posts
    <2>2. CASE entry'[e] # entry[e]
      <3>1. post[r].at = "entry" /\ post[r].x = e /\ entry'[e] = post[r].row
        BY <1>1, <1>3, <2>2 DEF LedgerInv, GoodPost, Shaped
      <3>2. \/ post[r].row.posted /\ L!Balanced(e) /\ post[r].row.period \in open
            \/ ~post[r].row.posted /\ ~entry[e].posted
        BY <1>1, <3>1 DEF GoodPost, StillTrue
      <3> QED
        BY <3>1, <3>2 DEF L!Posts
    <2> QED
      BY <2>1, <2>2
  <1> QED
    BY <1>2, <1>4, <1>5, <1>6, <1>7 DEF LedgerInv

\* Every step keeps the invariant and follows the rules.
LEMMA StepLedger == ASSUME LedgerInv, [L!Next]_(L!vars) PROVE LedgerInv' /\ Ruled
  <1>1. CASE UNCHANGED L!vars
    <2>1. LedgerInv'
      BY <1>1 DEF L!vars, LedgerInv, AlonePosting, GoodPost, Shaped, StillTrue, L!Balanced
    <2>2. Ruled
      BY <1>1 DEF L!vars, Ruled, L!Posts
    <2> QED
      BY <2>1, <2>2
  <1>2. ASSUME NEW r \in Requests, L!Fail(r) PROVE LedgerInv' /\ Ruled
    BY <1>2, PlainPost, SetLedger DEF L!Fail
  <1> QED
    BY <1>1, <1>2, BeginPostFollows, BeginEditEntryFollows, SumDebitsFollows, SumCreditsFollows,
       CheckPeriodFollows, WriteEntryFollows, OtherWritesFollows, CommitLedger DEF L!Next

----------------------------------------------------------------------------
\* Steps of the whole store: one of a part's.
StoreStep == \/ Next   /\ UNCHANGED <<ordering, ledger>>
             \/ O!Next /\ UNCHANGED <<vars, ledger>>
             \/ L!Next /\ UNCHANGED <<vars, ordering>>

\* The store implements each of its parts: whatever is proved of Records, Ordering
\* or Ledger alone holds of it.
THEOREM PartsImplemented == StoreSpec => Spec /\ O!Spec /\ L!Spec
  <1>1. ordering = O!vars /\ ordering' = O!vars' /\ ledger = L!vars /\ ledger' = L!vars'
    BY DEF ordering, ledger, O!vars, L!vars
  <1>2. [StoreStep]_<<vars, ordering, ledger>> =>
            [Next]_vars /\ [O!Next]_(O!vars) /\ [L!Next]_(L!vars)
    BY <1>1 DEF StoreStep
  <1> QED
    BY <1>2, PTL DEF StoreSpec, StoreStep, Spec, O!Spec, L!Spec

\* The variables of the board have their types, whatever the rest of the store does.
THEOREM OrderTypes == StoreSpec => []O!TypeOK
  <1>1. OrderInv => O!TypeOK
    BY DEF OrderInv
  <1> QED
    BY <1>1, InitOrder, StepOrder, PartsImplemented, PTL DEF O!Spec

\* Moves that do not overlap, on a machine without a board, never give two
\* records one position, and moves that do never invent a position.
THEOREM PositionsAreTraded == StoreSpec => []OrdersTraded
  <1>1. OrderInv => OrdersTraded
    BY DEF OrderInv, OrdersTraded
  <1> QED
    BY <1>1, InitOrder, StepOrder, PartsImplemented, PTL DEF O!Spec

\* A card dropped alone ends up last in its lane.
THEOREM DroppedCardsAreLast == StoreSpec => AppendedAtEnd
  <1>1. OrderInv /\ [O!Next]_(O!vars) => OrderInv' /\ [Appending]_(O!vars)
    BY StepOrder
  <1>2. AppendedAtEnd <=> [][Appending]_(O!vars)
    BY DEF AppendedAtEnd, O!AppendedAtEnd, Appending
  <1> QED
    BY <1>1, <1>2, InitOrder, PartsImplemented, PTL DEF O!Spec

\* Among requests that do not overlap an entry is posted only while its lines
\* balance and its period is open, and stays posted.
THEOREM EntriesPostedWithinRules == StoreSpec => PostedWithinRules
  <1>1. LedgerInv /\ [L!Next]_(L!vars) => LedgerInv' /\ [Ruled]_(L!vars)
    BY StepLedger
  <1>2. PostedWithinRules <=> [][Ruled]_(L!vars)
    BY DEF PostedWithinRules, L!PostedWithinRules, Ruled
  <1> QED
    BY <1>1, <1>2, InitLedger, PartsImplemented, PTL DEF L!Spec
=============================================================================
