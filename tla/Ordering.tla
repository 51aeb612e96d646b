----------------------------- MODULE Ordering ------------------------------
(***************************************************************************)
(* Manual order and board lanes (CAP-V14): Move swaps a record's sort_order *)
(* with its neighbour's in two reads and two UPDATEs, MoveToLane appends a *)
(* record to a lane.  Several requests do so at once; each runs in its own *)
(* READ COMMITTED transaction and Postgres breaks the deadlock of two      *)
(* transactions that wait for each other's row.                            *)
(***************************************************************************)
EXTENDS Naturals, FiniteSets

CONSTANTS Records, Requests,
          Lanes,      \* values of the board's group field
          Settings,   \* bound: the machines and schedules looked at, see setting
          MaxOrder    \* bound: sort_order values

VARIABLES
    row,      \* committed sort_order and lane of each record
    tx,       \* the transaction each request runs
    setting   \* whether requests overlap, and whether the machine has a board
              \* beside its manual-order list

vars == <<row, tx, setting>>

Row == [order : 0..MaxOrder, lane : Lanes]

Directions == {"up", "down"}

\* own, other: the records a request moves; first, second: the sort orders it
\* read, or the one it appends with; holds: the rows it has written.
Request == [at : {"idle", "moving", "found", "half", "dropping", "done"},
            own : Records, other : Records, lane : Lanes, direction : Directions,
            first : 0..MaxOrder, second : 0..MaxOrder, holds : SUBSET Records]

\* The row as the request's own statements see it.
Written(t, x) ==
    IF t.own = t.other
    THEN [order |-> t.first, lane |-> t.lane]
    ELSE [row[x] EXCEPT !.order = IF x = t.own THEN t.second ELSE t.first]

CanLock(r, x) == \A q \in Requests \ {r} : x \notin tx[q].holds

\* A request of r waits for a row another one has written.
Wants(r) ==
    CASE tx[r].at \in {"found", "dropping"} -> {tx[r].own}
      [] tx[r].at = "half"                  -> {tx[r].other}
      [] OTHER                              -> {}

WaitsFor(r, q) == q # r /\ Wants(r) \cap tx[q].holds # {}

----------------------------------------------------------------------------
\* Records start with distinct orders, the time each was created.
Init ==
    /\ row \in {f \in [Records -> [order : 1..Cardinality(Records), lane : Lanes]] :
                   \A x, y \in Records : x # y => f[x].order # f[y].order}
    /\ tx = [r \in Requests |->
                [at |-> "idle", own |-> CHOOSE x \in Records : TRUE,
                 other |-> CHOOSE x \in Records : TRUE, lane |-> CHOOSE l \in Lanes : TRUE,
                 direction |-> "up", first |-> 0, second |-> 0, holds |-> {}]]
    /\ setting \in Settings

Set(r, t) == tx' = [tx EXCEPT ![r] = t] /\ UNCHANGED <<row, setting>>

MayBegin(r) == \A q \in Requests : (q = r \/ ~setting.overlap) => tx[q].at = "idle"

\* Move, first SELECT: the record's own sort_order.
BeginMove(r, x, direction) ==
    /\ MayBegin(r)
    /\ Set(r, [tx[r] EXCEPT !.at = "moving", !.own = x, !.direction = direction,
                            !.first = row[x].order, !.lane = row[x].lane])

\* The records strictly beyond the order read, in the direction asked for.
Beyond(t) == {y \in Records : IF t.direction = "up" THEN row[y].order < t.first
                                                    ELSE row[y].order > t.first}

\* The nearest of them; LIMIT 1 takes any of those that tie.
Neighbours(t) ==
    {y \in Beyond(t) : \A z \in Beyond(t) :
        IF t.direction = "up" THEN row[z].order <= row[y].order
                              ELSE row[z].order >= row[y].order}

\* Second SELECT; at the edge there is nothing to swap with.
FindNeighbour(r) ==
    /\ tx[r].at = "moving"
    /\ \/ /\ Neighbours(tx[r]) = {}
          /\ Set(r, [tx[r] EXCEPT !.at = "done"])
       \/ \E y \in Neighbours(tx[r]) :
             Set(r, [tx[r] EXCEPT !.at = "found", !.other = y, !.second = row[y].order])

\* The second UPDATE is forgotten.
WriteOwnOnly(r) ==
    /\ tx[r].at = "found" /\ CanLock(r, tx[r].own)
    /\ Set(r, [tx[r] EXCEPT !.at = "done", !.holds = {tx[r].own}])

WriteOwn(r) ==
    /\ tx[r].at = "found" /\ CanLock(r, tx[r].own)
    /\ Set(r, [tx[r] EXCEPT !.at = "half", !.holds = {tx[r].own}])

WriteOther(r) ==
    /\ tx[r].at = "half" /\ CanLock(r, tx[r].other)
    /\ Set(r, [tx[r] EXCEPT !.at = "done", !.holds = @ \cup {tx[r].other}])

MaxInLane(lane) ==
    LET orders == {row[y].order : y \in {z \in Records : row[z].lane = lane}}
    IN  IF orders = {} THEN 0 ELSE CHOOSE o \in orders : \A q \in orders : q <= o

\* MAX(sort_order) over the lane, archived records and the moved one included.
NextInLane(lane) ==
    LET orders == {row[y].order : y \in {z \in Records : row[z].lane = lane}}
    IN  IF orders = {} THEN 0
        ELSE 1 + (CHOOSE o \in orders : \A q \in orders : q <= o)

\* MoveToLane: the SELECT, then one UPDATE of lane and order.
BeginDrop(r, x, lane) ==
    /\ MayBegin(r) /\ setting.board /\ NextInLane(lane) <= MaxOrder
    /\ Set(r, [tx[r] EXCEPT !.at = "dropping", !.own = x, !.other = x, !.lane = lane,
                            !.first = NextInLane(lane)])

Drop(r) ==
    /\ tx[r].at = "dropping" /\ CanLock(r, tx[r].own)
    /\ Set(r, [tx[r] EXCEPT !.at = "done", !.holds = {tx[r].own}])

Ended(r) == [tx[r] EXCEPT !.at = "idle", !.own = CHOOSE x \in Records : TRUE,
                          !.other = CHOOSE x \in Records : TRUE,
                          !.lane = CHOOSE l \in Lanes : TRUE, !.direction = "up",
                          !.first = 0, !.second = 0, !.holds = {}]

Commit(r) ==
    /\ tx[r].at = "done"
    /\ row' = [x \in Records |-> IF x \in tx[r].holds THEN Written(tx[r], x) ELSE row[x]]
    /\ tx' = [tx EXCEPT ![r] = Ended(r)]
    /\ UNCHANGED setting

\* A failed statement, a lost connection or a restart: the transaction is gone.
Fail(r) == tx[r].at # "idle" /\ Set(r, Ended(r))

\* Postgres aborts one of two transactions that wait for each other, the
\* handler answers 500 and workspaceTx rolls back.
BreakDeadlock(r) ==
    /\ \E q \in Requests : WaitsFor(r, q) /\ WaitsFor(q, r)
    /\ Set(r, Ended(r))

Advance(r) == FindNeighbour(r) \/ WriteOwn(r) \/ WriteOther(r) \/ Drop(r) \/ Commit(r)

Next ==
    \E r \in Requests :
        \/ \E x \in Records, d \in Directions : BeginMove(r, x, d)
        \/ \E x \in Records, l \in Lanes : BeginDrop(r, x, l)
        \/ Advance(r) \/ Fail(r) \/ BreakDeadlock(r)

Spec == Init /\ [][Next]_vars

----------------------------------------------------------------------------
TypeOK ==
    /\ row \in [Records -> Row]
    /\ tx \in [Requests -> Request]
    /\ setting \in [overlap : BOOLEAN, board : BOOLEAN]

\* "two records can always trade places without touching any other row": moves
\* never invent a position, overlapping or not, and among moves that do not
\* overlap no two records ever share one, or the strict comparison would never
\* pair them again.
OrdersTraded ==
    ~setting.board =>
        /\ \A x \in Records : row[x].order \in 1..Cardinality(Records)
        /\ ~setting.overlap => \A x, y \in Records : x # y => row[x].order # row[y].order

\* A card dropped on a lane while no other request is in flight ends up last in it.
AppendedAtEnd ==
    [][~setting.overlap => \A x \in Records : row'[x].lane # row[x].lane =>
          \A y \in Records \ {x} : row'[y].lane = row'[x].lane => row'[y].order < row'[x].order]_vars
=============================================================================
