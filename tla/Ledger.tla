------------------------------- MODULE Ledger ------------------------------
(***************************************************************************)
(* Cross-record rules (CAP-C08, C10, C11) on the accounting machines of    *)
(* seeds/027: an Entry may be posted only when its Lines balance and its   *)
(* Fiscal Period is open.  The rule is checked by three SELECTs of the     *)
(* request that posts, at READ COMMITTED; the Lines and the Period belong  *)
(* to other requests, which no rule of their own machines stops.           *)
(***************************************************************************)
EXTENDS Naturals, FiniteSets, FiniteSetsExt

CONSTANTS Periods, Entries, Lines, Requests,
          Overlap,     \* bound: TRUE for requests that overlap, FALSE one at a time
          Amounts      \* bound: the amounts a line can carry

VARIABLES
    open,     \* the periods whose Status is Open
    entry,    \* Status and Fiscal Period of each entry
    line,     \* committed lines
    tx,       \* the transaction each request runs
    overlap   \* whether requests overlap in this behaviour

vars == <<open, entry, line, tx, overlap>>

Rows == Periods \cup Entries \cup Lines

EntryRow == [posted : BOOLEAN, period : Periods]
LineRow  == [live : BOOLEAN, entry : Entries, debit : Amounts, credit : Amounts]

Idle == [at |-> "idle"]

\* What each transaction keeps between its statements: e the entry with the
\* data it read, sum the debit total already read, x the row it has written.
Request ==
    {Idle}
    \cup [at : {"read", "debits", "balanced", "checked"}, e : Entries, row : EntryRow, sum : Nat]
    \cup [at : {"moving"}, e : Entries, row : EntryRow]
    \cup [at : {"closing"}, p : Periods]
    \cup [at : {"entry"}, x : Entries, row : EntryRow]
    \cup [at : {"line"}, x : Lines, row : LineRow]
    \cup [at : {"period"}, x : Periods]
    \cup [at : {"refused"}]

Total(rows, side, e) ==
    LET mine == {l \in Lines : rows[l].live /\ rows[l].entry = e}
    IN  MapThenSumSet(LAMBDA l : IF side = "debit" THEN rows[l].debit ELSE rows[l].credit, mine)

Balanced(e) == Total(line, "debit", e) = Total(line, "credit", e)

\* A row is locked from the UPDATE that writes it to the end of its request.
CanLock(r, y) ==
    \A q \in Requests \ {r} : tx[q].at \in {"entry", "line", "period"} => tx[q].x # y

----------------------------------------------------------------------------
Init ==
    /\ open = Periods
    /\ entry \in [Entries -> [posted : {FALSE}, period : Periods]]
    /\ line \in [Lines -> [live : {FALSE}, entry : {CHOOSE e \in Entries : TRUE},
                           debit : {0}, credit : {0}]]
    /\ tx = [r \in Requests |-> Idle]
    /\ overlap \in Overlap

Set(r, t) == tx' = [tx EXCEPT ![r] = t] /\ UNCHANGED <<open, entry, line, overlap>>

MayBegin(r) == \A q \in Requests : (q = r \/ ~overlap) => tx[q].at = "idle"

\* evt_c9je_post: its condition on the entry as read.
BeginPost(r, e) ==
    /\ MayBegin(r)
    /\ Set(r, IF entry[e].posted THEN [at |-> "refused"]
              ELSE [at |-> "read", e |-> e, row |-> entry[e], sum |-> 0])

\* The credit total compared with itself.
SumCreditsAlone(r) ==
    /\ tx[r].at = "debits"
    /\ Set(r, [tx[r] EXCEPT !.at = "balanced"])

\* aggregateCrossRecordViolated: SUM(debit) and SUM(credit) are two SELECTs.
SumDebits(r) ==
    /\ tx[r].at = "read"
    /\ Set(r, [tx[r] EXCEPT !.at = "debits", !.sum = Total(line, "debit", tx[r].e)])

SumCredits(r) ==
    /\ tx[r].at = "debits"
    /\ Set(r, IF tx[r].sum = Total(line, "credit", tx[r].e)
              THEN [tx[r] EXCEPT !.at = "balanced"] ELSE [at |-> "refused"])

\* Any open period will do.
CheckAnyPeriod(r) ==
    /\ tx[r].at = "balanced"
    /\ Set(r, IF open # {} THEN [tx[r] EXCEPT !.at = "checked"] ELSE [at |-> "refused"])

\* referenceFieldCrossRecordViolated: the period the entry named when it was read.
CheckPeriod(r) ==
    /\ tx[r].at = "balanced"
    /\ Set(r, IF tx[r].row.period \in open
              THEN [tx[r] EXCEPT !.at = "checked"] ELSE [at |-> "refused"])

\* Persist writes the whole data map.
WritePosted(r) ==
    /\ tx[r].at = "checked" /\ CanLock(r, tx[r].e)
    /\ Set(r, [at |-> "entry", x |-> tx[r].e, row |-> [tx[r].row EXCEPT !.posted = TRUE]])

\* Update of an entry's form: Memo and Fiscal Period, over the data read.  The
\* rules apply when the data read is already posted; then the three reads are
\* made too, so the edit takes the same steps.
BeginEditEntry(r, e, p) ==
    /\ MayBegin(r)
    /\ Set(r, IF entry[e].posted
              THEN [at |-> "read", e |-> e, row |-> [entry[e] EXCEPT !.period = p], sum |-> 0]
              ELSE [at |-> "moving", e |-> e, row |-> [entry[e] EXCEPT !.period = p]])

WriteEntry(r) ==
    /\ tx[r].at = "moving" /\ CanLock(r, tx[r].e)
    /\ Set(r, [at |-> "entry", x |-> tx[r].e, row |-> tx[r].row])

\* Create or Update of a line: the line's machine declares no rule.
WriteLine(r, l, e, debit, credit) ==
    /\ MayBegin(r) /\ CanLock(r, l)
    /\ Set(r, [at |-> "line", x |-> l,
               row |-> [live |-> TRUE, entry |-> e, debit |-> debit, credit |-> credit]])

\* evt_c9fp_close.
BeginClose(r, p) ==
    /\ MayBegin(r)
    /\ Set(r, IF p \in open THEN [at |-> "closing", p |-> p] ELSE [at |-> "refused"])

WriteClosed(r) ==
    /\ tx[r].at = "closing" /\ CanLock(r, tx[r].p)
    /\ Set(r, [at |-> "period", x |-> tx[r].p])

Commit(r) ==
    /\ tx[r].at \in {"entry", "line", "period", "refused"}
    /\ entry' = IF tx[r].at = "entry" THEN [entry EXCEPT ![tx[r].x] = tx[r].row] ELSE entry
    /\ line'  = IF tx[r].at = "line" THEN [line EXCEPT ![tx[r].x] = tx[r].row] ELSE line
    /\ open'  = IF tx[r].at = "period" THEN open \ {tx[r].x} ELSE open
    /\ tx' = [tx EXCEPT ![r] = Idle]
    /\ UNCHANGED overlap

Fail(r) == tx[r].at # "idle" /\ Set(r, Idle)

Next ==
    \E r \in Requests :
        \/ \E e \in Entries : BeginPost(r, e)
        \/ \E e \in Entries, p \in Periods : BeginEditEntry(r, e, p)
        \/ \E l \in Lines, e \in Entries, d, c \in Amounts : WriteLine(r, l, e, d, c)
        \/ \E p \in Periods : BeginClose(r, p)
        \/ SumDebits(r) \/ SumCredits(r) \/ CheckPeriod(r)
        \/ WritePosted(r) \/ WriteEntry(r) \/ WriteClosed(r)
        \/ Commit(r) \/ Fail(r)

Spec == Init /\ [][Next]_vars

----------------------------------------------------------------------------
TypeOK ==
    /\ open \subseteq Periods
    /\ entry \in [Entries -> EntryRow]
    /\ line \in [Lines -> LineRow]
    /\ tx \in [Requests -> Request]
    /\ overlap \in BOOLEAN

Posts(e) == ~entry[e].posted /\ entry'[e].posted

\* "Total Debit must equal Total Credit before posting" and "no posting into a
\* closed Fiscal Period": among requests that do not overlap an entry becomes
\* Posted only while its lines balance and its period is open, and its form,
\* which writes the whole record back, never takes it out of Posted.
PostedWithinRules ==
    [][~overlap => \A e \in Entries :
          /\ Posts(e) => Balanced(e) /\ entry'[e].period \in open
          /\ entry[e].posted => entry'[e].posted]_vars
=============================================================================
