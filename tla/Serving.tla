------------------------------- MODULE Serving ------------------------------
(***************************************************************************)
(* The live model and the connection pool.  Founding a workspace and       *)
(* importing an application commit metadata in a transaction of their own, *)
(* then make it servable: the metadata is loaded again, statement by       *)
(* statement, and an atomic pointer is swapped to the model built from it  *)
(* (CAP-X04, X08, O09).  All the while the request's own transaction keeps *)
(* one connection of the pool; the second transaction and every statement  *)
(* of a load need another.                                                 *)
(***************************************************************************)
EXTENDS Naturals, FiniteSets

CONSTANTS Workspaces, Applications, Requests,
          Home,        \* the workspace that is seeded
          Owner,       \* Owner[a]: the workspace an application is imported into
          Nil,
          Conns,       \* the pool's size
          Overlap      \* bound: TRUE for requests that overlap, FALSE one at a time

ASSUME ServingAssumption ==
    /\ Home \in Workspaces /\ Owner \in [Applications -> Workspaces]
    /\ Workspaces \cap Applications = {} /\ Nil \notin Workspaces \cup Applications
    /\ IsFiniteSet(Requests) /\ Conns \in Nat
    /\ Overlap \subseteq BOOLEAN

VARIABLES
    database,   \* committed metadata
    live,       \* the model the atomic pointer names
    tx,         \* the requests
    ticking,    \* the scheduler's or the dispatcher's transaction is open
    unserved,   \* history: committed by a request that failed before its swap
    overlap     \* whether requests overlap in this behaviour

vars == <<database, live, tx, ticking, unserved, overlap>>

Metadata == Workspaces \cup Applications

\* Stages in which a request holds its own connection, and a second one.
Serving == {"begun", "inserting", "inserted", "listing", "loaded", "committed", "listed", "built", "ending"}
Second  == {"inserting", "inserted", "listing", "loaded"}

Request == [kind : {"found", "import", "reload"}, at : Serving \cup {"idle", "arrived"},
            thing : Metadata \cup {Nil}, load : SUBSET Metadata]

Idle == [kind |-> "reload", at |-> "idle", thing |-> Nil, load |-> {}]

InUse ==
    Cardinality({r \in Requests : tx[r].at \in Serving})
    + Cardinality({r \in Requests : tx[r].at \in Second})
    + (IF ticking THEN 1 ELSE 0)

\* The pool hands out a connection, or a statement outside any transaction
\* borrows one.
Available == InUse < Conns

\* Inserted by a request and not committed yet.
Uncommitted(r) == {tx[q].thing : q \in {p \in Requests \ {r} : tx[p].at \in {"inserted", "listing", "loaded"}}}

----------------------------------------------------------------------------
Init ==
    /\ database = {Home} /\ live = {Home}
    /\ tx = [r \in Requests |-> Idle]
    /\ ticking = FALSE /\ unserved = {}
    /\ overlap \in Overlap

Set(r, t) == /\ tx' = [tx EXCEPT ![r] = t]
             /\ UNCHANGED <<database, live, ticking, unserved, overlap>>

\* RequireWorkspaceSlug lets a request in only for a workspace that is served.
Arrive(r, kind, thing) ==
    /\ tx[r].at = "idle"
    /\ overlap \/ \A q \in Requests : tx[q].at = "idle"
    /\ CASE kind = "found"  -> thing \in Workspaces
         [] kind = "import" -> thing \in Applications /\ Owner[thing] \in live
         [] kind = "reload" -> thing = Nil
    /\ Set(r, [Idle EXCEPT !.kind = kind, !.thing = thing, !.at = "arrived"])

\* workspaceTx's pool.Begin.
Begin(r) ==
    /\ tx[r].at = "arrived" /\ Available
    /\ Set(r, [tx[r] EXCEPT !.at = IF tx[r].kind = "reload" THEN "committed" ELSE "begun"])

\* h.pool.Begin, while the request's own transaction stays open.
BeginOwn(r) ==
    /\ tx[r].at = "begun" /\ Available
    /\ Set(r, [tx[r] EXCEPT !.at = "inserting"])

\* The INSERTs by the pool instead of the second transaction.
InsertOnPool(r) ==
    /\ tx[r].at = "inserting" /\ tx[r].thing \notin Uncommitted(r) /\ Available
    /\ Set(r, [tx[r] EXCEPT !.at = IF tx[r].thing \in database THEN "ending" ELSE "inserted"])

\* The INSERTs wait for an uncommitted duplicate; a duplicate is answered, and
\* the second transaction rolled back.
Insert(r) ==
    /\ tx[r].at = "inserting" /\ tx[r].thing \notin Uncommitted(r)
    /\ Set(r, [tx[r] EXCEPT !.at = IF tx[r].thing \in database THEN "ending" ELSE "inserted"])

Visible(r) == IF tx[r].at \in {"inserted", "listing"} THEN database \cup {tx[r].thing} ELSE database

\* LoadAll, its first query.  An import loads inside its transaction.
LoadWorkspaces(r) ==
    /\ \/ tx[r].at = "committed" /\ Available
       \/ tx[r].at = "inserted" /\ tx[r].kind = "import"
    /\ Set(r, [tx[r] EXCEPT !.at = IF @ = "inserted" THEN "listing" ELSE "listed",
                            !.load = Visible(r) \cap Workspaces])

\* The queries per workspace.  An invalid import is rolled back with a 400.
LoadApplications(r) ==
    /\ \/ tx[r].at = "listed" /\ Available
       \/ tx[r].at = "listing"
    /\ LET apps == {a \in Visible(r) \cap Applications : Owner[a] \in tx[r].load}
       IN  \/ Set(r, [tx[r] EXCEPT !.at = IF @ = "listing" THEN "loaded" ELSE "built", !.load = @ \cup apps])
           \/ tx[r].at = "listing" /\ Set(r, [tx[r] EXCEPT !.at = "ending"])

\* The commit of the second transaction gives its connection back.
CommitOwn(r) ==
    /\ \/ tx[r].kind = "found" /\ tx[r].at = "inserted"
       \/ tx[r].kind = "import" /\ tx[r].at = "loaded"
    /\ database' = database \cup {tx[r].thing}
    /\ tx' = [tx EXCEPT ![r].at = IF tx[r].kind = "found" THEN "committed" ELSE "built"]
    /\ UNCHANGED <<live, ticking, unserved, overlap>>

\* The import swaps before it commits.
SwapLoaded(r) ==
    /\ tx[r].at \in {"built", "loaded"}
    /\ live' = tx[r].load
    /\ tx' = [tx EXCEPT ![r].at = IF @ = "built" THEN "ending" ELSE @]
    /\ UNCHANGED <<database, ticking, unserved, overlap>>

\* interpreter.New and Store.Swap.
Swap(r) ==
    /\ tx[r].at = "built"
    /\ live' = tx[r].load
    /\ tx' = [tx EXCEPT ![r].at = "ending"]
    /\ UNCHANGED <<database, ticking, unserved, overlap>>

\* The answer, and workspaceTx's commit or rollback.
End(r) == tx[r].at = "ending" /\ Set(r, Idle)

\* What a request that fails now has committed and not swapped in.
Stranded(r) == IF tx[r].at \in {"committed", "listed", "built"} /\ tx[r].thing # Nil
               THEN {tx[r].thing} ELSE {}

\* A load fails: Signup logs it and goes on to the session, Reload answers 500.
LoadFails(r) ==
    /\ tx[r].at \in {"committed", "listed"}
    /\ tx' = [tx EXCEPT ![r].at = "ending"]
    /\ unserved' = unserved \cup Stranded(r)
    /\ UNCHANGED <<database, live, ticking, overlap>>

\* Any other failure, a panic or a client that goes away.
Fail(r) ==
    /\ tx[r].at # "idle"
    /\ tx' = [tx EXCEPT ![r] = Idle]
    /\ unserved' = unserved \cup Stranded(r)
    /\ UNCHANGED <<database, live, ticking, overlap>>

\* main: LoadAll before the server listens.
Restart ==
    /\ live' = database
    /\ tx' = [r \in Requests |-> Idle]
    /\ ticking' = FALSE
    /\ UNCHANGED <<database, unserved, overlap>>

\* A tick of the scheduler or of the dispatcher: one transaction at a time.
Tick    == ~ticking /\ Available /\ ticking' = TRUE /\ UNCHANGED <<database, live, tx, unserved, overlap>>
TickEnd == ticking /\ ticking' = FALSE /\ UNCHANGED <<database, live, tx, unserved, overlap>>

Proceed(r) ==
    \/ Begin(r) \/ BeginOwn(r) \/ Insert(r)
    \/ LoadWorkspaces(r) \/ LoadApplications(r) \/ CommitOwn(r) \/ Swap(r) \/ End(r)

Next ==
    \/ \E r \in Requests :
          \/ \E kind \in {"found", "import", "reload"}, thing \in Metadata \cup {Nil} : Arrive(r, kind, thing)
          \/ Proceed(r) \/ LoadFails(r) \/ Fail(r)
    \/ Restart \/ Tick \/ TickEnd

Spec == Init /\ [][Next]_vars

\* Handlers run on; the pool serves its waiters in turn, so one that could be
\* served again and again is.  A tick ends.
Fairness == WF_vars(TickEnd) /\ \A r \in Requests : SF_vars(Proceed(r))

----------------------------------------------------------------------------
TypeOK ==
    /\ database \subseteq Metadata /\ live \subseteq Metadata /\ unserved \subseteq Metadata
    /\ tx \in [Requests -> Request]
    /\ ticking \in BOOLEAN /\ overlap \in BOOLEAN

\* "never swap the live Interpreter to reference a row that might not have
\* actually persisted" (auth.go:64-65), whatever overlaps; and among requests
\* that do not overlap all that is committed is served, but for what a request
\* committed and then failed to load.
ServedPersisted ==
    /\ live \subseteq database
    /\ (~overlap /\ \A r \in Requests : tx[r].at = "idle") => database \ live \subseteq unserved

\* With one connection more than requests at once, every request gets the second
\* one it needs and ends (workspaceTx, Signup, APIImportApplication, LoadAll).
RequestsEnd == \A r \in Requests : tx[r].at # "idle" ~> tx[r].at = "idle"
=============================================================================
