---------------------------- MODULE ServingProofs ----------------------------
(***************************************************************************)
(* What Serving serves is committed, and among requests that do not        *)
(* overlap what is committed is served, for any workspaces, applications,  *)
(* requests and pool.                                                      *)
(***************************************************************************)
EXTENDS Serving, TLAPS

\* Without overlap one request at most is under way.
Alone == ~overlap => \A q, r \in Requests : q # r => tx[q].at = "idle" \/ tx[r].at = "idle"

\* An application's workspace is committed before it.
Owned == \A a \in database \cap Applications : Owner[a] \in database

\* A request founds a workspace or imports an application into a committed one.
Aimed(t) ==
    /\ t.at # "idle" => CASE t.kind = "found"  -> t.thing \in Workspaces
                          [] t.kind = "import" -> t.thing \in Applications /\ Owner[t.thing] \in database
                          [] t.kind = "reload" -> t.thing = Nil
    /\ t.at \in Second \cup {"begun"} => t.kind # "reload"
    /\ t.at \in {"listing", "loaded"} => t.kind = "import"

\* A load holds committed metadata and its own import; without overlap it misses
\* nothing of what it has looked for.
Loading(t) ==
    /\ t.at \in {"listed", "built"} => t.load \subseteq database
    /\ t.at \in {"listing", "loaded"} => t.load \subseteq database \cup {t.thing}
    /\ ~overlap =>
          /\ t.at \in {"listing", "listed"} => database \cap Workspaces \subseteq t.load
          /\ t.at = "loaded" => database \cup {t.thing} \subseteq t.load
          /\ t.at = "built" => database \subseteq t.load

\* What a request has committed and not swapped in yet.
Owed(t) == IF t.at \in {"committed", "listed", "built"} /\ t.thing # Nil THEN {t.thing} ELSE {}

\* Without overlap whatever is committed and not served is owed by a request, or
\* was by one that failed.
Accounted == ~overlap => \A x \in database \ live : x \in unserved \/ \E r \in Requests : x \in Owed(tx[r])

Good(t) == Aimed(t) /\ Loading(t)

IInv ==
    /\ TypeOK /\ Alone /\ Owned /\ Accounted
    /\ live \subseteq database
    /\ \A r \in Requests : Good(tx[r])

----------------------------------------------------------------------------
\* A request that has not begun is sound.
LEMMA IdleGood == Idle \in Request /\ Good(Idle) /\ Owed(Idle) = {} /\ Idle.at = "idle"
  BY DEF Idle, Request, Good, Aimed, Loading, Owed, Serving, Second

\* The initial states satisfy the inductive invariant.
LEMMA InitIInv == Init => IInv
  <1> SUFFICES ASSUME Init PROVE IInv
    OBVIOUS
  <1>1. \A r \in Requests : tx[r] = Idle
    BY DEF Init
  <1>2. TypeOK
    BY IdleGood, ServingAssumption DEF Init, TypeOK, Metadata
  <1>3. Alone /\ Accounted /\ live \subseteq database
    BY <1>1, IdleGood DEF Init, Alone, Accounted
  <1>4. Owned
    BY ServingAssumption DEF Init, Owned
  <1> QED
    BY <1>1, <1>2, <1>3, <1>4, IdleGood DEF IInv

\* A step that changes its own request only preserves the invariant if it leaves
\* that request sound and still owing what it owed.
LEMMA SetIInv ==
  ASSUME IInv, NEW r \in Requests, NEW t \in Request, Set(r, t), Good(t),
         Owed(tx[r]) \subseteq Owed(t),
         tx[r].at # "idle" \/ overlap \/ \A q \in Requests : tx[q].at = "idle"
  PROVE  IInv'
  <1>1. /\ tx'[r] = t /\ \A q \in Requests \ {r} : tx'[q] = tx[q]
        /\ UNCHANGED <<database, live, ticking, unserved, overlap>>
    BY DEF Set, IInv, TypeOK
  <1>2. TypeOK'
    BY DEF Set, IInv, TypeOK
  <1>3. Alone' /\ Owned' /\ live' \subseteq database'
    BY <1>1 DEF IInv, Alone, Owned
  <1>4. Accounted'
    <2> SUFFICES ASSUME ~overlap, NEW x \in database \ live
                 PROVE  x \in unserved \/ \E q \in Requests : x \in Owed(tx'[q])
      BY <1>1 DEF Accounted, Owed
    <2>1. CASE x \in unserved
      BY <2>1
    <2>2. CASE \E q \in Requests : x \in Owed(tx[q])
      BY <1>1, <2>2
    <2> QED
      BY <2>1, <2>2 DEF IInv, Accounted
  <1>5. ASSUME NEW q \in Requests PROVE Good(tx[q])'
    <2>1. Good(tx'[q])
      BY <1>1 DEF IInv
    <2> QED
      BY <1>1, <2>1 DEF Good, Aimed, Loading
  <1> QED
    BY <1>2, <1>3, <1>4, <1>5 DEF IInv

\* A request arrives with nothing loaded.
LEMMA ArriveIInv ==
  ASSUME IInv, NEW r \in Requests, NEW kind \in {"found", "import", "reload"},
         NEW thing \in Metadata \cup {Nil}, Arrive(r, kind, thing)
  PROVE  IInv'
  <1> DEFINE t == [Idle EXCEPT !.kind = kind, !.thing = thing, !.at = "arrived"]
  <1>1. t \in Request /\ t.at = "arrived" /\ t.kind = kind /\ t.thing = thing
    BY DEF Idle, Request
  <1>2. Aimed(t)
    BY <1>1 DEF Aimed, Arrive, IInv, Second
  <1>3. Loading(t) /\ Owed(tx[r]) = {}
    BY <1>1 DEF Loading, Owed, Arrive
  <1> HIDE DEF t
  <1>4. Set(r, t) /\ (overlap \/ \A q \in Requests : tx[q].at = "idle")
    BY DEF Arrive, t
  <1> QED
    BY <1>1, <1>2, <1>3, <1>4, SetIInv DEF Good

\* Taking a connection, inserting, listing and loading leave the request sound.
LEMMA ProceedIInv ==
  ASSUME IInv, NEW r \in Requests,
         Begin(r) \/ BeginOwn(r) \/ Insert(r) \/ End(r)
  PROVE  IInv'
  <1>1. tx[r] \in Request /\ Good(tx[r])
    BY DEF IInv, TypeOK
  <1>2. CASE End(r)
    BY <1>2, IdleGood, SetIInv DEF End, Owed
  <1>3. CASE Begin(r) \/ BeginOwn(r) \/ Insert(r)
    <2>1. PICK at \in {"committed", "begun", "inserting", "ending", "inserted"} :
             /\ Set(r, [tx[r] EXCEPT !.at = at])
             /\ tx[r].at \in {"arrived", "begun", "inserting"}
             /\ at = "committed" <=> (tx[r].at = "arrived" /\ tx[r].kind = "reload")
      BY <1>3 DEF Begin, BeginOwn, Insert
    <2> DEFINE t == [tx[r] EXCEPT !.at = at]
    <2>2. /\ t \in Request /\ t.at = at /\ t.kind = tx[r].kind /\ t.thing = tx[r].thing
      BY <1>1 DEF Request, Serving
    <2>3. Good(t)
      BY <1>1, <2>1, <2>2 DEF Good, Aimed, Loading, Second
    <2>4. Owed(tx[r]) = {}
      BY <2>1 DEF Owed
    <2> HIDE DEF t
    <2>5. Set(r, t)
      BY <2>1 DEF t
    <2> QED
      BY <2>1, <2>2, <2>3, <2>4, <2>5, SetIInv
  <1> QED
    BY <1>2, <1>3

\* The list of workspaces is a committed one.
LEMMA LoadWorkspacesIInv ==
  ASSUME IInv, NEW r \in Requests, LoadWorkspaces(r) PROVE IInv'
  <1>1. tx[r] \in Request /\ Good(tx[r]) /\ database \subseteq Metadata
    BY DEF IInv, TypeOK
  <1> DEFINE at == IF tx[r].at = "inserted" THEN "listing" ELSE "listed"
             load == Visible(r) \cap Workspaces
             t == [tx[r] EXCEPT !.at = at, !.load = load]
  <1>2. \/ tx[r].at = "committed" /\ at = "listed" /\ load = database \cap Workspaces
        \/ /\ tx[r].at = "inserted" /\ tx[r].kind = "import" /\ at = "listing"
           /\ load = (database \cup {tx[r].thing}) \cap Workspaces
    BY DEF LoadWorkspaces, Visible
  <1>3. load \subseteq Metadata /\ at \in {"listing", "listed"}
    BY DEF Metadata
  <1>4. t \in Request /\ t.at = at /\ t.load = load /\ t.kind = tx[r].kind /\ t.thing = tx[r].thing
    BY <1>1, <1>3 DEF Request, Serving
  <1>5. Set(r, t) /\ tx[r].at # "idle"
    BY <1>2 DEF LoadWorkspaces
  <1> HIDE DEF at, load, t
  <1>6. Aimed(t)
    BY <1>1, <1>2, <1>4 DEF Good, Aimed, Second
  <1>7. Loading(t)
    BY <1>2, <1>4 DEF Loading
  <1>8. Owed(tx[r]) \subseteq Owed(t)
    BY <1>2, <1>4 DEF Owed
  <1> QED
    BY <1>4, <1>5, <1>6, <1>7, <1>8, SetIInv DEF Good

\* So are the applications loaded after it, and none of a listed workspace is
\* missed.
LEMMA LoadApplicationsIInv ==
  ASSUME IInv, NEW r \in Requests, LoadApplications(r) PROVE IInv'
  <1>1. tx[r] \in Request /\ Good(tx[r]) /\ database \subseteq Metadata /\ Owned
    BY DEF IInv, TypeOK
  <1>2. tx[r].at \in {"listed", "listing"}
    BY DEF LoadApplications
  <1> DEFINE apps == {a \in Visible(r) \cap Applications : Owner[a] \in tx[r].load}
             at == IF tx[r].at = "listing" THEN "loaded" ELSE "built"
             t == [tx[r] EXCEPT !.at = at, !.load = @ \cup apps]
  <1>3. CASE Set(r, t)
    <2>1. apps \subseteq Metadata /\ at \in {"loaded", "built"}
      BY DEF Metadata
    <2>2. /\ t \in Request /\ t.at = at /\ t.load = tx[r].load \cup apps
          /\ t.kind = tx[r].kind /\ t.thing = tx[r].thing
      BY <1>1, <2>1 DEF Request, Serving
    <2>3. \/ tx[r].at = "listed" /\ at = "built" /\ apps = {a \in database \cap Applications : Owner[a] \in tx[r].load}
          \/ /\ tx[r].at = "listing" /\ at = "loaded" /\ tx[r].kind = "import"
             /\ apps = {a \in (database \cup {tx[r].thing}) \cap Applications : Owner[a] \in tx[r].load}
      BY <1>1, <1>2 DEF Visible, Good, Aimed
    <2> HIDE DEF apps, at, t
    <2>4. Aimed(t)
      BY <1>1, <2>2, <2>3 DEF Good, Aimed, Second
    <2>5. Loading(t)
      <3>1. ASSUME ~overlap, tx[r].at = "listed" PROVE database \subseteq tx[r].load \cup apps
        <4>1. database \cap Workspaces \subseteq tx[r].load
          BY <1>1, <3>1 DEF Good, Loading
        <4>2. \A a \in database \cap Applications : Owner[a] \in database \cap Workspaces
          BY <1>1, ServingAssumption DEF Owned
        <4> QED
          BY <1>1, <2>3, <3>1, <4>1, <4>2 DEF Metadata
      <3>2. ASSUME ~overlap, tx[r].at = "listing"
            PROVE  database \cup {tx[r].thing} \subseteq tx[r].load \cup apps
        <4>1. database \cap Workspaces \subseteq tx[r].load
          BY <1>1, <3>2 DEF Good, Loading
        <4>2. tx[r].thing \in Applications /\ Owner[tx[r].thing] \in database \cap Workspaces
          BY <1>1, <2>3, <3>2, ServingAssumption DEF Good, Aimed
        <4>3. \A a \in database \cap Applications : Owner[a] \in database \cap Workspaces
          BY <1>1, ServingAssumption DEF Owned
        <4> QED
          BY <1>1, <2>3, <3>2, <4>1, <4>2, <4>3 DEF Metadata
      <3> QED
        BY <1>1, <2>2, <2>3, <3>1, <3>2 DEF Good, Loading
    <2>6. Owed(tx[r]) \subseteq Owed(t)
      BY <2>2, <2>3 DEF Owed
    <2> QED
      BY <1>2, <1>3, <2>2, <2>4, <2>5, <2>6, SetIInv DEF Good
  <1>4. CASE tx[r].at = "listing" /\ Set(r, [tx[r] EXCEPT !.at = "ending"])
    <2> DEFINE u == [tx[r] EXCEPT !.at = "ending"]
    <2>1. u \in Request /\ u.at = "ending" /\ u.kind = tx[r].kind /\ u.thing = tx[r].thing
      BY <1>1 DEF Request, Serving
    <2> HIDE DEF u
    <2>2. Good(u) /\ Owed(tx[r]) = {}
      BY <1>1, <1>4, <2>1 DEF Good, Aimed, Loading, Owed, Second
    <2>3. Set(r, u)
      BY <1>4 DEF u
    <2> QED
      BY <1>4, <2>1, <2>2, <2>3, SetIInv
  <1> QED
    BY <1>3, <1>4 DEF LoadApplications

\* A commit makes its thing owed, to the load that follows or to the one that
\* has it already.
LEMMA CommitOwnIInv ==
  ASSUME IInv, NEW r \in Requests, CommitOwn(r) PROVE IInv'
  <1> DEFINE at == IF tx[r].kind = "found" THEN "committed" ELSE "built"
  <1>1. tx[r] \in Request /\ Good(tx[r]) /\ database \subseteq Metadata
    BY DEF IInv, TypeOK
  <1>2. PICK x, t : x = tx[r].thing /\ t = [tx[r] EXCEPT !.at = at]
    OBVIOUS
  <1>3. \/ tx[r].kind = "found" /\ tx[r].at = "inserted" /\ at = "committed" /\ x \in Workspaces
        \/ /\ tx[r].kind = "import" /\ tx[r].at = "loaded" /\ at = "built"
           /\ x \in Applications /\ Owner[x] \in database
    BY <1>1, <1>2 DEF CommitOwn, Good, Aimed
  <1>4. t \in Request /\ t.at = at /\ t.kind = tx[r].kind /\ t.thing = x /\ t.load = tx[r].load
    BY <1>1, <1>2 DEF Request, Serving
  <1>5. /\ tx' = [tx EXCEPT ![r] = t] /\ database' = database \cup {x}
        /\ UNCHANGED <<live, ticking, unserved, overlap>>
    BY <1>2 DEF CommitOwn
  <1> HIDE DEF at
  <1>6. tx'[r] = t /\ \A q \in Requests \ {r} : tx'[q] = tx[q]
    BY <1>5 DEF IInv, TypeOK
  <1>7. x \in Metadata /\ x # Nil
    BY <1>3, ServingAssumption DEF Metadata
  <1>8. TypeOK'
    BY <1>4, <1>5, <1>7 DEF IInv, TypeOK
  <1>9. Alone' /\ live' \subseteq database'
    BY <1>3, <1>5, <1>6 DEF IInv, Alone
  <1>10. Owned'
    BY <1>3, <1>5, ServingAssumption DEF IInv, Owned
  <1>11. Accounted'
    <2>1. x \in Owed(t) /\ Owed(tx[r]) = {}
      BY <1>3, <1>4, <1>7 DEF Owed
    <2> SUFFICES ASSUME ~overlap, NEW y \in (database \cup {x}) \ live
                 PROVE  y \in unserved \/ \E q \in Requests : y \in Owed(tx'[q])
      BY <1>5 DEF Accounted, Owed
    <2>2. CASE y = x
      BY <1>6, <2>1, <2>2
    <2>3. CASE y \in database
      BY <1>6, <2>1, <2>3 DEF IInv, Accounted
    <2> QED
      BY <2>2, <2>3
  <1>12. ASSUME NEW q \in Requests PROVE Good(tx[q])'
    <2>1. CASE q = r
      <3>1. Aimed(t)'
        BY <1>1, <1>3, <1>4, <1>5 DEF Good, Aimed, Second
      <3>2. Loading(t)'
        BY <1>1, <1>2, <1>3, <1>4, <1>5 DEF Good, Loading
      <3>3. Good(t)'
        BY <3>1, <3>2 DEF Good
      <3> QED
        BY <1>6, <2>1, <3>3 DEF Good, Aimed, Loading
    <2>2. CASE q # r
      <3>1. PICK u \in Request : u = tx[q] /\ tx'[q] = u
        BY <1>6, <2>2 DEF IInv, TypeOK
      <3>2. ~overlap => u.at = "idle"
        BY <1>3, <2>2, <3>1 DEF IInv, Alone
      <3>3. Good(u)
        BY <3>1 DEF IInv
      <3>4. Aimed(u)'
        BY <1>5, <3>3 DEF Good, Aimed, Request
      <3>5. Loading(u)'
        BY <1>5, <3>2, <3>3 DEF Good, Loading
      <3>6. Good(u)'
        BY <3>4, <3>5 DEF Good
      <3> QED
        BY <3>1, <3>6 DEF Good, Aimed, Loading
    <2> QED
      BY <2>1, <2>2
  <1> QED
    BY <1>8, <1>9, <1>10, <1>11, <1>12 DEF IInv

\* What is swapped in is committed, and without overlap it is all there is.
LEMMA SwapIInv ==
  ASSUME IInv, NEW r \in Requests, Swap(r) PROVE IInv'
  <1> DEFINE t == [tx[r] EXCEPT !.at = "ending"]
  <1>1. tx[r] \in Request /\ Good(tx[r]) /\ tx[r].at = "built"
    BY DEF IInv, TypeOK, Swap
  <1>2. /\ t \in Request /\ t.at = "ending" /\ t.kind = tx[r].kind /\ t.thing = tx[r].thing
    BY <1>1 DEF Request, Serving
  <1>3. Good(t)
    BY <1>1, <1>2 DEF Good, Aimed, Loading, Second
  <1>4. /\ tx' = [tx EXCEPT ![r] = t] /\ live' = tx[r].load
        /\ UNCHANGED <<database, ticking, unserved, overlap>>
    BY DEF Swap
  <1> HIDE DEF t
  <1>5. tx'[r] = t /\ \A q \in Requests \ {r} : tx'[q] = tx[q]
    BY <1>4 DEF IInv, TypeOK
  <1>6. live' \subseteq database' /\ (~overlap => live' = database')
    BY <1>1, <1>4 DEF Good, Loading
  <1>7. TypeOK'
    BY <1>2, <1>4, <1>6 DEF IInv, TypeOK
  <1>8. Alone' /\ Owned' /\ Accounted'
    BY <1>1, <1>4, <1>5, <1>6 DEF IInv, Alone, Owned, Accounted
  <1>9. ASSUME NEW q \in Requests PROVE Good(tx[q])'
    <2>1. Good(tx'[q])
      BY <1>3, <1>5 DEF IInv
    <2> QED
      BY <1>4, <2>1 DEF Good, Aimed, Loading
  <1> QED
    BY <1>6, <1>7, <1>8, <1>9 DEF IInv

\* What a failing request owed is put down to it.
LEMMA FailIInv ==
  ASSUME IInv, NEW r \in Requests, LoadFails(r) \/ Fail(r) PROVE IInv'
  <1>1. tx[r] \in Request /\ Good(tx[r]) /\ tx[r].at # "idle"
    BY DEF IInv, TypeOK, LoadFails, Fail
  <1>2. Stranded(r) = Owed(tx[r]) /\ Owed(tx[r]) \subseteq Metadata
    BY <1>1 DEF Stranded, Owed, Request
  <1>3. PICK t \in Request : Good(t) /\ tx' = [tx EXCEPT ![r] = t]
    <2>1. CASE Fail(r)
      BY <2>1, IdleGood DEF Fail
    <2>2. CASE LoadFails(r)
      <3> DEFINE u == [tx[r] EXCEPT !.at = "ending"]
      <3>1. u \in Request /\ u.at = "ending" /\ u.kind = tx[r].kind /\ u.thing = tx[r].thing
        BY <1>1 DEF Request, Serving
      <3>2. tx' = [tx EXCEPT ![r] = u]
        BY <2>2 DEF LoadFails
      <3> HIDE DEF u
      <3>3. Good(u)
        BY <1>1, <3>1 DEF Good, Aimed, Loading, Second
      <3> QED
        BY <3>1, <3>2, <3>3
    <2> QED
      BY <2>1, <2>2
  <1>4. unserved' = unserved \cup Owed(tx[r]) /\ UNCHANGED <<database, live, ticking, overlap>>
    BY <1>2 DEF LoadFails, Fail
  <1>5. tx'[r] = t /\ \A q \in Requests \ {r} : tx'[q] = tx[q]
    BY <1>3 DEF IInv, TypeOK
  <1>6. TypeOK'
    BY <1>2, <1>3, <1>4 DEF IInv, TypeOK
  <1>7. Alone' /\ Owned' /\ live' \subseteq database'
    BY <1>1, <1>4, <1>5 DEF IInv, Alone, Owned
  <1>8. Accounted'
    <2> SUFFICES ASSUME ~overlap, NEW x \in database \ live
                 PROVE  x \in unserved' \/ \E q \in Requests : x \in Owed(tx'[q])
      BY <1>4 DEF Accounted, Owed
    <2> QED
      BY <1>4, <1>5 DEF IInv, Accounted
  <1>9. ASSUME NEW q \in Requests PROVE Good(tx[q])'
    <2>1. Good(tx'[q])
      BY <1>3, <1>5 DEF IInv
    <2> QED
      BY <1>4, <2>1 DEF Good, Aimed, Loading
  <1> QED
    BY <1>6, <1>7, <1>8, <1>9 DEF IInv

\* A restart serves exactly what is committed.
LEMMA RestartIInv ==
  ASSUME IInv, Restart PROVE IInv'
  <1>1. (\A r \in Requests : tx'[r] = Idle) /\ UNCHANGED <<database, unserved, overlap>> /\ live' = database
    BY DEF Restart
  <1>2. TypeOK'
    BY IdleGood DEF Restart, IInv, TypeOK
  <1>3. Alone' /\ Owned' /\ Accounted' /\ live' \subseteq database'
    BY <1>1, IdleGood DEF IInv, Alone, Owned, Accounted
  <1>4. ASSUME NEW q \in Requests PROVE Good(tx[q])'
    <2>1. Idle.at = "idle"
      BY DEF Idle
    <2> QED
      BY <1>1, <2>1 DEF Good, Aimed, Loading, Second
  <1> QED
    BY <1>2, <1>3, <1>4 DEF IInv

\* What leaves requests, metadata and model alone preserves the invariant.
LEMMA StutterIInv ==
  ASSUME IInv, UNCHANGED <<database, live, tx, unserved, overlap>>, ticking' \in BOOLEAN
  PROVE  IInv'
  <1>1. TypeOK' /\ Alone' /\ Owned' /\ live' \subseteq database'
    BY DEF IInv, TypeOK, Alone, Owned
  <1>2. Accounted'
    BY DEF IInv, Accounted, Owed
  <1>3. \A q \in Requests : Good(tx[q])'
    BY DEF IInv, Good, Aimed, Loading
  <1> QED
    BY <1>1, <1>2, <1>3 DEF IInv

\* Every step keeps the invariant.
LEMMA StepIInv == IInv /\ [Next]_vars => IInv'
  <1> SUFFICES ASSUME IInv, [Next]_vars PROVE IInv'
    OBVIOUS
  <1>1. CASE UNCHANGED vars
    BY <1>1, StutterIInv DEF vars, IInv, TypeOK
  <1>2. CASE Restart
    BY <1>2, RestartIInv
  <1>3. CASE Tick \/ TickEnd
    BY <1>3, StutterIInv DEF Tick, TickEnd
  <1>4. ASSUME NEW r \in Requests,
               \/ \E kind \in {"found", "import", "reload"}, thing \in Metadata \cup {Nil} : Arrive(r, kind, thing)
               \/ Proceed(r) \/ LoadFails(r) \/ Fail(r)
        PROVE  IInv'
    BY <1>4, ArriveIInv, ProceedIInv, LoadWorkspacesIInv, LoadApplicationsIInv, CommitOwnIInv,
       SwapIInv, FailIInv DEF Proceed
  <1> QED
    BY <1>1, <1>2, <1>3, <1>4 DEF Next

\* The inductive invariant holds throughout.
LEMMA Inductive == Spec => []IInv
  BY InitIInv, StepIInv, PTL DEF Spec

\* Every variable keeps its type.
THEOREM TypeCorrect == Spec => []TypeOK
  <1>1. IInv => TypeOK
    BY DEF IInv
  <1> QED
    BY <1>1, Inductive, PTL

\* Nothing is served that might not have persisted, whatever overlaps, and among
\* requests that do not overlap all that is committed is served, but for what a
\* failed request left behind (Signup, APIImportApplication, Reload, main).
THEOREM ServedIsPersisted == Spec => []ServedPersisted
  <1>1. IInv => ServedPersisted
    BY DEF IInv, Accounted, Owed, ServedPersisted
  <1> QED
    BY <1>1, Inductive, PTL
=============================================================================
