-------------------------- MODULE EventSourcesProofs --------------------------
(***************************************************************************)
(* The safety properties of EventSources for any records, keys and         *)
(* deliveries, any time zone ahead of UTC and any length of time.          *)
(***************************************************************************)
EXTENDS EventSources, TLAPS

\* A request that is under way knows its record, and the key it is about to
\* claim.
Busy ==
    \A q \in Deliveries :
        /\ tx[q].at \notin {"idle", "ended"} => tx[q].rec \in Records
        /\ tx[q].at = "claim" => tx[q].key \in Keys /\ ~tx[q].claimed
        /\ tx[q].at \in {"idle", "duplicate", "ended"} => ~tx[q].claimed

\* A key that is claimed but not committed belongs to one request.
ClaimedOnce ==
    \A q \in Deliveries : tx[q].claimed =>
        /\ tx[q].key \in Keys \ claims
        /\ \A p \in Deliveries \ {q} : tx[p].claimed => tx[p].key # tx[q].key

\* The records a sweep has fired, or is about to, have no audit row of the
\* sweep's day yet.
SweepsFresh ==
    /\ \A r \in sweep.wrote : swept[r][sweep.start] = 0
    /\ sweep.at = "fire" => swept[sweep.rec][sweep.start] = 0

IInv ==
    /\ TypeOK /\ Busy /\ ClaimedOnce /\ SweepsFresh
    /\ KeySettledOnce /\ OncePerDay

\* Every moment of the clock falls on one of the days.
LEMMA LocalDayType == ASSUME TypeOK PROVE LocalDay(clock) \in Days
  BY EventSourcesAssumption DEF TypeOK, LocalDay, Days

LEMMA EndedType == Ended \in Request
  <1>1. 0 \in Days
    BY EventSourcesAssumption DEF Days, LocalDay
  <1>2. Unsent \in Request
    BY <1>1 DEF Unsent, Request
  <1> QED
    BY <1>2 DEF Ended, Request

\* The initial states satisfy the inductive invariant.
LEMMA InitIInv == Init => IInv
  <1> SUFFICES ASSUME Init PROVE IInv
    OBVIOUS
  <1> USE EventSourcesAssumption DEF Init
  <1>1. 0 \in Days
    BY DEF Days, LocalDay
  <1>2. TypeOK
    BY <1>1 DEF TypeOK, Request, Unsent, Sweep, Resting, RowStates
  <1>3. Busy /\ ClaimedOnce
    BY DEF Busy, ClaimedOnce, Unsent
  <1>4. SweepsFresh /\ KeySettledOnce /\ OncePerDay
    BY DEF SweepsFresh, KeySettledOnce, OncePerDay, Resting
  <1> QED
    BY <1>2, <1>3, <1>4 DEF IInv

\* A request that arrives, waits, writes or is lost changes its own record
\* only; it may take a key that no other request holds and nobody has spent.
LEMMA RequestIInv ==
  ASSUME IInv, NEW q \in Deliveries,
         Arrive(q) \/ Claim(q) \/ Duplicate(q) \/ Write(q) \/ Abort(q)
  PROVE  IInv'
  <1> USE DEF IInv
  <1>1. /\ UNCHANGED <<event, clock, row, claims, fired, refused, hooked,
                       swept, sweep, faults>>
        /\ tx' = [tx EXCEPT ![q] = tx'[q]]
        /\ DOMAIN tx' = Deliveries
        /\ \A p \in Deliveries \ {q} : tx'[p] = tx[p]
    <2>0. tx \in [Deliveries -> Request]
      BY DEF TypeOK
    <2>1. CASE Arrive(q)
      BY <2>0, <2>1 DEF Arrive, database
    <2>2. CASE Claim(q) \/ Duplicate(q) \/ Write(q) \/ Abort(q)
      BY <2>0, <2>2 DEF Claim, Duplicate, Write, Abort, End, database
    <2> QED
      BY <2>1, <2>2
  <1>2. /\ tx'[q] \in Request
        /\ tx'[q].at \notin {"idle", "ended"} => tx'[q].rec \in Records
        /\ tx'[q].at = "claim" => tx'[q].key \in Keys /\ ~tx'[q].claimed
        /\ tx'[q].at \in {"idle", "duplicate", "ended"} => ~tx'[q].claimed
        /\ tx'[q].claimed =>
             /\ tx'[q].key \in Keys \ claims
             /\ \A p \in Deliveries \ {q} : tx[p].claimed => tx[p].key # tx'[q].key
    <2> DEFINE t == tx[q]
    <2>0. /\ tx \in [Deliveries -> Request] /\ t \in Request
          /\ t.at \notin {"idle", "ended"} => t.rec \in Records
          /\ t.at = "claim" => t.key \in Keys /\ ~t.claimed
          /\ t.at \in {"idle", "duplicate", "ended"} => ~t.claimed
          /\ t.claimed =>
               /\ t.key \in Keys \ claims
               /\ \A p \in Deliveries \ {q} : tx[p].claimed => tx[p].key # t.key
      BY DEF TypeOK, Busy, ClaimedOnce
    <2>1. CASE Arrive(q)
      <3>1. LocalDay(clock) \in Days
        BY LocalDayType
      <3>2. PICK k \in Keys \cup {None}, r \in Records :
              tx'[q] = [Unsent EXCEPT !.at = IF k = None THEN Judged(Condition(r))
                                                         ELSE "claim",
                                      !.key = k, !.rec = r, !.day = LocalDay(clock),
                                      !.allowed = Condition(r)]
        BY <2>0, <2>1 DEF Arrive
      <3>3. Condition(r) \in BOOLEAN /\ Judged(Condition(r)) \in {"write", "answer"}
        BY DEF Condition, Judged
      <3>4. /\ tx'[q].at \in {"write", "answer", "claim"}
            /\ k = None => tx'[q].at # "claim"
            /\ tx'[q].key = k /\ tx'[q].rec = r /\ tx'[q].claimed = FALSE
            /\ tx'[q] \in Request
        BY <3>1, <3>2, <3>3 DEF Request, Unsent
      <3>5. tx'[q].at = "claim" => k \in Keys
        BY <3>4
      <3> QED
        BY <3>4, <3>5
    <2>2. CASE Claim(q)
      <3>1. /\ tx'[q] = [t EXCEPT !.at = Judged(t.allowed), !.claimed = TRUE]
            /\ t.at = "claim" /\ t.key \notin claims
            /\ \A p \in Deliveries : ~(tx[p].claimed /\ tx[p].key = t.key)
        BY <2>0, <2>2 DEF Claim
      <3>2. Judged(t.allowed) \in {"write", "answer"}
        BY DEF Judged
      <3>3. /\ tx'[q] \in Request /\ tx'[q].at \in {"write", "answer"}
            /\ tx'[q].key = t.key /\ tx'[q].rec = t.rec
        BY <2>0, <3>1, <3>2 DEF Request
      <3> QED
        BY <2>0, <3>1, <3>3
    <2>3. CASE Duplicate(q)
      BY <2>0, <2>3 DEF Duplicate, Request
    <2>4. CASE Write(q)
      BY <2>0, <2>4 DEF Write, Request
    <2>5. CASE Abort(q)
      <3>1. tx'[q] = Ended /\ Ended \in Request
        BY <2>0, <2>5, EndedType DEF Abort, End
      <3> QED
        BY <3>1 DEF Ended, Unsent
    <2> QED
      BY <2>1, <2>2, <2>3, <2>4, <2>5
  <1>3. TypeOK'
    BY <1>1, <1>2 DEF TypeOK
  <1>4. Busy'
    BY <1>1, <1>2 DEF Busy
  <1>5. ClaimedOnce'
    <2> SUFFICES ASSUME NEW p \in Deliveries, tx'[p].claimed
                 PROVE  /\ tx'[p].key \in Keys \ claims
                        /\ \A o \in Deliveries \ {p} :
                              tx'[o].claimed => tx'[o].key # tx'[p].key
      BY <1>1 DEF ClaimedOnce
    <2>1. CASE p = q
      BY <1>1, <1>2, <2>1
    <2>2. CASE p # q
      BY <1>1, <1>2, <2>2 DEF ClaimedOnce
    <2> QED
      BY <2>1, <2>2
  <1>6. SweepsFresh' /\ KeySettledOnce' /\ OncePerDay'
    BY <1>1 DEF SweepsFresh, KeySettledOnce, OncePerDay
  <1> QED
    BY <1>3, <1>4, <1>5, <1>6

\* The commit of a request spends its key, if it holds one, and settles it
\* one way or the other.
LEMMA CommitIInv ==
  ASSUME IInv, NEW q \in Deliveries, Commit(q) PROVE IInv'
  <1> USE DEF IInv
  <1> DEFINE k == tx[q].key
             r == tx[q].rec
  <1>0. /\ tx \in [Deliveries -> Request]
        /\ r \in Records /\ tx[q].day \in Days
        /\ tx[q].claimed => k \in Keys \ claims
        /\ tx[q].claimed \in BOOLEAN /\ tx[q].wrote \in BOOLEAN
    BY DEF TypeOK, Busy, ClaimedOnce, Commit, Request
  <1>1. /\ UNCHANGED <<event, clock, swept, sweep, faults>>
        /\ tx' = [tx EXCEPT ![q] = Ended]
        /\ claims' = IF tx[q].claimed THEN claims \cup {k} ELSE claims
        /\ fired' = IF tx[q].claimed /\ tx[q].wrote
                    THEN [fired EXCEPT ![k] = @ + 1] ELSE fired
        /\ refused' = IF tx[q].claimed /\ ~tx[q].wrote
                      THEN [refused EXCEPT ![k] = @ + 1] ELSE refused
        /\ row' = IF tx[q].wrote THEN [row EXCEPT ![r] = "fired"] ELSE row
        /\ hooked' = IF tx[q].wrote
                     THEN [hooked EXCEPT ![r] = @ \cup {tx[q].day}] ELSE hooked
    BY DEF Commit, End
  <1>2. Ended \in Request
    BY EndedType
  <1>3. TypeOK'
    <2>1. claims' \subseteq Keys /\ tx' \in [Deliveries -> Request]
      BY <1>0, <1>1, <1>2 DEF TypeOK
    <2>2. fired' \in [Keys -> Nat] /\ refused' \in [Keys -> Nat]
      BY <1>0, <1>1 DEF TypeOK
    <2>3. row' \in [Records -> RowStates] /\ hooked' \in [Records -> SUBSET Days]
      BY <1>0, <1>1 DEF TypeOK, RowStates
    <2> QED
      BY <1>1, <2>1, <2>2, <2>3 DEF TypeOK
  <1>4. Busy'
    BY <1>0, <1>1 DEF Busy, Ended, Unsent
  <1>5. ClaimedOnce'
    BY <1>0, <1>1 DEF ClaimedOnce, Ended, Unsent
  <1>6. KeySettledOnce'
    <2> SUFFICES ASSUME NEW j \in Keys
                 PROVE  fired'[j] + refused'[j] = IF j \in claims' THEN 1 ELSE 0
      BY DEF KeySettledOnce
    <2>0. /\ fired \in [Keys -> Nat] /\ refused \in [Keys -> Nat]
          /\ fired[j] + refused[j] = IF j \in claims THEN 1 ELSE 0
      BY DEF TypeOK, KeySettledOnce
    <2>1. CASE tx[q].claimed /\ j = k
      <3>1. j \notin claims /\ j \in claims'
        BY <1>0, <1>1, <2>1
      <3>2. fired'[j] + refused'[j] = fired[j] + refused[j] + 1
        BY <1>0, <1>1, <2>0, <2>1
      <3> QED
        BY <2>0, <3>1, <3>2
    <2>2. CASE ~(tx[q].claimed /\ j = k)
      <3>1. fired'[j] = fired[j] /\ refused'[j] = refused[j]
        BY <1>1, <2>0, <2>2
      <3>2. j \in claims' <=> j \in claims
        BY <1>1, <2>2
      <3> QED
        BY <2>0, <3>1, <3>2
    <2> QED
      BY <2>1, <2>2
  <1>7. SweepsFresh' /\ OncePerDay'
    BY <1>1 DEF SweepsFresh, OncePerDay
  <1> QED
    BY <1>3, <1>4, <1>5, <1>6, <1>7

\* A sweep takes up only records without an audit row of its day.
LEMMA SweepIInv ==
  ASSUME IInv,
         \/ SweepBegin \/ SweepList \/ SweepFire \/ SweepLost
         \/ \E r \in Records : SweepSkip(r) \/ SweepCheck(r)
  PROVE  IInv'
  <1> USE DEF IInv
  <1>1. UNCHANGED <<event, clock, row, claims, fired, refused, hooked, swept, tx>>
    BY DEF SweepBegin, SweepList, SweepFire, SweepLost, SweepSkip, SweepCheck,
           database
  <1>2. faults' \in 0 .. MaxFaults
    <2>1. faults \in 0 .. MaxFaults /\ MaxFaults \in Nat
      BY EventSourcesAssumption DEF TypeOK
    <2>2. faults' = faults \/ (faults < MaxFaults /\ faults' = faults + 1)
      BY DEF SweepBegin, SweepList, SweepFire, SweepLost, SweepSkip, SweepCheck,
             Fault
    <2> QED
      BY <2>1, <2>2
  <1>3. /\ sweep' \in Sweep
        /\ sweep'.at = "fire" <=> sweep'.rec # None
        /\ \A r \in sweep'.wrote : swept[r][sweep'.start] = 0
        /\ sweep'.at = "fire" => swept[sweep'.rec][sweep'.start] = 0
    <2>0. /\ sweep \in Sweep
          /\ sweep.at = "fire" <=> sweep.rec # None
          /\ \A r \in sweep.wrote : swept[r][sweep.start] = 0
          /\ sweep.at = "fire" => swept[sweep.rec][sweep.start] = 0
          /\ None \notin Records
          /\ swept \in [Records -> [Days -> Nat]]
      BY EventSourcesAssumption DEF TypeOK, SweepsFresh
    <2>1. CASE SweepBegin
      <3>1. LocalDay(clock) \in Days
        BY LocalDayType
      <3> QED
        BY <2>1, <3>1 DEF SweepBegin, Resting, Sweep
    <2>2. CASE SweepList
      <3>1. {r \in DueAt(clock) : Condition(r)} \subseteq Records
        BY DEF DueAt
      <3> QED
        BY <2>0, <2>2, <3>1 DEF SweepList, Sweep
    <2>3. CASE SweepFire
      <3>1. sweep.rec \in Records
        BY <2>0, <2>3 DEF SweepFire, Sweep
      <3> QED
        BY <2>0, <2>3, <3>1 DEF SweepFire, Sweep
    <2>4. CASE SweepLost
      <3>1. 0 \in Days
        BY EventSourcesAssumption DEF Days, LocalDay
      <3> QED
        BY <2>4, <3>1 DEF SweepLost, Resting, Sweep
    <2>5. CASE \E r \in Records : SweepSkip(r)
      BY <2>0, <2>5 DEF SweepSkip, Sweep
    <2>6. CASE \E r \in Records : SweepCheck(r)
      <3>1. PICK r \in Records : SweepCheck(r)
        BY <2>6
      <3>2. swept[r][sweep.start] \in Nat
        BY <2>0 DEF Sweep
      <3>3. ~(swept[r][sweep.start] > 0)
        BY <3>1 DEF SweepCheck, FiredToday
      <3>4. swept[r][sweep.start] = 0
        BY <3>2, <3>3
      <3> QED
        BY <2>0, <3>1, <3>4 DEF SweepCheck, Sweep
    <2> QED
      BY <2>1, <2>2, <2>3, <2>4, <2>5, <2>6
  <1>4. TypeOK' /\ SweepsFresh'
    BY <1>1, <1>2, <1>3 DEF TypeOK, SweepsFresh
  <1>5. Busy' /\ ClaimedOnce' /\ KeySettledOnce' /\ OncePerDay'
    BY <1>1 DEF Busy, ClaimedOnce, KeySettledOnce, OncePerDay
  <1> QED
    BY <1>4, <1>5

\* The commit of a sweep adds the first audit row of its day.
LEMMA SweepCommitIInv ==
  ASSUME IInv, SweepCommit PROVE IInv'
  <1> USE DEF IInv
  <1>0. sweep \in Sweep /\ swept \in [Records -> [Days -> Nat]]
    BY DEF TypeOK
  <1>1. /\ UNCHANGED <<event, clock, claims, fired, refused, hooked, tx, faults>>
        /\ sweep' = Resting
        /\ row' = [r \in Records |-> IF r \in sweep.wrote THEN "fired" ELSE row[r]]
        /\ swept' = [r \in Records |->
                       IF r \in sweep.wrote
                       THEN [swept[r] EXCEPT ![sweep.start] = @ + 1]
                       ELSE swept[r]]
    BY DEF SweepCommit
  <1>2. OncePerDay'
    <2> SUFFICES ASSUME NEW r \in Records, NEW d \in Days PROVE swept'[r][d] <= 1
      BY DEF OncePerDay
    <2>1. swept[r][d] <= 1 /\ swept[r][d] \in Nat
      BY <1>0 DEF OncePerDay
    <2>2. CASE r \in sweep.wrote /\ d = sweep.start
      <3>1. swept[r][d] = 0
        BY <2>2 DEF SweepsFresh
      <3>2. swept'[r][d] = swept[r][d] + 1
        BY <1>0, <1>1, <2>2
      <3> QED
        BY <3>1, <3>2
    <2>3. CASE ~(r \in sweep.wrote /\ d = sweep.start)
      <3>1. swept'[r][d] = swept[r][d]
        BY <1>0, <1>1, <2>3
      <3> QED
        BY <2>1, <3>1
    <2> QED
      BY <2>2, <2>3
  <1>3. TypeOK'
    <2>1. sweep' \in Sweep /\ (sweep'.at = "fire" <=> sweep'.rec # None)
      BY <1>1, EventSourcesAssumption DEF Resting, Sweep, Days, LocalDay
    <2>2. row' \in [Records -> RowStates]
      BY <1>1 DEF TypeOK, RowStates
    <2>3. swept' \in [Records -> [Days -> Nat]]
      <3> SUFFICES ASSUME NEW r \in Records PROVE swept'[r] \in [Days -> Nat]
        BY <1>1
      <3>1. sweep.start \in Days /\ swept[r] \in [Days -> Nat]
        BY <1>0 DEF Sweep
      <3> QED
        BY <1>1, <3>1
    <2> QED
      BY <1>1, <2>1, <2>2, <2>3 DEF TypeOK
  <1>4. SweepsFresh'
    BY <1>1 DEF SweepsFresh, Resting
  <1>5. Busy' /\ ClaimedOnce' /\ KeySettledOnce'
    BY <1>1 DEF Busy, ClaimedOnce, KeySettledOnce
  <1> QED
    BY <1>2, <1>3, <1>4, <1>5

\* Time passes.
LEMMA TickIInv ==
  ASSUME IInv, Tick PROVE IInv'
  <1> USE DEF IInv, Tick, database
  <1>1. clock' \in 0 .. LastTick
    BY EventSourcesAssumption DEF TypeOK
  <1>2. TypeOK'
    BY <1>1 DEF TypeOK
  <1>3. Busy' /\ ClaimedOnce' /\ SweepsFresh'
    BY DEF Busy, ClaimedOnce, SweepsFresh
  <1>4. KeySettledOnce' /\ OncePerDay'
    BY DEF KeySettledOnce, OncePerDay
  <1> QED
    BY <1>2, <1>3, <1>4

\* The inductive invariant is one.
LEMMA NextIInv == IInv /\ [Next]_vars => IInv'
  <1> SUFFICES ASSUME IInv, [Next]_vars PROVE IInv'
    OBVIOUS
  <1>1. CASE \E q \in Deliveries : Arrive(q) \/ Handle(q) \/ Abort(q)
    BY <1>1, RequestIInv, CommitIInv DEF Handle
  <1>2. CASE Proceed \/ SweepLost
    BY <1>2, SweepIInv, SweepCommitIInv DEF Proceed
  <1>3. CASE Tick
    BY <1>3, TickIInv
  <1>4. CASE UNCHANGED vars
    <2> USE <1>4 DEF vars
    <2>1. TypeOK' /\ Busy' /\ ClaimedOnce'
      BY DEF IInv, TypeOK, Busy, ClaimedOnce
    <2>2. SweepsFresh' /\ KeySettledOnce' /\ OncePerDay'
      BY DEF IInv, SweepsFresh, KeySettledOnce, OncePerDay
    <2> QED
      BY <2>1, <2>2 DEF IInv
  <1> QED
    BY <1>1, <1>2, <1>3, <1>4 DEF Next

LEMMA Invariance == Spec => []IInv
  BY InitIInv, NextIInv, PTL DEF Spec

-----------------------------------------------------------------------------

\* Type correctness.
THEOREM TypeCorrect == Spec => []TypeOK
  <1>1. IInv => TypeOK
    BY DEF IInv
  <1> QED
    BY <1>1, Invariance, PTL

\* A webhook key is spent by exactly one committed delivery, which has fired
\* the event or been refused, however deliveries overlap, fail and are
\* repeated.
THEOREM KeysSettleOnce == Spec => []KeySettledOnce
  <1>1. IInv => KeySettledOnce
    BY DEF IInv
  <1> QED
    BY <1>1, Invariance, PTL

\* The scheduler fires no record twice on one day of the database, in any time
\* zone and however long its sweeps take.
THEOREM SweepsFireOncePerDay == Spec => []OncePerDay
  <1>1. IInv => OncePerDay
    BY DEF IInv
  <1> QED
    BY <1>1, Invariance, PTL

=============================================================================
