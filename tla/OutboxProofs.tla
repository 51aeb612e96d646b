------------------------------ MODULE OutboxProofs ------------------------------
(***************************************************************************)
(* The safety properties of Outbox, and that it implements Delivery, for   *)
(* any numbers of rows, requests and dispatchers and any batch size.       *)
(***************************************************************************)
EXTENDS Outbox, FiniteSetTheorems, TLAPS

\* A dispatcher holds queued rows only, and has made effects for exactly the
\* rows it has marked completed.
Held ==
    \A d \in Dispatchers :
        /\ Batch(d) \subseteq Queued
        /\ disp[d].made = disp[d].done

\* No row is inserted twice.
InsertedOnce ==
    \A q, r \in Requests : q # r => inserted[q] \cap inserted[r] = {}

\* Rows of a request appear with its commit, and no row comes from nowhere.
Published ==
    \A i \in Items : row[i] # "none" =>
        \E r \in Requests : i \in inserted[r] /\ request[r] = "committed"

IInv ==
    /\ TypeOK /\ Held /\ InsertedOnce /\ Published
    /\ ExactlyOnce /\ NoLimbo /\ ClaimsDisjoint

\* The initial states satisfy the inductive invariant.
LEMMA InitIInv == Init => IInv
  <1> SUFFICES ASSUME Init PROVE IInv
    OBVIOUS
  <1> USE OutboxAssumption DEF Init
  <1>1. TypeOK
    BY DEF TypeOK, Tick, Asleep, RowStates
  <1>2. Held /\ ClaimsDisjoint
    BY DEF Held, ClaimsDisjoint, Batch, Asleep, Queued
  <1>3. InsertedOnce /\ Published /\ ExactlyOnce /\ NoLimbo
    BY DEF InsertedOnce, Published, ExactlyOnce, NoLimbo
  <1> QED
    BY <1>1, <1>2, <1>3 DEF IInv

\* Starting a request and inserting a row change nothing that is committed.
LEMMA OpenRequestIInv ==
  ASSUME IInv, NEW r \in Requests,
         Begin(r) \/ AbortRequest(r) \/ \E i \in Items : Enqueue(r, i)
  PROVE  IInv'
  <1> USE DEF IInv
  <1>1. UNCHANGED <<row, effects, disp, faults>>
    BY DEF Begin, AbortRequest, Enqueue
  <1>2. Held' /\ ExactlyOnce' /\ NoLimbo' /\ ClaimsDisjoint'
    BY <1>1 DEF Held, ExactlyOnce, NoLimbo, ClaimsDisjoint, Batch, Queued
  <1>3. TypeOK'
    <2>1. CASE Begin(r)
      <3>1. Cardinality(Begun) + 1 \in Nat
        BY OutboxAssumption, FS_Subset, FS_CardinalityType DEF Begun
      <3> QED
        BY <1>1, <2>1, <3>1 DEF Begin, TypeOK, Tick, Asleep
    <2>2. CASE AbortRequest(r)
      BY <1>1, <2>2 DEF AbortRequest, TypeOK, Tick, Asleep
    <2>3. CASE \E i \in Items : Enqueue(r, i)
      BY <1>1, <2>3 DEF Enqueue, TypeOK, Tick, Asleep
    <2> QED
      BY <2>1, <2>2, <2>3
  <1>4. InsertedOnce'
    BY DEF InsertedOnce, TypeOK, Begin, AbortRequest, Enqueue
  <1>5. Published'
    BY DEF Published, TypeOK, Begin, AbortRequest, Enqueue
  <1> QED
    BY <1>2, <1>3, <1>4, <1>5

\* Committing a request queues its rows, which no dispatcher can hold yet.
LEMMA CommitRequestIInv ==
  ASSUME IInv, NEW r \in Requests, CommitRequest(r) PROVE IInv'
  <1> USE DEF IInv, CommitRequest
  <1>1. \A i \in inserted[r] : row[i] = "none"
    BY DEF Published, InsertedOnce, TypeOK
  <1>2. Queued \subseteq Queued' /\ UNCHANGED disp
    BY DEF Queued, TypeOK
  <1>3. TypeOK'
    BY DEF TypeOK, RowStates, Tick, Asleep
  <1>4. Held' /\ ClaimsDisjoint'
    BY <1>2 DEF Held, ClaimsDisjoint, Batch
  <1>5. InsertedOnce' /\ Published'
    BY DEF InsertedOnce, Published, TypeOK
  <1>6. ExactlyOnce' /\ NoLimbo'
    BY <1>1 DEF ExactlyOnce, NoLimbo, TypeOK
  <1> QED
    BY <1>3, <1>4, <1>5, <1>6

\* A step inside a tick changes one dispatcher's state, and its rows stay
\* queued: they are those it held or, when it claims, free ones.
LEMMA TickIInv ==
  ASSUME IInv, NEW d \in Dispatchers,
         \/ Claim(d) \/ Dispatch(d) \/ MarkCompleted(d) \/ MarkFailed(d)
         \/ StatementFails(d) \/ RollBackTick(d) \/ Crash(d)
  PROVE  IInv'
  <1> USE DEF IInv
  <1>1. /\ UNCHANGED <<request, inserted, stamp, row, effects>>
        /\ DOMAIN disp' = Dispatchers
        /\ disp' = [disp EXCEPT ![d] = disp'[d]]
        /\ \A c \in Dispatchers \ {d} : disp'[c] = disp[c]
    BY DEF Claim, Dispatch, MarkCompleted, MarkFailed, StatementFails,
           RollBackTick, Crash, TypeOK
  <1>2. InsertedOnce' /\ Published' /\ ExactlyOnce' /\ NoLimbo'
    BY <1>1 DEF InsertedOnce, Published, ExactlyOnce, NoLimbo
  <1>3. faults' \in 0 .. MaxFaults
    <2>1. faults \in 0 .. MaxFaults /\ MaxFaults \in Nat
      BY OutboxAssumption DEF TypeOK
    <2>2. faults' = faults \/ (faults < MaxFaults /\ faults' = faults + 1)
      BY DEF Claim, Dispatch, MarkCompleted, MarkFailed, StatementFails,
             RollBackTick, Crash, Fault
    <2> QED
      BY <2>1, <2>2
  <1>4. /\ disp'[d] \in Tick
        /\ disp'[d].at = "mark" <=> disp'[d].item # None
        /\ disp'[d].at = "idle" => disp'[d] = Asleep
        /\ Batch(d)' \subseteq Batch(d) \cup Free
        /\ disp'[d].made = disp'[d].done
    <2> DEFINE t == disp[d]
    <2>0. /\ disp \in [Dispatchers -> Tick] /\ t \in Tick
          /\ t.at = "mark" <=> t.item # None
          /\ t.at = "idle" => t = Asleep
          /\ t.made = t.done
          /\ None \notin Items
      BY OutboxAssumption DEF TypeOK, Held
    <2>1. CASE Claim(d)
      <3>1. PICK B \in SUBSET Free :
              disp'[d] = [Asleep EXCEPT !.at = "items", !.todo = B]
        BY <2>0, <2>1 DEF Claim
      <3>2. Free \subseteq Items
        BY DEF Free, Queued
      <3> QED
        BY <3>1, <3>2 DEF Tick, Asleep, Batch
    <2>2. CASE Dispatch(d)
      <3>1. PICK i \in t.todo, ok \in BOOLEAN :
              disp'[d] = [t EXCEPT !.at = "mark", !.item = i, !.ok = ok,
                                   !.todo = @ \ {i}]
        BY <2>0, <2>2 DEF Dispatch
      <3>2. t.todo \subseteq Items
        BY <2>0 DEF Tick
      <3>3. disp'[d] \in Tick
        BY <2>0, <3>1, <3>2 DEF Tick
      <3>4. /\ disp'[d].at = "mark" /\ disp'[d].item = i
            /\ disp'[d].todo = t.todo \ {i} /\ disp'[d].made = t.made
            /\ disp'[d].done = t.done /\ disp'[d].failed = t.failed
        BY <2>0, <3>1 DEF Tick
      <3> QED
        BY <2>0, <3>2, <3>3, <3>4 DEF Batch
    <2>3. CASE MarkCompleted(d)
      BY <2>0, <2>3 DEF MarkCompleted, Tick, Batch
    <2>4. CASE MarkFailed(d)
      BY <2>0, <2>4 DEF MarkFailed, Tick, Batch
    <2>5. CASE StatementFails(d)
      BY <2>0, <2>5 DEF StatementFails, Tick, Batch
    <2>6. CASE RollBackTick(d) \/ Crash(d)
      <3>1. disp'[d] = Asleep
        BY <2>0, <2>6 DEF RollBackTick, Crash
      <3> QED
        BY <3>1 DEF Tick, Asleep, Batch
    <2> QED
      BY <2>1, <2>2, <2>3, <2>4, <2>5, <2>6
  <1>5. TypeOK'
    BY <1>1, <1>3, <1>4 DEF TypeOK
  <1>6. \A c \in Dispatchers \ {d} : Batch(c)' = Batch(c)
    BY <1>1 DEF Batch
  <1>7. Held'
    BY <1>1, <1>4, <1>6 DEF Held, Free, Queued
  <1>8. ClaimsDisjoint'
    BY <1>4, <1>6 DEF ClaimsDisjoint, Free
  <1> QED
    BY <1>2, <1>5, <1>7, <1>8

\* A tick that commits has marked every row it claimed.
LEMMA CommitTickBatch ==
  ASSUME IInv, NEW d \in Dispatchers, CommitTick(d)
  PROVE  /\ Batch(d) = disp[d].done \cup disp[d].failed
         /\ Batch(d)' = {}
         /\ \A c \in Dispatchers \ {d} : Batch(c)' = Batch(c)
         /\ \A i \in Items : row'[i] = IF i \in disp[d].done THEN "completed"
                              ELSE IF i \in disp[d].failed THEN "failed" ELSE row[i]
  <1> USE DEF IInv, CommitTick
  <1>1. disp[d].item = None
    BY DEF TypeOK
  <1>2. Batch(d) = disp[d].done \cup disp[d].failed
    BY <1>1 DEF Batch
  <1>3. \A i \in Items : row'[i] = After(d, i)
    BY DEF TypeOK
  <1>4. disp'[d] = Asleep /\ \A c \in Dispatchers \ {d} : disp'[c] = disp[c]
    BY DEF TypeOK
  <1>5. Batch(d)' = {} /\ \A c \in Dispatchers \ {d} : Batch(c)' = Batch(c)
    BY <1>4 DEF Batch, Asleep
  <1>6. \A i \in Items : After(d, i) =
                           IF i \in disp[d].done THEN "completed"
                           ELSE IF i \in disp[d].failed THEN "failed" ELSE row[i]
    BY <1>2 DEF After
  <1> QED
    BY <1>2, <1>3, <1>5, <1>6

\* The commit of a tick turns queued rows into settled ones.
LEMMA CommitTickIInv ==
  ASSUME IInv, NEW d \in Dispatchers, CommitTick(d) PROVE IInv'
  <1> USE CommitTickBatch DEF IInv
  <1>1. TypeOK'
    <2>1. disp' \in [Dispatchers -> Tick] /\ effects' \in [Items -> Nat]
      BY OutboxAssumption DEF CommitTick, TypeOK, Tick, Asleep
    <2>2. row' \in [Items -> RowStates]
      BY DEF CommitTick, TypeOK, RowStates, After
    <2> QED
      BY <2>1, <2>2 DEF CommitTick, TypeOK, Asleep
  <1>2. \A c \in Dispatchers \ {d} : Batch(c) \cap Batch(d) = {}
    BY DEF ClaimsDisjoint
  <1>3. Held'
    <2>1. disp'[d].made = disp'[d].done
      BY DEF CommitTick, TypeOK, Asleep
    <2>2. \A c \in Dispatchers \ {d} : disp'[c] = disp[c]
      BY DEF CommitTick, TypeOK
    <2>3. \A c \in Dispatchers \ {d} : Batch(c)' \subseteq Queued'
      BY <1>2 DEF Held, Queued
    <2> QED
      BY <2>1, <2>2, <2>3 DEF Held
  <1>4. ClaimsDisjoint'
    BY DEF ClaimsDisjoint
  <1>5. InsertedOnce' /\ Published'
    <2>1. \A i \in Items : row'[i] # "none" => row[i] # "none"
      BY DEF Held, Queued
    <2> QED
      BY <2>1 DEF InsertedOnce, Published, CommitTick
  <1>6. NoLimbo'
    BY DEF NoLimbo
  <1>7. ExactlyOnce'
    <2> SUFFICES ASSUME NEW i \in Items
                 PROVE  effects'[i] = IF row'[i] = "completed" THEN 1 ELSE 0
      BY DEF ExactlyOnce
    <2>1. effects'[i] = IF i \in disp[d].done THEN effects[i] + 1 ELSE effects[i]
      BY DEF CommitTick, TypeOK, Held
    <2>2. i \in Batch(d) => row[i] = "queued"
      BY DEF Held, Queued
    <2> QED
      BY <2>1, <2>2 DEF ExactlyOnce
  <1> QED
    BY <1>1, <1>3, <1>4, <1>5, <1>6, <1>7

\* The inductive invariant, for every step.
LEMMA StepIInv == IInv /\ [Next]_vars => IInv'
  <1> SUFFICES ASSUME IInv, [Next]_vars PROVE IInv'
    OBVIOUS
  <1>1. CASE UNCHANGED vars
    <2> USE <1>1 DEF vars, IInv
    <2>1. TypeOK'
      BY DEF TypeOK
    <2>2. Held' /\ ClaimsDisjoint'
      BY DEF Held, ClaimsDisjoint, Batch, Queued
    <2>3. InsertedOnce' /\ Published' /\ ExactlyOnce' /\ NoLimbo'
      BY DEF InsertedOnce, Published, ExactlyOnce, NoLimbo
    <2> QED
      BY <2>1, <2>2, <2>3
  <1>2. CASE \E r \in Requests : Produce(r)
    BY <1>2, OpenRequestIInv, CommitRequestIInv DEF Produce
  <1>3. CASE \E d \in Dispatchers : Proceed(d) \/ StatementFails(d) \/ Crash(d)
    BY <1>3, TickIInv, CommitTickIInv DEF Proceed
  <1> QED
    BY <1>1, <1>2, <1>3 DEF Next

LEMMA Invariance == Spec => []IInv
  BY InitIInv, StepIInv, PTL DEF Spec

\* Every reachable state of every instance is well typed.
THEOREM TypeCorrect == Spec => []TypeOK
  <1>1. IInv => TypeOK
    BY DEF IInv
  <1> QED
    BY Invariance, <1>1, PTL

\* However ticks, savepoints and crashes interleave, the notification or
\* record of a row exists once if the row completed and not at all otherwise.
THEOREM DeliveredExactlyOnce == Spec => []ExactlyOnce
  <1>1. IInv => ExactlyOnce
    BY DEF IInv
  <1> QED
    BY Invariance, <1>1, PTL

\* No committed row is claimed and left without an outcome.
THEOREM NothingInLimbo == Spec => []NoLimbo
  <1>1. IInv => NoLimbo
    BY DEF IInv
  <1> QED
    BY Invariance, <1>1, PTL

\* No two dispatchers hold the same row.
THEOREM NeverClaimedTwice == Spec => []ClaimsDisjoint
  <1>1. IInv => ClaimsDisjoint
    BY DEF IInv
  <1> QED
    BY Invariance, <1>1, PTL

\* Effects stem from committed requests only.
THEOREM DeliveredForCommitted == Spec => []OnlyCommitted
  <1>1. IInv => OnlyCommitted
    <2> SUFFICES ASSUME IInv, NEW r \in Requests, NEW i \in inserted[r], effects[i] > 0
                 PROVE  request[r] = "committed"
      BY DEF OnlyCommitted
    <2>1. i \in Items /\ row[i] = "completed"
      BY DEF IInv, TypeOK, ExactlyOnce
    <2> QED
      BY <2>1 DEF IInv, Published, InsertedOnce, TypeOK
  <1> QED
    BY Invariance, <1>1, PTL

-----------------------------------------------------------------------------
(* Refinement. *)

GivenUp == {i \in Items : row[i] = "failed"}

\* The commit of a request publishes its rows.
LEMMA CommitRequestPublishes ==
  ASSUME IInv, NEW r \in Requests, CommitRequest(r)
  PROVE  AsDelivery!Publish(inserted[r])
  <1> USE DEF IInv, CommitRequest
  <1>1. inserted[r] \subseteq Items /\ \A i \in inserted[r] : row[i] = "none"
    BY DEF Published, InsertedOnce, TypeOK
  <1>2. inserted[r] \subseteq AsDelivery!Fresh
    BY <1>1 DEF AsDelivery!Fresh, Queued, ExactlyOnce
  <1>3. \A i \in Items : row'[i] = IF i \in inserted[r] THEN "queued" ELSE row[i]
    OBVIOUS
  <1>4. Queued' = Queued \cup inserted[r] /\ GivenUp' = GivenUp
    BY <1>1, <1>3 DEF Queued, GivenUp
  <1> QED
    BY <1>2, <1>4 DEF AsDelivery!Publish, GivenUp

\* The commit of a tick settles the rows it marked.
LEMMA CommitTickSettles ==
  ASSUME IInv, NEW d \in Dispatchers, CommitTick(d)
  PROVE  AsDelivery!Next
  <1> DEFINE D == disp[d].done
             F == disp[d].failed \ disp[d].done
  <1> USE DEF IInv
  <1>1. D \cup F \subseteq Queued /\ D \cap F = {}
    BY CommitTickBatch DEF Held
  <1>2. \A i \in Items : row'[i] = IF i \in D THEN "completed"
                                   ELSE IF i \in F THEN "failed" ELSE row[i]
    BY CommitTickBatch
  <1>3. Queued' = Queued \ (D \cup F) /\ GivenUp' = GivenUp \cup F
    BY <1>1, <1>2 DEF Queued, GivenUp
  <1>4. effects' = [i \in Items |-> IF i \in D THEN effects[i] + 1 ELSE effects[i]]
    BY DEF CommitTick, Held
  <1>5. D \in SUBSET Items /\ F \in SUBSET Items
    BY <1>1 DEF Queued
  <1>6. PICK X \in SUBSET Items, Y \in SUBSET Items : X = D /\ Y = F
    BY <1>5
  <1>7. AsDelivery!Settle(X, Y)
    BY <1>1, <1>3, <1>4, <1>6 DEF AsDelivery!Settle, GivenUp
  <1> QED
    BY <1>7, Zenon DEF AsDelivery!Next

\* The dispatcher loop, its savepoints, faults and the requests implement the
\* abstract delivery: every behaviour of theirs is one of Delivery's, seen
\* through the committed rows.
THEOREM DeliveryImplemented == Spec => ImplementsDelivery
  <1>1. Init => AsDelivery!Init
    BY DEF Init, AsDelivery!Init, Queued
  <1>2. IInv /\ [Next]_vars => [AsDelivery!Next]_(AsDelivery!vars)
    <2> SUFFICES ASSUME IInv, [Next]_vars,
                        ~ UNCHANGED <<row, effects>>
                 PROVE  AsDelivery!Next
      BY DEF AsDelivery!vars, Queued
    <2>1. \/ \E r \in Requests : CommitRequest(r)
          \/ \E d \in Dispatchers : CommitTick(d)
      BY DEF Next, Produce, Proceed, vars, Begin, Enqueue, AbortRequest, Claim,
             Dispatch, MarkCompleted, MarkFailed, StatementFails, RollBackTick, Crash
    <2>2. CASE \E r \in Requests : CommitRequest(r)
      <3>1. PICK r \in Requests : CommitRequest(r)
        BY <2>2
      <3>2. inserted[r] \in SUBSET Items
        BY DEF IInv, TypeOK
      <3> QED
        BY <3>1, <3>2, CommitRequestPublishes, Zenon DEF AsDelivery!Next
    <2>3. CASE \E d \in Dispatchers : CommitTick(d)
      BY <2>3, CommitTickSettles
    <2> QED
      BY <2>1, <2>2, <2>3
  <1> QED
    BY <1>1, <1>2, Invariance, PTL DEF Spec, ImplementsDelivery, AsDelivery!Spec

=============================================================================
