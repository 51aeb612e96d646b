------------------------------ MODULE MCServing -----------------------------
(***************************************************************************)
(* What has begun ends: requests that wait for a connection, deliveries    *)
(* and sweeps that wait for each other's rows.  The two parts share no     *)
(* variable, so each behaviour exercises one of them (focus).              *)
(***************************************************************************)
EXTENDS Serving

CONSTANTS home, new, app, d1, d2, q1, q2, k1, LastTick

\* The application is imported into the seeded workspace.
MCOwner == [a \in Applications |-> home]

VARIABLES focus, event, clock, row, claims, fired, refused, hooked, swept, delivery, sweep, faults

events == <<event, clock, row, claims, fired, refused, hooked, swept, delivery, sweep, faults>>

\* One record is due on the first day, the other on the last; the senders' key
\* means the first.
E == INSTANCE EventSources WITH
        Records <- {d1, d2}, Due <- [d \in {d1, d2} |-> IF d = d1 THEN 0 ELSE LastTick \div 2],
        Deliveries <- {q1, q2}, Keys <- {k1}, Target <- [k \in {k1} |-> d1],
        Offset <- 1, MaxFaults <- 1, None <- Nil, tx <- delivery

Starts ==
    /\ Init /\ E!Init
    /\ focus \in {"serving", "events"}
    /\ focus = "events"  => overlap /\ (event.guarded \/ event.schedule = "due")
    /\ focus = "serving" => event = CHOOSE e \in [guarded : {TRUE}, schedule : E!Schedules] : TRUE

Steps ==
    /\ UNCHANGED focus
    /\ \/ focus = "serving" /\ Next   /\ UNCHANGED events
       \/ focus = "events"  /\ E!Next /\ UNCHANGED vars

\* Events are fair while the behaviour exercises them; requests and ticks cannot
\* go on while it does not exercise them.
Exercised(A) == focus = "events" /\ A

AllEnds ==
    /\ Starts /\ [][Steps]_<<vars, events, focus>> /\ Fairness
    /\ \A q \in {q1, q2} : WF_events(Exercised(E!Handle(q)))
    /\ WF_events(Exercised(E!Proceed))

EveryDeliveryEnds == E!EveryDeliveryEnds
DueRecordsFire    == E!DueRecordsFire
=============================================================================
