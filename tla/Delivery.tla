-------------------------------- MODULE Delivery --------------------------------
(***************************************************************************)
(* What the transactional outbox promises: a message published by a        *)
(* request is settled once, by delivering it once or by recording that it  *)
(* failed; a message nobody published is never delivered.                  *)
(***************************************************************************)
EXTENDS Integers

CONSTANT Items

VARIABLES
    pending,    \* published, not yet settled
    failed,     \* settled by giving up
    delivered   \* how often each message was delivered

vars == <<pending, failed, delivered>>

Fresh == {i \in Items : i \notin pending \cup failed /\ delivered[i] = 0}

Init ==
    /\ pending = {} /\ failed = {}
    /\ delivered = [i \in Items |-> 0]

\* A request publishes all its messages together.
Publish(S) ==
    /\ S \subseteq Fresh
    /\ pending' = pending \cup S
    /\ UNCHANGED <<failed, delivered>>

\* A batch is settled together: D delivered, F given up.
Settle(D, F) ==
    /\ D \cup F \subseteq pending /\ D \cap F = {}
    /\ pending' = pending \ (D \cup F)
    /\ failed' = failed \cup F
    /\ delivered' = [i \in Items |-> IF i \in D THEN delivered[i] + 1 ELSE delivered[i]]

Next ==
    \/ \E S \in SUBSET Items : Publish(S)
    \/ \E D, F \in SUBSET Items : Settle(D, F)

Spec == Init /\ [][Next]_vars

=============================================================================
