---------------------------- MODULE MCEventSources ----------------------------
(***************************************************************************)
(* Small instances of EventSources for TLC: the first record is due on the *)
(* first day, the others on the last; the senders' keys mean the first.    *)
(***************************************************************************)
EXTENDS EventSources, TLC

CONSTANTS r1, r2

MCDue == [r \in Records |-> IF r = r1 THEN 0 ELSE Day(LastTick)]
MCTarget == [k \in Keys |-> r1]

DeliverySymmetry == Permutations(Deliveries)

=============================================================================
