-------------------------------- MODULE Verdict --------------------------------
(***************************************************************************)
(* What an approval document promises to people who act one after another: *)
(* each step is decided once, an approval may leave its signature, and the *)
(* document under review reaches its verdict with the very decision that   *)
(* settles it.  Approval implements this as long as requests do not        *)
(* overlap; its other properties say what is left when they do.            *)
(***************************************************************************)
EXTENDS Integers, FiniteSets

CONSTANTS
    Steps,      \* the steps of the document
    Threshold   \* the number of approvals that approves the document

VARIABLES approved, rejected, signed, status

vars == <<approved, rejected, signed, status>>

\* The approvals still possible once the steps in R are rejected.
Reachable(R) == Cardinality(Steps \ R)

Settle(A, R) ==
    IF status # "In Review" THEN status
    ELSE IF Cardinality(A) >= Threshold THEN "Approved"
    ELSE IF Reachable(R) < Threshold THEN "Rejected"
    ELSE status

Init ==
    /\ approved = {} /\ rejected = {} /\ signed = {}
    /\ status \in {"Draft", "In Review"}

Approve(s) ==
    /\ s \notin approved \cup rejected
    /\ approved' = approved \cup {s}
    /\ signed' \in {signed, signed \cup {s}}
    /\ status' = Settle(approved', rejected)
    /\ UNCHANGED rejected

Reject(s) ==
    /\ s \notin approved \cup rejected
    /\ rejected' = rejected \cup {s}
    /\ status' = Settle(approved, rejected')
    /\ UNCHANGED <<approved, signed>>

Submit ==
    /\ status = "Draft"
    /\ status' = "In Review"
    /\ UNCHANGED <<approved, rejected, signed>>

Withdraw ==
    /\ status = "Draft"
    /\ status' = "Withdrawn"
    /\ UNCHANGED <<approved, rejected, signed>>

Next ==
    \/ \E s \in Steps : Approve(s) \/ Reject(s)
    \/ Submit
    \/ Withdraw

Spec == Init /\ [][Next]_vars

\* A verdict cannot be regretted: an approved document has its approvals, and
\* a rejected one could not have been approved by the steps not yet decided.
Final ==
    /\ status = "Approved" => Cardinality(approved) >= Threshold
    /\ status = "Rejected" => Reachable(rejected) < Threshold

=============================================================================
