------------------------------ MODULE MCApproval ------------------------------
(***************************************************************************)
(* Small instances of Approval for TLC.                                    *)
(***************************************************************************)
EXTENDS Approval, TLC

CONSTANTS s1, s2, s3  \* three step ids

\* s1 precedes s2, which precedes s3; forms submit 1 or 5 as well.
MCSequence == [s \in Initial |-> CASE s = s1 -> 2 [] s = s2 -> 4 [] s = s3 -> 6]

\* Requests differ in nothing but what they choose to do.
RequestSymmetry == Permutations(Requests)

=============================================================================
