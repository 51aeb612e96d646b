------------------------------- MODULE MCOutbox -------------------------------
(***************************************************************************)
(* What requests and dispatchers have begun ends: queued rows are settled, *)
(* and requests on a document and its steps, which take row locks in both  *)
(* orders, are answered.  The two parts share no variable, so each         *)
(* behaviour exercises one of them (focus).                                *)
(***************************************************************************)
EXTENDS Outbox, TLC

CONSTANTS s1, s2, Doc

VARIABLES focus, step, doc, audit, lock, tx, reordered

approval == <<step, doc, audit, lock, tx, reordered>>

\* A document all of whose steps must approve.
A == INSTANCE Approval WITH
        Steps <- {s1, s2}, Initial <- {s1, s2},
        Sequence <- [s \in {s1, s2} |-> IF s = s1 THEN 2 ELSE 4],
        Sequences <- {1}, MinApprovals <- 0, MaxOpen <- 2

Starts ==
    /\ Init /\ A!Init
    /\ focus \in {"outbox", "approval"}
    /\ focus = "outbox" => doc = A!NewDoc("Draft", "Parallel")

Steps ==
    /\ UNCHANGED focus
    /\ \/ focus = "outbox"   /\ Next   /\ UNCHANGED approval
       \/ focus = "approval" /\ A!Next /\ UNCHANGED vars

\* The ticker cannot go on while the behaviour does not exercise it.
Exercised(Action) == focus = "outbox" /\ Action

AllEnds ==
    /\ Starts /\ [][Steps]_<<vars, approval, focus>>
    /\ \A d \in Dispatchers : WF_vars(Exercised(Proceed(d)))
    /\ A!Fairness

EveryRequestEnds == A!EveryRequestEnds
=============================================================================
