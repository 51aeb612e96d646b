------------------------------- MODULE Store -------------------------------
(***************************************************************************)
(* The three parts of the record store side by side: what forms write      *)
(* (Records), the order and lanes of a board (Ordering), and rules across  *)
(* records (Ledger).  They share no row, so a step is one of theirs.       *)
(***************************************************************************)
EXTENDS Records

CONSTANTS Cards, Lanes, Settings, MaxOrder,             \* of Ordering
          Periods, Entries, Lines, Postings, Amounts    \* of Ledger

VARIABLES row, move, setting, open, entry, line, post, posting

ordering == <<row, move, setting>>
ledger   == <<open, entry, line, post, posting>>

O == INSTANCE Ordering WITH Records <- Cards, tx <- move

L == INSTANCE Ledger WITH Overlap <- Postings, tx <- post, overlap <- posting

ASSUME BoardAssumption ==
    /\ IsFiniteSet(Cards) /\ Cards # {} /\ Lanes # {}
    /\ Settings \subseteq [overlap : BOOLEAN, board : BOOLEAN]
    /\ MaxOrder \in Nat /\ Cardinality(Cards) <= MaxOrder

StoreSpec ==
    /\ Init /\ O!Init /\ L!Init
    /\ [][\/ Next   /\ UNCHANGED <<ordering, ledger>>
          \/ O!Next /\ UNCHANGED <<vars, ledger>>
          \/ L!Next /\ UNCHANGED <<vars, ordering>>]_<<vars, ordering, ledger>>

\* Moves trade positions and invent none; one at a time they keep them distinct.
OrdersTraded == O!OrdersTraded

\* A card dropped on a lane is its last, when drops do not overlap.
AppendedAtEnd == O!AppendedAtEnd

\* An entry is posted balanced and in an open period, when requests do not overlap.
PostedWithinRules == L!PostedWithinRules
=============================================================================
