------------------------------- MODULE MCStore ------------------------------
(***************************************************************************)
(* One run for the three parts of the record store: each behaviour         *)
(* exercises one of them (focus) and leaves the other two in one initial   *)
(* state, because their product would say nothing more.                    *)
(***************************************************************************)
EXTENDS Store, TLC

CONSTANTS r1, r2, p1, p2, c1, c2, e1, l1, l2, g1, g2, k1, k2, k3

\* Requests overlap on the list that is ordered by hand, not on the board.
MCSettings == [overlap : {FALSE}, board : BOOLEAN] \cup [overlap : {TRUE}, board : {FALSE}]

MCAmounts == 0..1

VARIABLE focus

\* A status written past its events is looked at in requests one at a time.
Starts ==
    /\ Init /\ O!Init /\ L!Init
    /\ focus \in {"records", "ordering", "ledger"}
    /\ focus # "records"  => overlap
    /\ overlap            => ~steered
    /\ ~setting.board => \A k \in Cards : row[k].lane = g1
    /\ focus # "ledger"   => entry = [e \in Entries |-> [posted |-> FALSE, period |-> p1]]
    /\ focus # "ordering" => /\ setting = [overlap |-> TRUE, board |-> FALSE]
                             /\ row = (k1 :> [order |-> 1, lane |-> g1])
                                   @@ (k2 :> [order |-> 2, lane |-> g1])
                                   @@ (k3 :> [order |-> 3, lane |-> g1])

Steps ==
    /\ UNCHANGED focus
    /\ \/ focus = "records"  /\ Next   /\ UNCHANGED <<ordering, ledger>>
       \/ focus = "ordering" /\ O!Next /\ UNCHANGED <<vars, ledger>>
       \/ focus = "ledger"   /\ L!Next /\ UNCHANGED <<vars, ordering>>

OneAtATime == Starts /\ [][Steps]_<<vars, ordering, ledger, focus>>

Same == Permutations(Requests)
=============================================================================
