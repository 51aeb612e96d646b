----------------------------- MODULE MCIdentity -----------------------------
(***************************************************************************)
(* Who people are and what they may do, in one run: each behaviour         *)
(* exercises one of the two parts (focus) and leaves the other in one      *)
(* initial state.                                                          *)
(***************************************************************************)
EXTENDS People, TLC

CONSTANTS founder, ann, ANN, home, new,   \* the identities and workspaces
          u1, u2, g1, a, b,               \* two people, a group and two roles
          Focus                           \* the parts exercised

\* Two spellings of one address: sign-up stores what was typed, invitations
\* are stored in lower case.
MCLower == [e \in Emails |-> IF e = ANN THEN ann ELSE e]

MCOffers == {<<ANN, home, "Member">>, <<founder, new, "Admin">>}

\* Both roles grant the event: one to the owner, or to the actor the record names
\* and the owner of a record that names none; the other freely or to the owner.
MCMachines == {<<p, q>> : p \in [role : {a}, events : {TRUE}, owned : {TRUE}, dynamic : BOOLEAN],
                          q \in [role : {b}, events : {TRUE}, owned : BOOLEAN, dynamic : {FALSE}]}

MCContents == {[owner |-> u1, kind |-> "unset", user |-> u1, group |-> Nil],
               [owner |-> u1, kind |-> "User",  user |-> u2, group |-> Nil],
               [owner |-> u2, kind |-> "Group", user |-> u1, group |-> g1]}

\* One person holds one role directly and may get the other from the group.
MCStarts == {[direct |-> (u1 :> a @@ u2 :> Nil), group |-> (g1 :> b)]}

VARIABLE focus

StartsHere ==
    /\ Init /\ A!Init
    /\ focus \in Focus /\ u2 \notin member[g1]
    /\ focus = "identity" => /\ overlap /\ member = (g1 :> {}) /\ record.kind = "unset"
                             /\ ~rows[1].dynamic /\ ~rows[2].owned

Steps ==
    /\ UNCHANGED focus
    /\ \/ focus = "identity" /\ Next   /\ UNCHANGED access
       \/ focus = "access"   /\ A!Next /\ UNCHANGED vars

OneAtATime == StartsHere /\ [][Steps]_<<vars, access, focus>>

Symmetric == Permutations(Requests)
=============================================================================
