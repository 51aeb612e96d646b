------------------------------- MODULE People -------------------------------
(***************************************************************************)
(* Who people are and what they may do: the two parts share no row, so     *)
(* their steps are those of either.                                        *)
(***************************************************************************)
EXTENDS Identity, Sequences

CONSTANTS Persons, Groups, AppRoles,   \* of one application
          Machines, Contents, Starts, MaxChanges, Overlap   \* bounds of Access

VARIABLES rows, direct, groupRole, member, record, trigger, asked, changes, overlap

access == <<rows, direct, groupRole, member, record, trigger, asked, changes, overlap>>

A == INSTANCE Access WITH Users <- Persons, Roles <- AppRoles, tx <- trigger

\* permissions has UNIQUE (machine_id, role), and compileProcess gives every
\* transition an event of its own in the row of its one actor: no two rows of
\* one role grant the event.
ASSUME AccessAssumption ==
    /\ Machines \subseteq Seq(A!Permission)
    /\ \A m \in Machines : \A i, j \in DOMAIN m :
            m[i].events /\ m[j].events /\ m[i].role = m[j].role => i = j
    /\ Contents \subseteq A!Record
    /\ Starts \subseteq [direct : [Persons -> AppRoles \cup {Nil}],
                         group : [Groups -> AppRoles \cup {Nil}]]
    /\ IsFiniteSet(Groups)

WhoMayDoWhat ==
    /\ Init /\ A!Init
    /\ [][(Next /\ UNCHANGED access) \/ (A!Next /\ UNCHANGED vars)]_<<vars, access>>

\* The check a trigger meets agrees with what the page offers, for whoever holds
\* one role at most.
CheckFollowsPage == A!CheckFollowsPage

\* A group's members are those last saved for it.
MembersAsSaved == A!MembersAsSaved

\* No button a page offers is refused.
OffersHonoured == A!OffersHonoured
=============================================================================
