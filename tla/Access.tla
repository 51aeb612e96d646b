------------------------------- MODULE Access -------------------------------
(***************************************************************************)
(* Who may trigger an event on a record: the roles a person holds directly *)
(* or through groups (CAP-O01, O07), the machine's Permission rows with    *)
(* their per-record gates (CAP-P02, F24), the check made by the request    *)
(* that triggers and the one that decides which buttons a page offers, and *)
(* the administrators who change all of it meanwhile.                      *)
(***************************************************************************)
EXTENDS Naturals, Sequences, FiniteSets

CONSTANTS Users, Groups, Roles, Requests,
          Nil,         \* no role, no group
          Machines,    \* bound: the Permission rows looked at, see Permission
          Contents,    \* bound: what the record's gate fields hold, see Record
          Starts,      \* bound: [direct, group] roles at the start
          MaxChanges,  \* bound: commits of an administrator or an editor
          Overlap      \* bound: TRUE for administrators that overlap

\* One row per role; events is whether it grants the event; owned and dynamic
\* say which gates it declares.
Permission == [role : Roles, events : BOOLEAN, owned : BOOLEAN, dynamic : BOOLEAN]

\* The owner field, and the three fields of a dynamic actor.
Record == [owner : Users, kind : {"User", "Group", "unset"}, user : Users, group : Groups \cup {Nil}]

VARIABLES
    rows,       \* the machine's Permissions, in the order LoadAll read them
    direct,     \* user_application_roles
    groupRole,  \* group_application_roles
    member,     \* group_members
    record,     \* the record's gate fields
    tx,         \* the requests
    asked,      \* history: the members last saved for each group
    changes, overlap

vars == <<rows, direct, groupRole, member, record, tx, asked, changes, overlap>>

tables == <<direct, groupRole, member, record>>

Idle == [at |-> "idle"]

Deciding == {"signed", "held", "read", "accepted", "refused"}

\* A trigger keeps who sends it, the roles and the record it read, and whether
\* nothing has changed since it began; one that saves a group's members those it
\* wants, found and deleted.
Tx == [at : {"idle"}]
      \cup [at : Deciding, who : Users, roles : SUBSET Roles, rec : Record, clean : BOOLEAN]
      \cup [at : {"writing"}, cell : ({"direct"} \X Users) \cup ({"group"} \X Groups),
            value : Roles \cup {Nil}]
      \cup [at : {"writing"}, cell : {<<"record", Nil>>}, value : Record]
      \cup [at : {"deleting", "deleted", "inserted"}, group : Groups, want : SUBSET Users,
            seen : SUBSET Users, gone : SUBSET Users]

----------------------------------------------------------------------------
(* The check. *)

\* A gate the record itself names wins over the machine's owner field.
ResolveActorGate(p, u, rec) ==
    CASE p.dynamic /\ rec.kind = "User"  -> rec.user = u
      [] p.dynamic /\ rec.kind = "Group" -> rec.group # Nil /\ u \in member[rec.group]
      [] ~p.dynamic \/ rec.kind = "unset" -> p.owned => rec.owner = u

Grants(i, roles) == rows[i].role \in roles /\ rows[i].events

\* The gate is left to the page.
CanTriggerByRole(u, roles, rec) == \E i \in DOMAIN rows : Grants(i, roles)

\* The first row that grants the event decides, whatever its gate says.
CanTrigger(u, roles, rec) ==
    \E i \in DOMAIN rows :
        /\ Grants(i, roles) /\ \A j \in 1..i - 1 : ~Grants(j, roles)
        /\ ResolveActorGate(rows[i], u, rec)

\* Any row that grants the event and whose gate lets u through.
PermittedForRecord(u, roles, rec) ==
    \E i \in DOMAIN rows : Grants(i, roles) /\ ResolveActorGate(rows[i], u, rec)

GroupRoles(u) == {groupRole[g] : g \in {h \in Groups : u \in member[h]}} \ {Nil}

\* What sessionAuth resolves for u when nothing changes meanwhile.
Held(u) == ({direct[u]} \ {Nil}) \cup GroupRoles(u)

\* Detail and DecisionStepper show the event's button to u.
Offered(u) == PermittedForRecord(u, Held(u), record)

----------------------------------------------------------------------------
Init ==
    /\ rows \in Machines /\ record \in Contents
    /\ \E s \in Starts : direct = s.direct /\ groupRole = s.group
    /\ member \in [Groups -> SUBSET Users]
    /\ asked = member
    /\ tx = [r \in Requests |-> Idle]
    /\ changes = 0 /\ overlap \in Overlap

Set(r, t) == tx' = [tx EXCEPT ![r] = t] /\ UNCHANGED <<rows, tables, asked, changes, overlap>>

\* sessionAuth: the direct role, then the groups' roles, each its own statement.
ReadDirectRole(r, u) ==
    /\ tx[r].at = "idle"
    /\ Set(r, [at |-> "signed", who |-> u, roles |-> {direct[u]} \ {Nil}, rec |-> record, clean |-> TRUE])

ReadGroupRoles(r) ==
    /\ tx[r].at = "signed"
    /\ Set(r, [tx[r] EXCEPT !.at = "held", !.roles = @ \cup GroupRoles(tx[r].who)])

\* TriggerEvent reads the record, then checks.
ReadRecord(r) ==
    /\ tx[r].at = "held"
    /\ Set(r, [tx[r] EXCEPT !.at = "read", !.rec = record])

\* The guard asks for the group's members only now.
Check(r) ==
    /\ tx[r].at = "read"
    /\ Set(r, [tx[r] EXCEPT !.at = IF CanTrigger(tx[r].who, tx[r].roles, tx[r].rec)
                                   THEN "accepted" ELSE "refused"])

Answer(r) == tx[r].at \in {"accepted", "refused"} /\ Set(r, Idle)

----------------------------------------------------------------------------
(* Administrators and editors. *)

MayChange(r) ==
    /\ changes < MaxChanges /\ tx[r].at = "idle"
    /\ overlap \/ \A q \in Requests : tx[q].at \in Deciding \cup {"idle"}

\* One statement that replaces one row; another that writes it waits.
Write(r, cell, value) ==
    /\ MayChange(r)
    /\ \A q \in Requests : tx[q].at = "writing" => tx[q].cell # cell
    /\ Set(r, [at |-> "writing", cell |-> cell, value |-> value])

\* AdminUpdateUser and AdminSetGroupRoles: an upsert, or a DELETE for no role.
SetDirectRole(r, u, role) == Write(r, <<"direct", u>>, role)
SetGroupRole(r, g, role)  == Write(r, <<"group", g>>, role)

\* Update of the record's gate fields.
EditRecord(r, content) == Write(r, <<"record", Nil>>, content)

\* SetMembers: the rows its DELETE finds ...
BeginMembers(r, g, want) ==
    /\ MayChange(r)
    /\ Set(r, [at |-> "deleting", group |-> g, want |-> want, seen |-> member[g], gone |-> {}])

\* The rows of g another request has deleted, or added, and not committed.
DeletedByOthers(r) ==
    UNION {tx[q].gone : q \in {p \in Requests \ {r} : tx[p].at \in {"deleted", "inserted"}
                                                     /\ tx[p].group = tx[r].group}}
AddedByOthers(r) ==
    UNION {tx[q].want : q \in {p \in Requests \ {r} : tx[p].at = "inserted"
                                                     /\ tx[p].group = tx[r].group}}

\* The INSERTs alone, as for a delta.
KeepMembers(r) ==
    /\ tx[r].at = "deleting"
    /\ Set(r, [tx[r] EXCEPT !.at = "deleted"])

\* ... are deleted once nobody else is deleting them; those that others deleted
\* meanwhile are skipped and those that others added are not seen.
Delete(r) ==
    /\ tx[r].at = "deleting" /\ tx[r].seen \cap DeletedByOthers(r) = {}
    /\ Set(r, [tx[r] EXCEPT !.at = "deleted", !.gone = tx[r].seen])

\* The INSERTs, in the form's order; a row that is already there fails the request.
Insert(r) ==
    /\ tx[r].at = "deleted"
    /\ tx[r].want \cap (AddedByOthers(r) \cup (DeletedByOthers(r) \ tx[r].gone)) = {}
    /\ Set(r, IF tx[r].want \cap (member[tx[r].group] \ tx[r].gone) = {}
              THEN [tx[r] EXCEPT !.at = "inserted"] ELSE Idle)

\* What a commit of t does to the others: a trigger being decided may have read
\* what it replaces, a DELETE skips the rows it has deleted.
After(q, t) ==
    CASE tx[q].at \in Deciding -> [tx[q] EXCEPT !.clean = FALSE]
      [] tx[q].at = "deleting" /\ t.at = "inserted" ->
            [tx[q] EXCEPT !.seen = IF tx[q].group = t.group THEN @ \ t.gone ELSE @]
      [] OTHER -> tx[q]

Commit(r) ==
    /\ tx[r].at \in {"writing", "inserted"}
    /\ tx' = [q \in Requests |-> IF q = r THEN Idle ELSE After(q, tx[r])]
    /\ changes' = changes + 1
    /\ LET t == tx[r]
           writes(table) == t.at = "writing" /\ t.cell[1] = table
       IN  /\ direct' = IF writes("direct") THEN [direct EXCEPT ![t.cell[2]] = t.value] ELSE direct
           /\ groupRole' = IF writes("group") THEN [groupRole EXCEPT ![t.cell[2]] = t.value] ELSE groupRole
           /\ record' = IF writes("record") THEN t.value ELSE record
           /\ member' = IF t.at = "inserted"
                        THEN [member EXCEPT ![t.group] = (@ \ t.gone) \cup t.want] ELSE member
           /\ asked' = IF t.at = "inserted" THEN [asked EXCEPT ![t.group] = t.want] ELSE asked
    /\ UNCHANGED <<rows, overlap>>

\* A statement fails, the client goes away, the process restarts.
Fail(r) == tx[r].at # "idle" /\ Set(r, Idle)

Next ==
    \E r \in Requests :
        \/ \E u \in Users : ReadDirectRole(r, u)
        \/ ReadGroupRoles(r) \/ ReadRecord(r) \/ Check(r) \/ Answer(r)
        \/ \E u \in Users, role \in Roles \cup {Nil} : SetDirectRole(r, u, role)
        \/ \E g \in Groups, role \in Roles \cup {Nil} : SetGroupRole(r, g, role)
        \/ \E content \in Contents : EditRecord(r, content)
        \/ \E g \in Groups, want \in SUBSET Users : BeginMembers(r, g, want)
        \/ Delete(r) \/ Insert(r) \/ Commit(r) \/ Fail(r)

Spec == Init /\ [][Next]_vars

----------------------------------------------------------------------------
\* Roles come from the application's, members from its people, and every request
\* keeps what its kind keeps.
TypeOK ==
    /\ rows \in Machines /\ record \in Record
    /\ direct \in [Users -> Roles \cup {Nil}] /\ groupRole \in [Groups -> Roles \cup {Nil}]
    /\ member \in [Groups -> SUBSET Users] /\ asked \in [Groups -> SUBSET Users]
    /\ tx \in [Requests -> Tx]

\* A trigger is accepted only of somebody the page would offer the event to, and
\* somebody who holds one role at most is accepted whenever the page offers it:
\* "byte-identical semantics" of the two checks, the roles, the record and the
\* group's members being read by separate statements, as long as nothing
\* changed in between.
CheckFollowsPage ==
    \A r \in Requests : tx[r].at \in {"accepted", "refused"} /\ tx[r].clean =>
        /\ tx[r].at = "accepted" => Offered(tx[r].who)
        /\ tx[r].at = "refused" /\ Cardinality(Held(tx[r].who)) <= 1 => ~Offered(tx[r].who)

\* A group's saved members are in it, also when administrators save it at once,
\* and nobody else is when they do not ("replaces groupID's entire membership
\* with exactly userIDs").
MembersAsSaved ==
    \A g \in Groups :
        /\ asked[g] \subseteq member[g]
        /\ ~overlap => member[g] = asked[g]

\* What the page's code says: "a Detail page never offers a button the POST would
\* then reject", here with nothing changed in between.
OffersHonoured ==
    \A r \in Requests :
        tx[r].at = "refused" /\ tx[r].clean => ~Offered(tx[r].who)
=============================================================================
