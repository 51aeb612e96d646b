------------------------------ MODULE Identity ------------------------------
(***************************************************************************)
(* Identities, memberships, invitations and sessions (CAP-O09, O10, O11,   *)
(* X02).  Founding a workspace and accepting an invitation as somebody new *)
(* use a transaction of their own on the pool, which commits in the middle *)
(* of the request; everything else, the session included, is written in    *)
(* the request's transaction and commits after the answer.  Statements of  *)
(* different requests interleave at READ COMMITTED; a UNIQUE key that      *)
(* somebody has inserted and not committed makes the next INSERT of it     *)
(* wait.                                                                   *)
(***************************************************************************)
EXTENDS Naturals, FiniteSets

CONSTANTS Emails, Workspaces, Invitations, Requests,
          Nil,           \* no workspace chosen yet, no invitation
          Lower,         \* Lower[e]: the address an administrator's form stores
          Home, Founder, \* the seeded workspace and its administrator
          Offers,        \* bound: whom administrators invite, where and as what
          MaxLinks,      \* bound: links mailed for one invitation
          MaxSessions    \* bound: sessions open at once

ASSUME IdentityAssumption ==
    /\ Home \in Workspaces /\ Founder \in Emails
    /\ Lower \in [Emails -> Emails]
    /\ Offers \subseteq Emails \X Workspaces \X {"Admin", "Member"}
    /\ Nil \notin Workspaces \cup Invitations \cup Emails
    /\ Emails \cap Workspaces = {} /\ Invitations \cap (Emails \cup Workspaces) = {}
    /\ (Emails \X Workspaces) \cap (Emails \cup Workspaces \cup Invitations) = {}
    /\ MaxLinks \in Nat \ {0} /\ MaxSessions \in Nat

VARIABLES
    workspace,   \* committed workspaces, by slug
    user,        \* committed identities, by email
    role,        \* workspace_memberships: role[e][w], "none" without a row
    invitation,  \* workspace_invitations
    session,     \* committed sessions; those that say the same are one
    tx           \* what each request has read and written

vars == <<workspace, user, role, invitation, session, tx>>

Roles == {"Admin", "Member"}

\* link numbers the tokens mailed for the row; only the last one finds it.
Invitation == [status : {"absent", "pending", "accepted", "revoked"},
               email : Emails, workspace : Workspaces, role : Roles,
               link : 0..MaxLinks, expired : BOOLEAN]

Session == [user : Emails, workspace : Workspaces \cup {Nil}]

\* A membership's row is named by its identity and its workspace.
Keys == Workspaces \cup Emails \cup Invitations \cup (Emails \X Workspaces)

Stages == {"idle", "slug", "link", "email", "identity", "joining", "marking",
           "provisioned", "opening", "done"}

\* e, w, as: the identity, workspace and role at stake; i, row: the invitation
\* as it was read, and as it was written once the request holds it; opens: the
\* session inserted or chosen, closes: the one it replaces or deletes.
Request == [kind : {"found", "view", "accept", "login", "choose", "logout", "admin"},
            at : Stages, e : Emails, w : Workspaces \cup {Nil}, as : Roles, new : BOOLEAN,
            i : Invitations \cup {Nil}, row : Invitation,
            opens : SUBSET Session, closes : SUBSET Session, holds : SUBSET Keys]

NoInvitation == [status |-> "absent", email |-> Founder, workspace |-> Home, role |-> "Member",
                 link |-> 0, expired |-> FALSE]

Idle == [kind |-> "admin", at |-> "idle", e |-> Founder, w |-> Nil, as |-> "Member", new |-> FALSE,
         i |-> Nil, row |-> NoInvitation, opens |-> {}, closes |-> {}, holds |-> {}]

\* Nobody else has an uncommitted write of the row or key.
Free(r, k) == \A q \in Requests \ {r} : k \notin tx[q].holds

IsMember(e, w) == role[e][w] # "none"

MembershipsOf(e) == {w \in Workspaces : IsMember(e, w)}

----------------------------------------------------------------------------
Init ==
    /\ workspace = {Home}
    /\ user = {Founder}
    /\ role = [e \in Emails |-> [w \in Workspaces |->
                  IF e = Founder /\ w = Home THEN "Admin" ELSE "none"]]
    /\ invitation = [i \in Invitations |-> NoInvitation]
    /\ session = {}
    /\ tx = [r \in Requests |-> Idle]

Set(r, t) == /\ tx' = [tx EXCEPT ![r] = t]
             /\ UNCHANGED <<workspace, user, role, invitation, session>>

\* The request ends and leaves nothing: a 5xx rolls its transactions back, an
\* answer below 500 commits one that has written nothing.
Drop(r) == Set(r, Idle)

----------------------------------------------------------------------------
(* Signing up. *)

Signup(r, e, w) ==
    /\ tx[r].at = "idle"
    /\ IF e \in user THEN Drop(r)
       ELSE Set(r, [Idle EXCEPT !.kind = "found", !.at = "slug", !.e = e, !.w = w,
                                !.as = "Admin", !.new = TRUE])

\* workspaces.Create, the first statement of the request's own transaction.
CreateWorkspace(r) ==
    /\ tx[r].at = "slug" /\ Free(r, tx[r].w)
    /\ IF tx[r].w \in workspace THEN Drop(r)
       ELSE Set(r, [tx[r] EXCEPT !.at = "identity", !.holds = @ \cup {tx[r].w}])

\* users.Create on the pool instead of in the transaction begun for it.
CreateUserAtOnce(r) ==
    /\ tx[r].at = "identity" /\ Free(r, tx[r].e)
    /\ user' = user \cup {tx[r].e}
    /\ tx' = [tx EXCEPT ![r].at = "joining"]
    /\ UNCHANGED <<workspace, role, invitation, session>>

CreateUser(r) ==
    /\ tx[r].at = "identity" /\ Free(r, tx[r].e)
    /\ IF tx[r].e \in user THEN Drop(r)
       ELSE Set(r, [tx[r] EXCEPT !.at = "joining", !.holds = @ \cup {tx[r].e}])

\* An identity that joins leaves its invitation pending.
JoinUnmarked(r) ==
    /\ tx[r].at = "joining" /\ Free(r, <<tx[r].e, tx[r].w>>)
    /\ IF IsMember(tx[r].e, tx[r].w) THEN Drop(r)
       ELSE Set(r, [tx[r] EXCEPT !.at = CASE tx[r].kind = "found" -> "provisioned"
                                          [] tx[r].new            -> "marking"
                                          [] OTHER                -> "opening",
                                 !.holds = @ \cup {<<tx[r].e, tx[r].w>>}])

CreateMembership(r) ==
    /\ tx[r].at = "joining" /\ Free(r, <<tx[r].e, tx[r].w>>)
    /\ IF IsMember(tx[r].e, tx[r].w) THEN Drop(r)
       ELSE Set(r, [tx[r] EXCEPT !.at = IF tx[r].kind = "found" THEN "provisioned" ELSE "marking",
                                 !.holds = @ \cup {<<tx[r].e, tx[r].w>>}])

----------------------------------------------------------------------------
(* Accepting an invitation. *)

\* resolveInvitation, first SELECT: the token of the link, on the path of the
\* invitation's own workspace.
FollowLink(r, i, link, kind) ==
    /\ tx[r].at = "idle" /\ kind \in {"view", "accept"}
    /\ link \in 1..invitation[i].link
    /\ IF invitation[i].link = link /\ invitation[i].status = "pending" /\ ~invitation[i].expired
       THEN Set(r, [Idle EXCEPT !.kind = kind, !.at = "link", !.i = i, !.row = invitation[i],
                                !.e = invitation[i].email, !.w = invitation[i].workspace,
                                !.as = invitation[i].role])
       ELSE Drop(r)

\* Second SELECT, GetByEmail, decides between a new identity, which gets a
\* transaction of its own, and an existing one, which joins in the request's.
\* A wrong password or an empty form is answered.
ResolveIdentity(r) ==
    /\ tx[r].at = "link"
    /\ \/ Drop(r)
       \/ /\ tx[r].kind = "accept"
          /\ IF tx[r].e \in user
             THEN Set(r, [tx[r] EXCEPT !.at = "joining"])
             ELSE Set(r, [tx[r] EXCEPT !.at = "identity", !.new = TRUE])
       \/ /\ tx[r].kind = "view" /\ tx[r].e \in user
          /\ Set(r, [tx[r] EXCEPT !.at = "email"])

\* An identity is taken for a member.
ViewAsIdentity(r) ==
    /\ tx[r].at = "email"
    /\ Set(r, [tx[r] EXCEPT !.at = "marking"])

\* InviteAcceptForm: the invitation of a member is redundant and gets settled.
ViewAsMember(r) ==
    /\ tx[r].at = "email"
    /\ IF IsMember(tx[r].e, tx[r].w) THEN Set(r, [tx[r] EXCEPT !.at = "marking"])
                                     ELSE Drop(r)

\* MarkAccepted, whatever the status is by now.
MarkAccepted(r) ==
    /\ tx[r].at = "marking" /\ Free(r, tx[r].i)
    /\ Set(r, [tx[r] EXCEPT
          !.at = CASE tx[r].kind = "view" -> "done"
                   [] tx[r].new           -> "provisioned"
                   [] OTHER               -> "opening",
          !.row = [invitation[tx[r].i] EXCEPT !.status = "accepted"],
          !.holds = @ \cup {tx[r].i}])

\* startSession, in the request's transaction.
StartSession(r) ==
    /\ tx[r].at = "opening"
    /\ Set(r, [tx[r] EXCEPT !.at = "done", !.opens = {[user |-> tx[r].e, workspace |-> tx[r].w]}])

----------------------------------------------------------------------------
(* Sessions. *)

\* No membership is refused, one is entered, several go to the one the cookie
\* remembers or to the picker.
Login(r, e) ==
    /\ tx[r].at = "idle" /\ e \in user
    /\ LET mine == MembershipsOf(e) IN
          IF mine = {} THEN Drop(r)
          ELSE \E w \in mine \cup (IF Cardinality(mine) > 1 THEN {Nil} ELSE {}) :
                  Set(r, [Idle EXCEPT !.kind = "login", !.at = "opening", !.e = e, !.w = w])

ChooseWorkspace(r, s, w) ==
    /\ tx[r].at = "idle" /\ s \in session
    /\ IF IsMember(s.user, w)
       THEN Set(r, [Idle EXCEPT !.kind = "choose", !.at = "done", !.e = s.user, !.closes = {s},
                                !.opens = {[s EXCEPT !.workspace = w]}])
       ELSE Drop(r)

Logout(r, s) ==
    /\ tx[r].at = "idle" /\ s \in session
    /\ Set(r, [Idle EXCEPT !.kind = "logout", !.at = "done", !.closes = {s}])

Expire ==
    /\ \/ \E s \in session : session' = session \ {s} /\ UNCHANGED invitation
       \/ \E i \in Invitations :
             /\ invitation[i].status = "pending" /\ \A r \in Requests : i \notin tx[r].holds
             /\ invitation' = [invitation EXCEPT ![i].expired = TRUE]
             /\ UNCHANGED session
    /\ UNCHANGED <<workspace, user, role, tx>>

----------------------------------------------------------------------------
(* Administration.  sessionAuth has read the actor's role beforehand. *)

ActsAsAdmin(w) == \E s \in session : s.workspace = w /\ role[s.user][w] = "Admin"

Invite(r, i, e, w, as) ==
    /\ tx[r].at = "idle" /\ ActsAsAdmin(w) /\ <<e, w, as>> \in Offers
    /\ invitation[i].status = "absent" /\ Free(r, i)
    /\ Set(r, [Idle EXCEPT !.at = "done", !.i = i, !.holds = {i},
                  !.row = [status |-> "pending", email |-> Lower[e], workspace |-> w, role |-> as,
                           link |-> 1, expired |-> FALSE]])

Revoke(r, i) ==
    /\ tx[r].at = "idle" /\ ActsAsAdmin(invitation[i].workspace)
    /\ invitation[i].status # "absent" /\ Free(r, i)
    /\ Set(r, [Idle EXCEPT !.at = "done", !.i = i, !.holds = {i},
                           !.row = [invitation[i] EXCEPT !.status = "revoked"]])

\* Reissue: a new token on the same row, pending again whatever it was.
Resend(r, i) ==
    /\ tx[r].at = "idle" /\ ActsAsAdmin(invitation[i].workspace)
    /\ invitation[i].status # "absent" /\ Free(r, i) /\ invitation[i].link < MaxLinks
    /\ Set(r, [Idle EXCEPT !.at = "done", !.i = i, !.holds = {i},
                           !.row = [invitation[i] EXCEPT !.status = "pending", !.link = @ + 1,
                                                         !.expired = FALSE]])

SetRole(r, e, w, as) ==
    /\ tx[r].at = "idle" /\ ActsAsAdmin(w)
    /\ IsMember(e, w) /\ Free(r, <<e, w>>)
    /\ Set(r, [Idle EXCEPT !.at = "done", !.e = e, !.w = w, !.as = as, !.holds = {<<e, w>>}])

----------------------------------------------------------------------------
\* What a transaction that commits installs.
Install(t) ==
    /\ workspace' = workspace \cup (t.holds \cap Workspaces)
    /\ user' = user \cup (t.holds \cap Emails)
    /\ role' = [e \in Emails |-> [w \in Workspaces |->
                   IF <<e, w>> \in t.holds THEN t.as ELSE role[e][w]]]
    /\ invitation' = [i \in Invitations |-> IF i \in t.holds THEN t.row ELSE invitation[i]]

\* The error of the commit is ignored.
CommitOwnUnchecked(r) ==
    /\ tx[r].at = "provisioned"
    /\ Install(tx[r]) \/ UNCHANGED <<workspace, user, role, invitation>>
    /\ tx' = [tx EXCEPT ![r] = [@ EXCEPT !.at = "opening", !.holds = {}]]
    /\ UNCHANGED session

\* The request's own transaction commits and its session comes next.
CommitOwn(r) ==
    /\ tx[r].at = "provisioned"
    /\ Install(tx[r])
    /\ tx' = [tx EXCEPT ![r] = [@ EXCEPT !.at = "opening", !.holds = {}]]
    /\ UNCHANGED session

\* workspaceTx commits below status 500.  A session deleted meanwhile is not
\* brought back by the choice of its workspace.
Commit(r) ==
    /\ tx[r].at = "done"
    /\ Install(tx[r])
    /\ LET opened == IF tx[r].closes \subseteq session THEN tx[r].opens ELSE {}
       IN  /\ session' = (session \ tx[r].closes) \cup opened
           /\ Cardinality(session') <= MaxSessions
    /\ tx' = [tx EXCEPT ![r] = Idle]

\* A failing statement, a lost connection or a restart, at any point.
Fail(r) == tx[r].at # "idle" /\ Drop(r)

Step(r) ==
    \/ \E e \in Emails, w \in Workspaces : Signup(r, e, w)
    \/ CreateWorkspace(r) \/ CreateUser(r) \/ CreateMembership(r) \/ CommitOwn(r)
    \/ \E i \in Invitations, n \in 1..MaxLinks, kind \in {"view", "accept"} : FollowLink(r, i, n, kind)
    \/ ResolveIdentity(r) \/ ViewAsMember(r) \/ MarkAccepted(r) \/ StartSession(r)
    \/ \E e \in Emails : Login(r, e)
    \/ \E s \in session, w \in Workspaces : ChooseWorkspace(r, s, w)
    \/ \E s \in session : Logout(r, s)
    \/ \E i \in Invitations, e \in Emails, w \in Workspaces, as \in Roles : Invite(r, i, e, w, as)
    \/ \E i \in Invitations : Revoke(r, i) \/ Resend(r, i)
    \/ \E e \in Emails, w \in Workspaces, as \in Roles : SetRole(r, e, w, as)
    \/ Commit(r) \/ Fail(r)

Next == Expire \/ \E r \in Requests : Step(r)

Spec == Init /\ [][Next]_vars

----------------------------------------------------------------------------
TypeOK ==
    /\ workspace \subseteq Workspaces
    /\ user \subseteq Emails
    /\ role \in [Emails -> [Workspaces -> Roles \cup {"none"}]]
    /\ invitation \in [Invitations -> Invitation]
    /\ session \subseteq Session
    /\ tx \in [Requests -> Request]

\* invitations.go:254-409: whatever an invitation has been through, once it is
\* accepted the identity it was addressed to is a member of its workspace.
AcceptedMeansMember ==
    \A i \in Invitations :
        invitation[i].status = "accepted" => IsMember(invitation[i].email, invitation[i].workspace)

\* auth.go:66-173, invitations.go:288-328: a session never outlives, or comes
\* before, the identity and the membership it stands for, although those commit
\* in another transaction.
SessionBacked ==
    \A s \in session : /\ s.user \in user
                       /\ s.workspace # Nil => IsMember(s.user, s.workspace)

\* Provisioning is all or nothing: every identity belongs to a workspace and
\* every workspace has a member, whatever failed half-way.
NoOrphans ==
    /\ \A e \in user : MembershipsOf(e) # {}
    /\ \A w \in workspace : \E e \in user : IsMember(e, w)

\* A membership appears only with the founding of its workspace, or in the commit
\* that settles an invitation addressed to that identity, at the role it offers:
\* no invitation admits twice, and none admits into another workspace.
AdmittedOnce ==
    [][\A e \in Emails, w \in Workspaces :
          role[e][w] = "none" /\ role'[e][w] # "none" =>
             \/ w \notin workspace /\ w \in workspace' /\ role'[e][w] = "Admin"
             \/ \E i \in Invitations :
                   /\ invitation[i].status # "accepted" /\ invitation'[i].status = "accepted"
                   /\ invitation'[i].email = e /\ invitation'[i].workspace = w
                   /\ invitation'[i].role = role'[e][w]]_vars
=============================================================================
