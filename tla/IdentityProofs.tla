--------------------------- MODULE IdentityProofs ---------------------------
(***************************************************************************)
(* Provisioning in Identity is all or nothing, sessions and accepted       *)
(* invitations are backed by members, and nobody is admitted twice, for    *)
(* any addresses, workspaces, invitations and requests.  In Access the     *)
(* check and the page agree as far as they can, and groups keep the        *)
(* members saved for them, for any people, groups, roles and permissions.  *)
(***************************************************************************)
EXTENDS People, FiniteSetTheorems, TLAPS

\* No two transactions have written the same key.
Exclusive == \A q, r \in Requests : q # r => tx[q].holds \cap tx[r].holds = {}

\* A founder writes a new workspace, then an identity, then its membership, and
\* enters it when they are committed.
Founding(t) ==
    t.kind = "found" /\ t.at # "idle" =>
        /\ t.at \in {"slug", "identity", "joining", "provisioned", "opening", "done"}
        /\ t.w \in Workspaces /\ t.as = "Admin" /\ t.new
        /\ t.holds = (IF t.at \in {"identity", "joining", "provisioned"} THEN {t.w} ELSE {})
                     \cup (IF t.at \in {"joining", "provisioned"} THEN {t.e} ELSE {})
                     \cup (IF t.at = "provisioned" THEN {<<t.e, t.w>>} ELSE {})
        /\ t.w \in t.holds => t.w \notin workspace
        /\ t.at \in {"opening", "done"} => t.e \in user /\ IsMember(t.e, t.w)

\* Whoever follows a link acts for the identity, workspace and role it names.
Invited(t) ==
    t.kind \in {"view", "accept"} /\ t.at # "idle" =>
        /\ t.i \in Invitations /\ invitation[t.i].status # "absent"
        /\ t.e = invitation[t.i].email /\ t.w = invitation[t.i].workspace /\ t.as = invitation[t.i].role
        /\ t.i \in t.holds => t.row = [t.row EXCEPT !.status = "accepted", !.email = t.e,
                                                    !.workspace = t.w, !.role = t.as]

\* An acceptance writes the identity if it is new, its membership and the settled
\* invitation; a new identity enters when they are committed.
Accepting(t) ==
    t.kind = "accept" /\ t.at # "idle" =>
        /\ t.at \in {"link", "identity", "joining", "marking", "provisioned", "opening", "done"}
        /\ t.at \in {"identity", "provisioned"} => t.new
        /\ t.at = "link" => ~t.new
        /\ t.holds = (IF t.new /\ t.at \in {"joining", "marking", "provisioned"} THEN {t.e} ELSE {})
                     \cup (IF \/ t.at \in {"marking", "provisioned"}
                              \/ ~t.new /\ t.at \in {"opening", "done"} THEN {<<t.e, t.w>>} ELSE {})
                     \cup (IF \/ t.at = "provisioned"
                              \/ ~t.new /\ t.at \in {"opening", "done"} THEN {t.i} ELSE {})
        /\ ~t.new /\ t.at # "link" => t.e \in user
        /\ t.new /\ t.at \in {"opening", "done"} => t.e \in user /\ IsMember(t.e, t.w)

\* An invitation is settled by its page only for a member.
Viewing(t) ==
    t.kind = "view" /\ t.at # "idle" =>
        /\ t.at \in {"link", "email", "marking", "done"} /\ ~t.new
        /\ t.at \in {"marking", "done"} => IsMember(t.e, t.w)
        /\ t.holds = IF t.at = "done" THEN {t.i} ELSE {}

\* Who logs in, chooses a workspace or logs out writes sessions only.
Entering(t) ==
    t.kind \in {"login", "choose", "logout"} /\ t.at # "idle" =>
        /\ t.at \in {"opening", "done"} /\ t.holds = {}
        /\ t.at = "opening" => t.e \in user /\ (t.w # Nil => IsMember(t.e, t.w))

\* An administrator writes one invitation, never settled nor re-addressed, or the
\* role of one member.
Administering(t) ==
    t.kind = "admin" /\ t.at # "idle" =>
        /\ t.at = "done"
        /\ \/ /\ t.i \in Invitations /\ t.holds = {t.i} /\ t.row.status \in {"pending", "revoked"}
              /\ invitation[t.i].status # "absent" =>
                    /\ t.row.email = invitation[t.i].email
                    /\ t.row.workspace = invitation[t.i].workspace /\ t.row.role = invitation[t.i].role
           \/ t.w \in Workspaces /\ t.holds = {<<t.e, t.w>>} /\ IsMember(t.e, t.w)

\* A session is written for an identity and a membership that are there already or
\* are committed with it.
Opening(t) ==
    /\ t.at = "idle" => t.holds = {}
    /\ t.at # "done" => t.opens = {}
    /\ \A s \in t.opens :
          /\ s.user \in user
          /\ s.workspace # Nil => IsMember(s.user, s.workspace) \/ <<s.user, s.workspace>> \in t.holds

Good(t) == /\ Founding(t) /\ Invited(t) /\ Accepting(t) /\ Viewing(t)
           /\ Entering(t) /\ Administering(t) /\ Opening(t)

IInv ==
    /\ TypeOK /\ Exclusive
    /\ \A r \in Requests : Good(tx[r])
    /\ AcceptedMeansMember /\ SessionBacked /\ NoOrphans

----------------------------------------------------------------------------
\* An idle request is sound.
LEMMA IdleGood == Idle \in Request /\ Good(Idle) /\ Idle.holds = {} /\ Idle.at = "idle"
  <1> USE IdentityAssumption
  <1>1. NoInvitation \in Invitation
    BY DEF NoInvitation, Invitation, Roles
  <1>2. Idle \in Request /\ Idle.holds = {} /\ Idle.at = "idle" /\ Idle.opens = {}
    BY <1>1 DEF Idle, Request, Roles, Stages
  <1> QED
    BY <1>2 DEF Good, Founding, Invited, Accepting, Viewing, Entering, Administering, Opening

\* The initial states satisfy the inductive invariant.
LEMMA InitIInv == Init => IInv
  <1> SUFFICES ASSUME Init PROVE IInv
    OBVIOUS
  <1> USE IdentityAssumption
  <1>1. NoInvitation \in Invitation /\ NoInvitation.status = "absent"
    BY DEF NoInvitation, Invitation, Roles
  <1>2. TypeOK
    BY <1>1, IdleGood DEF Init, TypeOK, Roles
  <1>3. Exclusive /\ \A r \in Requests : Good(tx[r])
    BY IdleGood DEF Init, Exclusive
  <1>4. AcceptedMeansMember /\ SessionBacked
    BY <1>1 DEF Init, AcceptedMeansMember, SessionBacked
  <1>5. NoOrphans
    BY DEF Init, NoOrphans, MembershipsOf, IsMember
  <1> QED
    BY <1>2, <1>3, <1>4, <1>5 DEF IInv

\* A request at a stage is of a kind that comes there.
LEMMA StageKinds ==
  ASSUME IInv, NEW r \in Requests
  PROVE  /\ tx[r] \in Request /\ Good(tx[r])
         /\ tx[r].at \in {"slug"} => tx[r].kind = "found"
         /\ tx[r].at \in {"identity", "joining", "provisioned"} => tx[r].kind \in {"found", "accept"}
         /\ tx[r].at = "link" => tx[r].kind \in {"view", "accept"}
         /\ tx[r].at = "email" => tx[r].kind = "view"
         /\ tx[r].at = "marking" => tx[r].kind \in {"view", "accept"}
         /\ tx[r].at = "opening" => tx[r].kind \in {"found", "accept", "login", "choose", "logout"}
         /\ tx[r].kind \in {"found", "view", "accept"} /\ tx[r].at # "idle" => tx[r].w \in Workspaces
  <1>1. tx[r] \in Request /\ Good(tx[r])
    BY DEF IInv, TypeOK
  <1>2. tx[r].kind \in {"view", "accept"} /\ tx[r].at # "idle" => tx[r].w \in Workspaces
    BY <1>1 DEF Good, Invited, IInv, TypeOK, Invitation
  <1>3. tx[r].kind = "found" /\ tx[r].at # "idle" => tx[r].w \in Workspaces
    BY <1>1 DEF Good, Founding
  <1> QED
    BY <1>1, <1>2, <1>3 DEF Request, Good, Founding, Accepting, Viewing, Entering, Administering

\* A statement that changes its own request only preserves the invariant if the
\* request stays sound and writes no key that another one has written.
LEMMA SetIInv ==
  ASSUME IInv, NEW r \in Requests, NEW t \in Request, Set(r, t), Good(t),
         \A k \in t.holds : k \in tx[r].holds \/ Free(r, k)
  PROVE  IInv' /\ UNCHANGED role
  <1>1. /\ tx'[r] = t /\ \A q \in Requests \ {r} : tx'[q] = tx[q]
        /\ UNCHANGED <<workspace, user, role, invitation, session>>
    BY DEF Set, IInv, TypeOK
  <1>2. TypeOK'
    BY DEF Set, IInv, TypeOK
  <1>3. Exclusive'
    BY <1>1 DEF IInv, Exclusive, Free
  <1>4. AcceptedMeansMember' /\ SessionBacked' /\ NoOrphans'
    BY <1>1 DEF IInv, AcceptedMeansMember, SessionBacked, NoOrphans, MembershipsOf, IsMember
  <1>5. ASSUME NEW q \in Requests PROVE Good(tx[q])'
    <2>1. Good(tx'[q])
      BY <1>1 DEF IInv
    <2> QED
      BY <1>1, <2>1 DEF Good, Founding, Invited, Accepting, Viewing, Entering, Administering,
         Opening, IsMember
  <1> QED
    BY <1>1, <1>2, <1>3, <1>4, <1>5 DEF IInv

\* So does giving up.
LEMMA DropIInv ==
  ASSUME IInv, NEW r \in Requests, Drop(r) PROVE IInv' /\ UNCHANGED role
  BY IdleGood, SetIInv DEF Drop

----------------------------------------------------------------------------
\* A sign-up has written nothing yet.
LEMMA SignupIInv ==
  ASSUME IInv, NEW r \in Requests, NEW e \in Emails, NEW w \in Workspaces, Signup(r, e, w)
  PROVE  IInv' /\ UNCHANGED role
  <1> DEFINE t == [Idle EXCEPT !.kind = "found", !.at = "slug", !.e = e, !.w = w,
                               !.as = "Admin", !.new = TRUE]
  <1>1. /\ t \in Request /\ t.kind = "found" /\ t.at = "slug" /\ t.e = e /\ t.w = w /\ t.as = "Admin" /\ t.new
        /\ t.holds = {} /\ t.opens = {}
    BY IdleGood DEF Idle, Request, Roles, Stages
  <1>2. CASE Set(r, t)
    <2> HIDE DEF t
    <2>1. Good(t)
      BY <1>1 DEF Good, Founding, Invited, Accepting, Viewing, Entering, Administering, Opening
    <2> QED
      BY <1>1, <1>2, <2>1, SetIInv
  <1> QED
    BY <1>2, DropIInv DEF Signup

\* The founder inserts a slug nobody has.
LEMMA CreateWorkspaceIInv ==
  ASSUME IInv, NEW r \in Requests, CreateWorkspace(r)
  PROVE  IInv' /\ UNCHANGED role
  <1> USE IdentityAssumption
  <1> DEFINE t == [tx[r] EXCEPT !.at = "identity", !.holds = @ \cup {tx[r].w}]
  <1>1. tx[r] \in Request /\ Good(tx[r])
    BY DEF IInv, TypeOK
  <1>2. CASE Set(r, t) /\ tx[r].w \notin workspace
    <2>1. tx[r].kind = "found" /\ tx[r].w \in Workspaces /\ tx[r].holds = {} /\ tx[r].at = "slug"
          /\ tx[r].new /\ tx[r].as = "Admin" /\ tx[r].opens = {}
      BY <1>1 DEF CreateWorkspace, Request, Good, Founding, Accepting, Viewing, Entering,
         Administering, Opening
    <2>2. /\ t \in Request /\ t.kind = "found" /\ t.at = "identity" /\ t.holds = {t.w} /\ t.w = tx[r].w
          /\ t.new /\ t.as = "Admin" /\ t.opens = {} /\ t.e = tx[r].e
      BY <1>1, <2>1 DEF Request, Stages, Keys
    <2> HIDE DEF t
    <2>3. t.w # t.e
      BY <2>1, <2>2 DEF Request
    <2>4. Good(t)
      BY <1>2, <2>1, <2>2, <2>3 DEF Good, Founding, Invited, Accepting, Viewing, Entering,
         Administering, Opening
    <2> QED
      BY <1>2, <2>2, <2>4, SetIInv DEF CreateWorkspace
  <1> QED
    BY <1>2, DropIInv DEF CreateWorkspace

\* A founder's or an invited newcomer's identity is inserted.
LEMMA CreateUserIInv ==
  ASSUME IInv, NEW r \in Requests, CreateUser(r)
  PROVE  IInv' /\ UNCHANGED role
  <1> USE IdentityAssumption
  <1> DEFINE t == [tx[r] EXCEPT !.at = "joining", !.holds = @ \cup {tx[r].e}]
  <1>1. tx[r] \in Request /\ Good(tx[r]) /\ tx[r].at = "identity"
    BY DEF IInv, TypeOK, CreateUser
  <1>2. CASE Set(r, t)
    <2>1. tx[r].kind \in {"found", "accept"} /\ tx[r].new /\ tx[r].opens = {}
      BY <1>1 DEF Request, Good, Founding, Accepting, Viewing, Entering, Administering, Opening
    <2>2. /\ t \in Request /\ t.kind = tx[r].kind /\ t.at = "joining" /\ t.holds = tx[r].holds \cup {tx[r].e}
          /\ t.new = tx[r].new /\ t.as = tx[r].as /\ t.opens = {} /\ t.e = tx[r].e
          /\ t.w = tx[r].w /\ t.i = tx[r].i /\ t.row = tx[r].row
      BY <1>1, <2>1 DEF Request, Stages, Keys
    <2> HIDE DEF t
    <2>3. Founding(t)
      BY <1>1, <2>2 DEF Good, Founding, Request
    <2>4. Invited(t)
      BY <1>1, <2>2 DEF Good, Invited, Request
    <2>5. Accepting(t)
      BY <1>1, <2>1, <2>2 DEF Good, Accepting
    <2>6. Good(t)
      BY <2>1, <2>2, <2>3, <2>4, <2>5 DEF Good, Viewing, Entering, Administering, Opening
    <2> QED
      BY <1>2, <2>2, <2>6, SetIInv DEF CreateUser
  <1> QED
    BY <1>2, DropIInv DEF CreateUser

\* Then the membership.
LEMMA CreateMembershipIInv ==
  ASSUME IInv, NEW r \in Requests, CreateMembership(r)
  PROVE  IInv' /\ UNCHANGED role
  <1> USE IdentityAssumption
  <1> DEFINE at == IF tx[r].kind = "found" THEN "provisioned" ELSE "marking"
             t == [tx[r] EXCEPT !.at = at, !.holds = @ \cup {<<tx[r].e, tx[r].w>>}]
  <1>1. tx[r] \in Request /\ Good(tx[r]) /\ tx[r].at = "joining"
    BY DEF IInv, TypeOK, CreateMembership
  <1>2. CASE Set(r, t)
    <2>1. /\ \/ tx[r].kind = "found" /\ at = "provisioned" /\ tx[r].w \in Workspaces
             \/ tx[r].kind = "accept" /\ at = "marking" /\ tx[r].w \in Workspaces
          /\ tx[r].opens = {}
      BY <1>1, StageKinds DEF Good, Opening
    <2>2. <<tx[r].e, tx[r].w>> \in Emails \X Workspaces
      BY <1>1, <2>1 DEF Request
    <2>3. /\ t \in Request /\ t.kind = tx[r].kind /\ t.at = at
          /\ t.holds = tx[r].holds \cup {<<tx[r].e, tx[r].w>>}
          /\ t.new = tx[r].new /\ t.as = tx[r].as /\ t.opens = {} /\ t.e = tx[r].e
          /\ t.w = tx[r].w /\ t.i = tx[r].i /\ t.row = tx[r].row
      BY <1>1, <2>1, <2>2 DEF Request, Stages, Keys
    <2> HIDE DEF t, at
    <2>4. Founding(t)
      BY <1>1, <2>1, <2>2, <2>3 DEF Good, Founding, Request
    <2>5. Invited(t)
      BY <1>1, <2>1, <2>2, <2>3 DEF Good, Invited, Request
    <2>6. Accepting(t)
      BY <1>1, <2>1, <2>3 DEF Good, Accepting
    <2>7. Good(t)
      BY <2>1, <2>3, <2>4, <2>5, <2>6 DEF Good, Viewing, Entering, Administering, Opening
    <2> QED
      BY <1>2, <2>3, <2>7, SetIInv DEF CreateMembership
  <1> QED
    BY <1>2, DropIInv DEF CreateMembership

----------------------------------------------------------------------------
\* Following a link takes its row as it is.
LEMMA FollowLinkIInv ==
  ASSUME IInv, NEW r \in Requests, NEW i \in Invitations, NEW link \in 1..MaxLinks,
         NEW kind \in {"view", "accept"}, FollowLink(r, i, link, kind)
  PROVE  IInv' /\ UNCHANGED role
  <1> DEFINE t == [Idle EXCEPT !.kind = kind, !.at = "link", !.i = i, !.row = invitation[i],
                               !.e = invitation[i].email, !.w = invitation[i].workspace,
                               !.as = invitation[i].role]
  <1>1. CASE Set(r, t) /\ invitation[i].status = "pending"
    <2>1. /\ invitation[i] \in Invitation /\ invitation[i].email \in Emails
          /\ invitation[i].workspace \in Workspaces /\ invitation[i].role \in Roles
      BY DEF IInv, TypeOK, Invitation
    <2>2. /\ t \in Request /\ t.kind = kind /\ t.at = "link" /\ t.i = i /\ t.e = invitation[i].email
          /\ t.w = invitation[i].workspace /\ t.as = invitation[i].role /\ t.holds = {} /\ t.opens = {}
          /\ t.new = FALSE
      BY <2>1, IdleGood DEF Idle, Request, Stages
    <2> HIDE DEF t
    <2>3. Good(t)
      BY <1>1, <2>2 DEF Good, Founding, Invited, Accepting, Viewing, Entering, Administering, Opening
    <2> QED
      BY <1>1, <2>2, <2>3, SetIInv
  <1> QED
    BY <1>1, DropIInv DEF FollowLink

\* The identity is looked up.
LEMMA ResolveIdentityIInv ==
  ASSUME IInv, NEW r \in Requests, ResolveIdentity(r)
  PROVE  IInv' /\ UNCHANGED role
  <1>1. tx[r] \in Request /\ Good(tx[r]) /\ tx[r].at = "link"
    BY DEF IInv, TypeOK, ResolveIdentity
  <1>2. ASSUME NEW at \in {"joining", "identity", "email"}, NEW new \in BOOLEAN,
               Set(r, [tx[r] EXCEPT !.at = at, !.new = new]),
               \/ at = "joining" /\ ~new /\ tx[r].kind = "accept" /\ tx[r].e \in user
               \/ at = "identity" /\ new /\ tx[r].kind = "accept"
               \/ at = "email" /\ tx[r].kind = "view" /\ ~new
        PROVE  IInv' /\ UNCHANGED role
    <2> DEFINE t == [tx[r] EXCEPT !.at = at, !.new = new]
    <2>1. /\ t \in Request /\ t.kind = tx[r].kind /\ t.at = at /\ t.i = tx[r].i /\ t.e = tx[r].e
          /\ t.w = tx[r].w /\ t.as = tx[r].as /\ t.holds = tx[r].holds /\ t.opens = tx[r].opens
          /\ t.row = tx[r].row /\ t.new = new
      BY <1>1 DEF Request, Stages
    <2> HIDE DEF t
    <2>2. tx[r].holds = {} /\ tx[r].opens = {}
      BY <1>1, <1>2 DEF Good, Accepting, Viewing, Opening
    <2>3. Good(t)
      BY <1>1, <1>2, <2>1, <2>2 DEF Good, Founding, Invited, Accepting, Viewing, Entering,
         Administering, Opening
    <2>4. Set(r, t)
      BY <1>2 DEF t
    <2> QED
      BY <2>1, <2>2, <2>3, <2>4, SetIInv
  <1>3. [tx[r] EXCEPT !.at = "joining"] = [tx[r] EXCEPT !.at = "joining", !.new = tx[r].new]
        /\ [tx[r] EXCEPT !.at = "email"] = [tx[r] EXCEPT !.at = "email", !.new = tx[r].new]
        /\ tx[r].new \in BOOLEAN
    BY <1>1 DEF Request
  <1>4. tx[r].kind \in {"accept", "view"} => ~tx[r].new
    BY <1>1 DEF Good, Accepting, Viewing
  <1> QED
    BY <1>2, <1>3, <1>4, DropIInv DEF ResolveIdentity

\* The page of an invitation settles it for a member only.
LEMMA ViewAsMemberIInv ==
  ASSUME IInv, NEW r \in Requests, ViewAsMember(r)
  PROVE  IInv' /\ UNCHANGED role
  <1> DEFINE t == [tx[r] EXCEPT !.at = "marking"]
  <1>1. tx[r] \in Request /\ Good(tx[r]) /\ tx[r].at = "email" /\ tx[r].kind = "view"
    BY StageKinds DEF ViewAsMember
  <1>2. CASE Set(r, t) /\ IsMember(tx[r].e, tx[r].w)
    <2>1. /\ t \in Request /\ t.kind = "view" /\ t.at = "marking" /\ t.i = tx[r].i /\ t.e = tx[r].e
          /\ t.w = tx[r].w /\ t.as = tx[r].as /\ t.holds = tx[r].holds /\ t.opens = tx[r].opens
          /\ t.row = tx[r].row /\ t.new = tx[r].new
      BY <1>1 DEF Request, Stages
    <2> HIDE DEF t
    <2>2. tx[r].holds = {} /\ tx[r].opens = {}
      BY <1>1 DEF Good, Viewing, Opening
    <2>3. Good(t)
      BY <1>1, <1>2, <2>1, <2>2 DEF Good, Founding, Invited, Accepting, Viewing, Entering,
         Administering, Opening
    <2> QED
      BY <1>2, <2>1, <2>2, <2>3, SetIInv
  <1> QED
    BY <1>2, DropIInv DEF ViewAsMember

\* The settled row is the invitation's, whatever its status was.
LEMMA MarkAcceptedIInv ==
  ASSUME IInv, NEW r \in Requests, MarkAccepted(r)
  PROVE  IInv' /\ UNCHANGED role
  <1> USE IdentityAssumption
  <1> DEFINE at == CASE tx[r].kind = "view" -> "done"
                     [] tx[r].new           -> "provisioned"
                     [] OTHER               -> "opening"
             row == [invitation[tx[r].i] EXCEPT !.status = "accepted"]
             t == [tx[r] EXCEPT !.at = at, !.row = row, !.holds = @ \cup {tx[r].i}]
  <1>1. /\ tx[r] \in Request /\ Good(tx[r]) /\ tx[r].at = "marking" /\ tx[r].kind \in {"view", "accept"}
        /\ Free(r, tx[r].i) /\ Set(r, t) /\ tx[r].w \in Workspaces
    BY StageKinds DEF MarkAccepted
  <1>2. tx[r].i \in Invitations /\ invitation[tx[r].i] \in Invitation /\ invitation[tx[r].i].status # "absent"
        /\ tx[r].e = invitation[tx[r].i].email /\ tx[r].w = invitation[tx[r].i].workspace
        /\ tx[r].as = invitation[tx[r].i].role
    BY <1>1 DEF Good, Invited, IInv, TypeOK
  <1>3. /\ row \in Invitation /\ row.status = "accepted" /\ row.email = tx[r].e
        /\ row.workspace = tx[r].w /\ row.role = tx[r].as
    BY <1>2 DEF Invitation
  <1>4. \/ tx[r].kind = "view" /\ at = "done"
        \/ tx[r].kind = "accept" /\ tx[r].new /\ at = "provisioned"
        \/ tx[r].kind = "accept" /\ ~tx[r].new /\ at = "opening"
    <2> HIDE DEF t, row
    <2>1. tx[r].new \in BOOLEAN
      BY <1>1 DEF Request
    <2>2. CASE tx[r].kind = "view"
      BY <1>1, <2>2 DEF Good, Viewing
    <2>3. CASE tx[r].kind = "accept" /\ tx[r].new
      BY <2>3
    <2>4. CASE tx[r].kind = "accept" /\ ~tx[r].new
      BY <2>4
    <2> QED
      BY <1>1, <2>1, <2>2, <2>3, <2>4
  <1>5. /\ t \in Request /\ t.kind = tx[r].kind /\ t.at = at /\ t.i = tx[r].i /\ t.e = tx[r].e
        /\ t.w = tx[r].w /\ t.as = tx[r].as /\ t.holds = tx[r].holds \cup {tx[r].i}
        /\ t.opens = tx[r].opens /\ t.row = row /\ t.new = tx[r].new
    BY <1>1, <1>2, <1>3, <1>4 DEF Request, Stages, Keys
  <1> HIDE DEF t, at, row
  <1>6. tx[r].opens = {}
    BY <1>1 DEF Good, Opening
  <1>7. t.row = [t.row EXCEPT !.status = "accepted", !.email = t.e, !.workspace = t.w, !.role = t.as]
    BY <1>3, <1>5 DEF Invitation
  <1>8. Invited(t)
    BY <1>2, <1>5, <1>7 DEF Invited
  <1>9. Accepting(t)
    BY <1>1, <1>4, <1>5 DEF Good, Accepting
  <1>10. Viewing(t)
    BY <1>1, <1>4, <1>5 DEF Good, Viewing
  <1>11. Good(t)
    BY <1>1, <1>5, <1>6, <1>8, <1>9, <1>10, <1>4 DEF Good, Founding, Entering, Administering, Opening
  <1> QED
    BY <1>1, <1>5, <1>11, SetIInv

\* The session opened is that of a member, or of one committed with it.
LEMMA StartSessionIInv ==
  ASSUME IInv, NEW r \in Requests, StartSession(r)
  PROVE  IInv' /\ UNCHANGED role
  <1> DEFINE s == [user |-> tx[r].e, workspace |-> tx[r].w]
             t == [tx[r] EXCEPT !.at = "done", !.opens = {s}]
  <1>1. /\ tx[r] \in Request /\ Good(tx[r]) /\ tx[r].at = "opening" /\ Set(r, t)
        /\ tx[r].kind \in {"found", "accept", "login", "choose", "logout"}
    BY StageKinds DEF StartSession
  <1>2. s \in Session /\ s.user = tx[r].e /\ s.workspace = tx[r].w
    BY <1>1 DEF Request, Session
  <1>3. /\ t \in Request /\ t.kind = tx[r].kind /\ t.at = "done" /\ t.i = tx[r].i /\ t.e = tx[r].e
        /\ t.w = tx[r].w /\ t.as = tx[r].as /\ t.holds = tx[r].holds /\ t.opens = {s}
        /\ t.row = tx[r].row /\ t.new = tx[r].new
    BY <1>1, <1>2 DEF Request, Stages
  <1> HIDE DEF t, s
  <1>4. /\ tx[r].e \in user
        /\ tx[r].w # Nil => IsMember(tx[r].e, tx[r].w) \/ <<tx[r].e, tx[r].w>> \in tx[r].holds
    BY <1>1 DEF Good, Founding, Accepting, Entering
  <1>5. Opening(t)
    BY <1>2, <1>3, <1>4 DEF Opening
  <1>6. Founding(t)
    BY <1>1, <1>3 DEF Good, Founding
  <1>7. Accepting(t) /\ Invited(t)
    BY <1>1, <1>3 DEF Good, Accepting, Invited
  <1>8. Viewing(t) /\ Entering(t) /\ Administering(t)
    BY <1>1, <1>3 DEF Good, Viewing, Entering, Administering
  <1> QED
    BY <1>1, <1>3, <1>5, <1>6, <1>7, <1>8, SetIInv DEF Good

\* Who logs in enters a workspace of hers.
LEMMA LoginIInv ==
  ASSUME IInv, NEW r \in Requests, NEW e \in Emails, Login(r, e)
  PROVE  IInv' /\ UNCHANGED role
  <1>1. CASE Drop(r)
    BY <1>1, DropIInv
  <1>2. ASSUME NEW w \in MembershipsOf(e) \cup {Nil},
               Set(r, [Idle EXCEPT !.kind = "login", !.at = "opening", !.e = e, !.w = w])
        PROVE  IInv' /\ UNCHANGED role
    <2> DEFINE t == [Idle EXCEPT !.kind = "login", !.at = "opening", !.e = e, !.w = w]
    <2>1. w \in Workspaces \cup {Nil} /\ (w # Nil => IsMember(e, w))
      BY DEF MembershipsOf
    <2>2. /\ t \in Request /\ t.kind = "login" /\ t.at = "opening" /\ t.e = e /\ t.w = w
          /\ t.holds = {} /\ t.opens = {}
      BY <2>1, IdleGood DEF Idle, Request, Stages
    <2> HIDE DEF t
    <2>3. Good(t)
      BY <2>1, <2>2 DEF Login, Good, Founding, Invited, Accepting, Viewing, Entering, Administering, Opening
    <2>4. Set(r, t)
      BY <1>2 DEF t
    <2> QED
      BY <2>2, <2>3, <2>4, SetIInv
  <1> QED
    BY <1>1, <1>2 DEF Login

\* A session is moved only to a workspace of its identity.
LEMMA ChooseWorkspaceIInv ==
  ASSUME IInv, NEW r \in Requests, NEW s \in session, NEW w \in Workspaces, ChooseWorkspace(r, s, w)
  PROVE  IInv' /\ UNCHANGED role
  <1> DEFINE o == [s EXCEPT !.workspace = w]
             t == [Idle EXCEPT !.kind = "choose", !.at = "done", !.e = s.user, !.closes = {s}, !.opens = {o}]
  <1>1. CASE Set(r, t) /\ IsMember(s.user, w)
    <2>1. s \in Session /\ s.user \in Emails /\ s.user \in user
      BY DEF IInv, TypeOK, Session, SessionBacked
    <2>2. o \in Session /\ o.user = s.user /\ o.workspace = w
      BY <2>1 DEF Session
    <2>3. t \in Request /\ t.kind = "choose" /\ t.at = "done" /\ t.holds = {} /\ t.opens = {o}
      BY <2>1, <2>2, IdleGood DEF Idle, Request, Stages
    <2> HIDE DEF t, o
    <2>4. Good(t)
      BY <1>1, <2>1, <2>2, <2>3 DEF Good, Founding, Invited, Accepting, Viewing, Entering, Administering, Opening
    <2> QED
      BY <1>1, <2>3, <2>4, SetIInv
  <1> QED
    BY <1>1, DropIInv DEF ChooseWorkspace

\* Logging out writes nothing else.
LEMMA LogoutIInv ==
  ASSUME IInv, NEW r \in Requests, NEW s \in session, Logout(r, s)
  PROVE  IInv' /\ UNCHANGED role
  <1> DEFINE t == [Idle EXCEPT !.kind = "logout", !.at = "done", !.closes = {s}]
  <1>1. t \in Request /\ t.kind = "logout" /\ t.at = "done" /\ t.holds = {} /\ t.opens = {}
    BY IdleGood DEF Idle, Request, Stages, IInv, TypeOK
  <1>2. Set(r, t)
    BY DEF Logout
  <1> HIDE DEF t
  <1>3. Good(t)
    BY <1>1 DEF Good, Founding, Invited, Accepting, Viewing, Entering, Administering, Opening
  <1> QED
    BY <1>1, <1>2, <1>3, SetIInv

\* An administrator writes a row that is not settled and keeps its address.
LEMMA WriteInvitation ==
  ASSUME IInv, NEW r \in Requests, NEW i \in Invitations, NEW row \in Invitation, Free(r, i),
         row.status \in {"pending", "revoked"},
         invitation[i].status # "absent" =>
             /\ row.email = invitation[i].email /\ row.workspace = invitation[i].workspace
             /\ row.role = invitation[i].role,
         Set(r, [Idle EXCEPT !.at = "done", !.i = i, !.holds = {i}, !.row = row])
  PROVE  IInv' /\ UNCHANGED role
  <1> DEFINE t == [Idle EXCEPT !.at = "done", !.i = i, !.holds = {i}, !.row = row]
  <1>1. /\ t \in Request /\ t.kind = "admin" /\ t.at = "done" /\ t.i = i /\ t.holds = {i} /\ t.row = row
        /\ t.opens = {}
    BY IdleGood DEF Idle, Request, Stages, Keys
  <1>2. Set(r, t)
    OBVIOUS
  <1> HIDE DEF t
  <1>3. Good(t)
    BY <1>1 DEF Good, Founding, Invited, Accepting, Viewing, Entering, Administering, Opening
  <1> QED
    BY <1>1, <1>2, <1>3, SetIInv

\* So do inviting, revoking and sending again.
LEMMA AdministerIInv ==
  ASSUME IInv, NEW r \in Requests, NEW i \in Invitations,
         \/ \E e \in Emails, w \in Workspaces, as \in Roles : Invite(r, i, e, w, as)
         \/ Revoke(r, i) \/ Resend(r, i)
  PROVE  IInv' /\ UNCHANGED role
  <1> USE IdentityAssumption
  <1>1. invitation[i] \in Invitation
    BY DEF IInv, TypeOK
  <1>2. ASSUME NEW e \in Emails, NEW w \in Workspaces, NEW as \in Roles, Invite(r, i, e, w, as)
        PROVE  IInv' /\ UNCHANGED role
    <2> DEFINE row == [status |-> "pending", email |-> Lower[e], workspace |-> w, role |-> as,
                       link |-> 1, expired |-> FALSE]
    <2>0. Lower[e] \in Emails /\ 1 \in 0..MaxLinks
      OBVIOUS
    <2>1. row \in Invitation /\ row.status = "pending"
      BY <2>0 DEF Invitation
    <2>2. /\ Free(r, i) /\ invitation[i].status = "absent"
          /\ Set(r, [Idle EXCEPT !.at = "done", !.i = i, !.holds = {i}, !.row = row])
      BY <1>2 DEF Invite
    <2> HIDE DEF row
    <2> QED
      BY <2>1, <2>2, WriteInvitation
  <1>3. CASE Revoke(r, i)
    <2> DEFINE row == [invitation[i] EXCEPT !.status = "revoked"]
    <2>1. /\ row \in Invitation /\ row.status = "revoked" /\ row.email = invitation[i].email
          /\ row.workspace = invitation[i].workspace /\ row.role = invitation[i].role
      BY <1>1 DEF Invitation
    <2>2. /\ Free(r, i) /\ Set(r, [Idle EXCEPT !.at = "done", !.i = i, !.holds = {i}, !.row = row])
      BY <1>3 DEF Revoke
    <2> HIDE DEF row
    <2> QED
      BY <2>1, <2>2, WriteInvitation
  <1>4. CASE Resend(r, i)
    <2> DEFINE row == [invitation[i] EXCEPT !.status = "pending", !.link = @ + 1, !.expired = FALSE]
    <2>1. invitation[i].link + 1 \in 0..MaxLinks
      BY <1>1, <1>4 DEF Resend, Invitation
    <2>2. /\ row \in Invitation /\ row.status = "pending" /\ row.email = invitation[i].email
          /\ row.workspace = invitation[i].workspace /\ row.role = invitation[i].role
      BY <1>1, <2>1 DEF Invitation
    <2>3. /\ Free(r, i) /\ Set(r, [Idle EXCEPT !.at = "done", !.i = i, !.holds = {i}, !.row = row])
      BY <1>4 DEF Resend
    <2> HIDE DEF row
    <2> QED
      BY <2>2, <2>3, WriteInvitation
  <1> QED
    BY <1>2, <1>3, <1>4

\* A role is changed for a member only.
LEMMA SetRoleIInv ==
  ASSUME IInv, NEW r \in Requests, NEW e \in Emails, NEW w \in Workspaces, NEW as \in Roles,
         SetRole(r, e, w, as)
  PROVE  IInv' /\ UNCHANGED role
  <1> DEFINE t == [Idle EXCEPT !.at = "done", !.e = e, !.w = w, !.as = as, !.holds = {<<e, w>>}]
  <1>0. <<e, w>> \in Keys
    BY DEF Keys
  <1>1. /\ t \in Request /\ t.kind = "admin" /\ t.at = "done" /\ t.e = e /\ t.w = w
        /\ t.holds = {<<e, w>>} /\ t.opens = {}
    <2>1. {<<e, w>>} \in SUBSET Keys
      BY <1>0
    <2> HIDE DEF Keys
    <2> QED
      BY <2>1, IdleGood DEF Idle, Request, Stages
  <1>2. Set(r, t) /\ IsMember(e, w) /\ Free(r, <<e, w>>)
    BY DEF SetRole
  <1> HIDE DEF t
  <1>3. Good(t)
    BY <1>1, <1>2 DEF Good, Founding, Invited, Accepting, Viewing, Entering, Administering, Opening
  <1> QED
    BY <1>1, <1>2, <1>3, SetIInv

----------------------------------------------------------------------------
\* A request stays sound when others only add identities and members, keep the
\* addresses of invitations and leave alone what it has written.
LEMMA GoodKept ==
  ASSUME NEW u \in Request, Good(u), TypeOK, user \subseteq user',
         \A e \in Emails, w \in Workspaces : role[e][w] # "none" => role'[e][w] # "none",
         \A i \in Invitations :
             /\ invitation[i].status # "absent" =>
                   /\ invitation'[i].status # "absent"
                   /\ invitation'[i].email = invitation[i].email
                   /\ invitation'[i].workspace = invitation[i].workspace
                   /\ invitation'[i].role = invitation[i].role
             /\ i \in u.holds /\ invitation[i].status = "absent" => invitation'[i].status = "absent",
         u.w \in u.holds /\ u.w \in workspace' => u.w \in workspace
  PROVE  Good(u)'
  <1>1. u.e \in Emails /\ u.w \in Workspaces \cup {Nil} /\ u.opens \subseteq Session
    BY DEF Request
  <1>2. u.kind \in {"view", "accept"} /\ u.at # "idle" => u.w \in Workspaces
    BY DEF Good, Invited, TypeOK, Invitation
  <1>3. Founding(u)'
    BY <1>1 DEF Good, Founding, IsMember
  <1>4. Invited(u)'
    BY DEF Good, Invited
  <1>5. Accepting(u)'
    BY <1>1, <1>2 DEF Good, Accepting, IsMember
  <1>6. Viewing(u)'
    BY <1>1, <1>2 DEF Good, Viewing, IsMember
  <1>7. Entering(u)'
    BY <1>1 DEF Good, Entering, IsMember
  <1>8. Administering(u)'
    BY <1>1 DEF Good, Administering, IsMember
  <1>9. Opening(u)'
    <2>1. \A s \in u.opens : s.user \in Emails /\ s.workspace \in Workspaces \cup {Nil}
      BY <1>1 DEF Session
    <2> QED
      BY <2>1 DEF Good, Opening, IsMember
  <1> QED
    BY <1>3, <1>4, <1>5, <1>6, <1>7, <1>8, <1>9 DEF Good

\* Time passes over sessions and over invitations nobody is writing.
LEMMA ExpireIInv ==
  ASSUME IInv, Expire PROVE IInv' /\ UNCHANGED role
  <1>1. session' \subseteq session /\ UNCHANGED <<workspace, user, role, tx>>
    BY DEF Expire
  <1>2. /\ invitation' \in [Invitations -> Invitation]
        /\ \A i \in Invitations :
              /\ invitation'[i].status = invitation[i].status
              /\ invitation'[i].email = invitation[i].email
              /\ invitation'[i].workspace = invitation[i].workspace
              /\ invitation'[i].role = invitation[i].role
    <2>1. CASE UNCHANGED invitation
      BY <2>1 DEF IInv, TypeOK
    <2>2. ASSUME NEW i \in Invitations, invitation' = [invitation EXCEPT ![i].expired = TRUE]
          PROVE  <1>2!1 /\ <1>2!2
      BY <2>2 DEF IInv, TypeOK, Invitation
    <2> QED
      BY <2>1, <2>2 DEF Expire
  <1>3. TypeOK' /\ Exclusive'
    BY <1>1, <1>2 DEF IInv, TypeOK, Exclusive
  <1>4. AcceptedMeansMember' /\ SessionBacked' /\ NoOrphans'
    BY <1>1, <1>2 DEF IInv, AcceptedMeansMember, SessionBacked, NoOrphans, MembershipsOf, IsMember
  <1>5. ASSUME NEW q \in Requests PROVE Good(tx[q])'
    <2>1. PICK u \in Request : u = tx[q] /\ tx'[q] = u
      BY <1>1 DEF IInv, TypeOK
    <2>2. Good(u)'
      BY <1>1, <1>2, <2>1, GoodKept DEF IInv
    <2> QED
      BY <2>1, <2>2
  <1> QED
    BY <1>1, <1>3, <1>4, <1>5 DEF IInv

----------------------------------------------------------------------------
\* What a transaction has written when it commits, by kind of key.
LEMMA HoldsOf ==
  ASSUME IInv, NEW t \in Request, Good(t), t.at \in {"provisioned", "done"}
  PROVE  /\ \A w \in Workspaces \cap t.holds :
               /\ w = t.w /\ w \notin workspace /\ t.as = "Admin" /\ t.e \in t.holds
               /\ <<t.e, w>> \in t.holds
         /\ \A e \in Emails \cap t.holds :
               e = t.e /\ t.w \in Workspaces /\ <<e, t.w>> \in t.holds
         /\ \A i \in Invitations \cap t.holds :
               /\ i = t.i /\ t.row \in Invitation /\ t.row.status # "absent"
               /\ invitation[i].status # "absent" =>
                     /\ t.row.email = invitation[i].email
                     /\ t.row.workspace = invitation[i].workspace /\ t.row.role = invitation[i].role
               /\ t.row.status = "accepted" =>
                     \/ IsMember(t.row.email, t.row.workspace)
                     \/ <<t.row.email, t.row.workspace>> \in t.holds
         /\ \A e \in Emails, w \in Workspaces : <<e, w>> \in t.holds =>
               /\ e = t.e /\ w = t.w
               /\ \/ IsMember(e, w)
                  \/ w \in t.holds /\ w \notin workspace /\ t.as = "Admin"
                  \/ /\ t.i \in t.holds /\ t.i \in Invitations /\ t.row.status = "accepted"
                     /\ t.row.email = e /\ t.row.workspace = w /\ t.row.role = t.as
                     /\ invitation[t.i].email = e /\ invitation[t.i].workspace = w
  <1> USE IdentityAssumption
  <1>1. t.e \in Emails /\ t.w \in Workspaces \cup {Nil} /\ t.row \in Invitation
        /\ t.i \in Invitations \cup {Nil}
    BY DEF Request
  <1>2. \A e \in Emails, w \in Workspaces : <<e, w>> \notin Emails \cup Workspaces \cup Invitations
    BY DEF IInv
  <1>3. CASE t.kind = "found"
    <2>1. \/ t.holds = {}
          \/ /\ t.holds = {t.w, t.e, <<t.e, t.w>>} /\ t.w \in Workspaces /\ t.as = "Admin"
             /\ t.w \notin workspace
      <3>1. CASE t.at = "done"
        BY <1>3, <3>1 DEF Good, Founding
      <3>2. CASE t.at = "provisioned"
        <4>1. t.holds = {t.w} \cup {t.e} \cup {<<t.e, t.w>>}
          BY <1>3, <3>2 DEF Good, Founding
        <4>2. t.holds = {t.w, t.e, <<t.e, t.w>>} /\ t.w \in t.holds
          BY <4>1
        <4> QED
          BY <1>3, <3>2, <4>2 DEF Good, Founding
      <3> QED
        BY <3>1, <3>2
    <2> QED
      BY <1>1, <1>2, <2>1
  <1>4. CASE t.kind = "accept"
    <2>1. /\ t.holds \in {{}, {<<t.e, t.w>>, t.i}, {t.e, <<t.e, t.w>>, t.i}}
          /\ t.i \in Invitations /\ invitation[t.i].status # "absent"
          /\ t.e = invitation[t.i].email /\ t.w = invitation[t.i].workspace /\ t.as = invitation[t.i].role
          /\ t.i \in t.holds => /\ t.row.status = "accepted" /\ t.row.email = t.e
                                /\ t.row.workspace = t.w /\ t.row.role = t.as
      BY <1>1, <1>4 DEF Good, Accepting, Invited, Invitation
    <2>2. t.w \in Workspaces
      BY <2>1 DEF IInv, TypeOK, Invitation
    <2>3. /\ Workspaces \cap t.holds = {} /\ Emails \cap t.holds \subseteq {t.e}
          /\ Invitations \cap t.holds \subseteq {t.i}
          /\ t.holds # {} => <<t.e, t.w>> \in t.holds /\ t.i \in t.holds
      BY <1>1, <1>2, <2>1, <2>2
    <2>4. \A e \in Emails, w \in Workspaces : <<e, w>> \in t.holds => e = t.e /\ w = t.w
      BY <1>1, <1>2, <2>1, <2>2
    <2> QED
      BY <1>1, <2>1, <2>2, <2>3, <2>4
  <1>5. CASE t.kind = "view"
    <2>1. /\ t.holds \subseteq {t.i} /\ t.i \in Invitations /\ IsMember(t.e, t.w)
          /\ t.e = invitation[t.i].email /\ t.w = invitation[t.i].workspace /\ t.as = invitation[t.i].role
          /\ t.i \in t.holds => /\ t.row.status = "accepted" /\ t.row.email = t.e
                                /\ t.row.workspace = t.w /\ t.row.role = t.as
      BY <1>1, <1>5 DEF Good, Viewing, Invited, Invitation
    <2> QED
      BY <1>1, <1>2, <2>1
  <1>6. CASE t.kind \in {"login", "choose", "logout"}
    <2>1. t.holds = {}
      BY <1>6 DEF Good, Entering
    <2> QED
      BY <2>1
  <1>7. CASE t.kind = "admin"
    <2>1. \/ /\ t.i \in Invitations /\ t.holds = {t.i} /\ t.row.status \in {"pending", "revoked"}
             /\ invitation[t.i].status # "absent" =>
                    /\ t.row.email = invitation[t.i].email
                    /\ t.row.workspace = invitation[t.i].workspace /\ t.row.role = invitation[t.i].role
          \/ t.w \in Workspaces /\ t.holds = {<<t.e, t.w>>} /\ IsMember(t.e, t.w)
      BY <1>7 DEF Good, Administering
    <2> QED
      BY <1>1, <1>2, <2>1
  <1> QED
    BY <1>3, <1>4, <1>5, <1>6, <1>7 DEF Request

\* What AdmittedOnce says of one step.
Admission ==
    \A e \in Emails, w \in Workspaces :
        role[e][w] = "none" /\ role'[e][w] # "none" =>
           \/ w \notin workspace /\ w \in workspace' /\ role'[e][w] = "Admin"
           \/ \E i \in Invitations :
                 /\ invitation[i].status # "accepted" /\ invitation'[i].status = "accepted"
                 /\ invitation'[i].email = e /\ invitation'[i].workspace = w
                 /\ invitation'[i].role = role'[e][w]

\* A commit adds identities, members and workspaces, keeps the addresses of
\* invitations, and leaves nobody half provisioned.
LEMMA InstallKeeps ==
  ASSUME IInv, NEW t \in Request, Good(t), t.at \in {"provisioned", "done"}, Install(t)
  PROVE  /\ user \subseteq user' /\ user' \subseteq Emails
         /\ workspace' \subseteq Workspaces
         /\ role' \in [Emails -> [Workspaces -> Roles \cup {"none"}]]
         /\ \A e \in Emails, w \in Workspaces :
               /\ role[e][w] # "none" => role'[e][w] # "none"
               /\ <<e, w>> \in t.holds => role'[e][w] # "none"
         /\ invitation' \in [Invitations -> Invitation]
         /\ \A i \in Invitations :
               /\ i \notin t.holds => invitation'[i] = invitation[i]
               /\ invitation[i].status # "absent" =>
                     /\ invitation'[i].status # "absent"
                     /\ invitation'[i].email = invitation[i].email
                     /\ invitation'[i].workspace = invitation[i].workspace
                     /\ invitation'[i].role = invitation[i].role
         /\ \A w \in workspace' : w \in workspace \/ w \in t.holds
         /\ AcceptedMeansMember' /\ NoOrphans' /\ Admission
  <1> USE DEF Install
  <1>1. t.as \in Roles /\ t.as # "none" /\ t.row \in Invitation /\ "none" \notin Roles
    BY DEF Request, Roles
  <1>2. /\ user \subseteq user' /\ user' \subseteq Emails /\ workspace' \subseteq Workspaces
        /\ \A w \in workspace' : w \in workspace \/ w \in t.holds
    BY DEF IInv, TypeOK
  <1>3. \A e \in Emails, w \in Workspaces :
           role'[e][w] = IF <<e, w>> \in t.holds THEN t.as ELSE role[e][w]
    OBVIOUS
  <1>4. role' \in [Emails -> [Workspaces -> Roles \cup {"none"}]]
    BY <1>1 DEF IInv, TypeOK
  <1>5. \A e \in Emails, w \in Workspaces :
           /\ role[e][w] # "none" => role'[e][w] # "none"
           /\ <<e, w>> \in t.holds => role'[e][w] # "none"
    BY <1>1, <1>3
  <1>6. \A i \in Invitations : invitation'[i] = IF i \in t.holds THEN t.row ELSE invitation[i]
    OBVIOUS
  <1>7. invitation' \in [Invitations -> Invitation]
    BY <1>1 DEF IInv, TypeOK
  <1>8. \A i \in Invitations :
           /\ i \notin t.holds => invitation'[i] = invitation[i]
           /\ invitation[i].status # "absent" =>
                 /\ invitation'[i].status # "absent"
                 /\ invitation'[i].email = invitation[i].email
                 /\ invitation'[i].workspace = invitation[i].workspace
                 /\ invitation'[i].role = invitation[i].role
    BY <1>6, HoldsOf
  <1> HIDE DEF Install
  <1>9. AcceptedMeansMember'
    <2> SUFFICES ASSUME NEW i \in Invitations, invitation'[i].status = "accepted"
                 PROVE  role'[invitation'[i].email][invitation'[i].workspace] # "none"
      BY DEF AcceptedMeansMember, IsMember
    <2>1. invitation'[i].email \in Emails /\ invitation'[i].workspace \in Workspaces
      BY <1>7 DEF Invitation
    <2>2. CASE i \in t.holds
      <3>1. /\ invitation'[i] = t.row /\ t.row.status = "accepted"
        BY <1>6, <2>2
      <3>2. IsMember(t.row.email, t.row.workspace) \/ <<t.row.email, t.row.workspace>> \in t.holds
        BY <2>2, <3>1, HoldsOf
      <3> QED
        BY <1>5, <2>1, <3>1, <3>2 DEF IsMember
    <2>3. CASE i \notin t.holds
      BY <1>5, <1>6, <2>1, <2>3 DEF IInv, AcceptedMeansMember, IsMember
    <2> QED
      BY <2>2, <2>3
  <1>10. NoOrphans'
    <2>1. ASSUME NEW e \in user' PROVE \E w \in Workspaces : role'[e][w] # "none"
      <3>1. CASE e \in user
        <4>1. PICK w \in Workspaces : role[e][w] # "none"
          BY <3>1 DEF IInv, NoOrphans, MembershipsOf, IsMember
        <4> QED
          BY <1>2, <1>5, <4>1
      <3>2. CASE e \notin user
        <4>1. e \in Emails \cap t.holds
          BY <1>2, <3>2 DEF Install
        <4>2. t.w \in Workspaces /\ <<e, t.w>> \in t.holds
          BY <4>1, HoldsOf
        <4> QED
          BY <1>5, <4>1, <4>2
      <3> QED
        BY <3>1, <3>2
    <2>2. ASSUME NEW w \in workspace' PROVE \E e \in user' : role'[e][w] # "none"
      <3>1. CASE w \in workspace
        <4>1. PICK e \in user : role[e][w] # "none"
          BY <3>1 DEF IInv, NoOrphans, IsMember
        <4> QED
          BY <1>2, <1>5, <4>1
      <3>2. CASE w \notin workspace
        <4>1. w \in Workspaces \cap t.holds
          BY <1>2, <3>2
        <4>2. t.e \in Emails /\ t.e \in t.holds /\ <<t.e, w>> \in t.holds
          BY <4>1, HoldsOf DEF Request
        <4>3. t.e \in user'
          BY <4>2 DEF Install
        <4> QED
          BY <1>5, <4>1, <4>2, <4>3
      <3> QED
        BY <3>1, <3>2
    <2> QED
      BY <2>1, <2>2 DEF NoOrphans, MembershipsOf, IsMember
  <1>11. Admission
    <2> SUFFICES ASSUME NEW e \in Emails, NEW w \in Workspaces, role[e][w] = "none", role'[e][w] # "none"
                 PROVE  \/ w \notin workspace /\ w \in workspace' /\ role'[e][w] = "Admin"
                        \/ \E i \in Invitations :
                              /\ invitation[i].status # "accepted" /\ invitation'[i].status = "accepted"
                              /\ invitation'[i].email = e /\ invitation'[i].workspace = w
                              /\ invitation'[i].role = role'[e][w]
      BY DEF Admission
    <2>1. <<e, w>> \in t.holds /\ role'[e][w] = t.as /\ ~IsMember(e, w)
      BY <1>3 DEF IsMember
    <2>2. CASE w \in t.holds /\ w \notin workspace /\ t.as = "Admin"
      BY <2>1, <2>2 DEF Install
    <2>3. CASE /\ t.i \in t.holds /\ t.i \in Invitations /\ t.row.status = "accepted"
               /\ t.row.email = e /\ t.row.workspace = w /\ t.row.role = t.as
               /\ invitation[t.i].email = e /\ invitation[t.i].workspace = w
      <3>1. invitation[t.i].status # "accepted"
        BY <2>1, <2>3 DEF IInv, AcceptedMeansMember
      <3> QED
        BY <1>6, <2>1, <2>3, <3>1
    <2>4. \/ IsMember(e, w)
          \/ w \in t.holds /\ w \notin workspace /\ t.as = "Admin"
          \/ /\ t.i \in t.holds /\ t.i \in Invitations /\ t.row.status = "accepted"
             /\ t.row.email = e /\ t.row.workspace = w /\ t.row.role = t.as
             /\ invitation[t.i].email = e /\ invitation[t.i].workspace = w
      <3>1. \A f \in Emails, v \in Workspaces : <<f, v>> \in t.holds =>
               /\ f = t.e /\ v = t.w
               /\ \/ IsMember(f, v)
                  \/ v \in t.holds /\ v \notin workspace /\ t.as = "Admin"
                  \/ /\ t.i \in t.holds /\ t.i \in Invitations /\ t.row.status = "accepted"
                     /\ t.row.email = f /\ t.row.workspace = v /\ t.row.role = t.as
                     /\ invitation[t.i].email = f /\ invitation[t.i].workspace = v
        BY HoldsOf
      <3> QED
        BY ONLY <2>1, <3>1, e \in Emails, w \in Workspaces
    <2> QED
      BY <2>1, <2>2, <2>3, <2>4
  <1> QED
    BY <1>2, <1>4, <1>5, <1>7, <1>8, <1>9, <1>10, <1>11

\* A transaction that commits and goes on, or ends, leaves the others sound.
LEMMA InstallIInv ==
  ASSUME IInv, NEW r \in Requests, NEW t \in Request, t = tx[r], t.at \in {"provisioned", "done"},
         Install(t), NEW u \in Request, tx' = [tx EXCEPT ![r] = u], Good(u)', u.holds = {},
         session' \subseteq Session, SessionBacked'
  PROVE  IInv' /\ Admission
  <1> USE IdentityAssumption
  <1>1. Good(t) /\ TypeOK
    BY DEF IInv
  <1>2. tx'[r] = u /\ \A q \in Requests \ {r} : tx'[q] = tx[q]
    BY <1>1 DEF TypeOK
  <1>3. TypeOK'
    BY <1>1, InstallKeeps DEF TypeOK
  <1>4. Exclusive'
    BY <1>2 DEF IInv, Exclusive
  <1>5. ASSUME NEW q \in Requests PROVE Good(tx[q])'
    <2>1. CASE q = r
      BY <1>2, <2>1
    <2>2. CASE q # r
      <3>1. PICK v \in Request : v = tx[q] /\ tx'[q] = v
        BY <1>1, <1>2, <2>2 DEF TypeOK
      <3>2. Good(v) /\ v.holds \cap t.holds = {}
        BY <2>2, <3>1 DEF IInv, Exclusive
      <3>3. \A i \in Invitations :
              /\ invitation[i].status # "absent" =>
                    /\ invitation'[i].status # "absent"
                    /\ invitation'[i].email = invitation[i].email
                    /\ invitation'[i].workspace = invitation[i].workspace
                    /\ invitation'[i].role = invitation[i].role
              /\ i \in v.holds /\ invitation[i].status = "absent" => invitation'[i].status = "absent"
        BY <1>1, <3>2, InstallKeeps
      <3>4. v.w \in v.holds /\ v.w \in workspace' => v.w \in workspace
        BY <1>1, <3>2, InstallKeeps
      <3>5. /\ user \subseteq user'
            /\ \A e \in Emails, w \in Workspaces : /\ role[e][w] # "none" => role'[e][w] # "none"
                                                   /\ <<e, w>> \in t.holds => role'[e][w] # "none"
        BY <1>1, InstallKeeps
      <3>6. Good(v)'
        BY <1>1, <3>2, <3>3, <3>4, <3>5, GoodKept
      <3> QED
        BY <3>1, <3>6
    <2> QED
      BY <2>1, <2>2
  <1>6. AcceptedMeansMember' /\ NoOrphans' /\ Admission
    BY <1>1, InstallKeeps
  <1> QED
    BY <1>3, <1>4, <1>5, <1>6 DEF IInv

\* The committed identity and membership are there before the session is opened.
LEMMA CommitOwnIInv ==
  ASSUME IInv, NEW r \in Requests, CommitOwn(r) PROVE IInv' /\ Admission
  <1> USE IdentityAssumption
  <1>1. PICK t \in Request : t = tx[r] /\ Good(t) /\ t.at = "provisioned" /\ Install(t)
    BY StageKinds DEF CommitOwn
  <1>2. PICK u \in Request : /\ u = [t EXCEPT !.at = "opening", !.holds = {}]
                             /\ tx' = [tx EXCEPT ![r] = u]
    BY <1>1 DEF CommitOwn, Request, Stages
  <1>3. /\ u.kind = t.kind /\ u.at = "opening" /\ u.e = t.e /\ u.w = t.w /\ u.as = t.as /\ u.new = t.new
        /\ u.i = t.i /\ u.row = t.row /\ u.opens = t.opens /\ u.holds = {}
    BY <1>1, <1>2 DEF Request
  <1>4. t.kind \in {"found", "accept"} /\ t.w \in Workspaces /\ t.e \in Emails
    BY <1>1, StageKinds DEF Request
  <1>5. t.new /\ t.e \in t.holds /\ <<t.e, t.w>> \in t.holds
    BY <1>1, <1>4 DEF Good, Founding, Accepting
  <1>6. t.e \in user' /\ role'[t.e][t.w] # "none"
    <2>1. t.e \in user'
      BY <1>1, <1>4, <1>5 DEF Install
    <2> QED
      BY <1>1, <1>4, <1>5, <2>1, InstallKeeps
  <1>7. TypeOK
    BY DEF IInv
  <1>8. \A i \in Invitations : invitation[i].status # "absent" =>
           /\ invitation'[i].status # "absent" /\ invitation'[i].email = invitation[i].email
           /\ invitation'[i].workspace = invitation[i].workspace
           /\ invitation'[i].role = invitation[i].role
    BY <1>1, InstallKeeps
  <1>9. Founding(u)'
    BY <1>1, <1>3, <1>4, <1>5, <1>6 DEF Good, Founding, IsMember
  <1>10. Invited(u)'
    BY <1>1, <1>3, <1>8 DEF Good, Invited
  <1>11. Accepting(u)'
    BY <1>1, <1>3, <1>4, <1>5, <1>6 DEF Accepting, IsMember
  <1>12. Opening(u)'
    BY <1>1, <1>3 DEF Good, Opening
  <1>13. Good(u)'
    BY <1>3, <1>4, <1>9, <1>10, <1>11, <1>12 DEF Good, Viewing, Entering, Administering
  <1>14. session' = session /\ session' \subseteq Session
    BY <1>7 DEF CommitOwn, TypeOK
  <1>15. SessionBacked'
    <2>1. /\ user \subseteq user'
          /\ \A e \in Emails, w \in Workspaces : /\ role[e][w] # "none" => role'[e][w] # "none"
                                                 /\ <<e, w>> \in t.holds => role'[e][w] # "none"
      BY <1>1, InstallKeeps
    <2>2. \A s \in session : s.user \in Emails /\ s.workspace \in Workspaces \cup {Nil}
      BY <1>7 DEF TypeOK, Session
    <2> QED
      BY <1>14, <2>1, <2>2 DEF IInv, SessionBacked, IsMember
  <1> QED
    BY <1>1, <1>2, <1>3, <1>13, <1>14, <1>15, InstallIInv

\* The session commits with, or after, what it stands for.
LEMMA CommitIInv ==
  ASSUME IInv, NEW r \in Requests, Commit(r) PROVE IInv' /\ Admission
  <1>1. PICK t \in Request : t = tx[r] /\ Good(t) /\ t.at = "done" /\ Install(t)
    BY StageKinds DEF Commit
  <1>2. PICK u \in Request : u = Idle /\ tx' = [tx EXCEPT ![r] = u]
    BY IdleGood DEF Commit
  <1>3. u.holds = {} /\ u.at = "idle" /\ u.opens = {}
    BY <1>2 DEF Idle
  <1>4. Good(u)'
    BY <1>3 DEF Good, Founding, Invited, Accepting, Viewing, Entering, Administering, Opening
  <1>5. session' \subseteq session \cup t.opens /\ t.opens \subseteq Session
    BY <1>1 DEF Commit, Request
  <1>6. session' \subseteq Session
    BY <1>5 DEF IInv, TypeOK
  <1>7. SessionBacked'
    <2>1. /\ user \subseteq user'
          /\ \A e \in Emails, w \in Workspaces : /\ role[e][w] # "none" => role'[e][w] # "none"
                                                 /\ <<e, w>> \in t.holds => role'[e][w] # "none"
      BY <1>1, InstallKeeps
    <2> SUFFICES ASSUME NEW s \in session'
                 PROVE  s.user \in user' /\ (s.workspace # Nil => role'[s.user][s.workspace] # "none")
      BY DEF SessionBacked, IsMember
    <2>2. s.user \in Emails /\ s.workspace \in Workspaces \cup {Nil}
      BY <1>6 DEF Session
    <2>3. CASE s \in session
      BY <2>1, <2>2, <2>3 DEF IInv, SessionBacked, IsMember
    <2>4. CASE s \in t.opens
      BY <1>1, <2>1, <2>2, <2>4 DEF Good, Opening, IsMember
    <2> QED
      BY <1>5, <2>3, <2>4
  <1> QED
    BY <1>1, <1>2, <1>3, <1>4, <1>6, <1>7, InstallIInv

\* Every step keeps the invariant and admits only whom AdmittedOnce allows.
LEMMA StepIInv == IInv /\ [Next]_vars => IInv' /\ Admission
  <1> SUFFICES ASSUME IInv, [Next]_vars PROVE IInv' /\ Admission
    OBVIOUS
  <1>0. ASSUME UNCHANGED role PROVE Admission
    BY <1>0 DEF Admission
  <1>1. CASE UNCHANGED vars
    <2>1. UNCHANGED <<workspace, user, role, invitation, session, tx>>
      BY <1>1 DEF vars
    <2>2. TypeOK' /\ Exclusive'
      BY <2>1 DEF IInv, TypeOK, Exclusive
    <2>3. AcceptedMeansMember' /\ SessionBacked'
      BY <2>1 DEF IInv, AcceptedMeansMember, SessionBacked, IsMember
    <2>4. NoOrphans'
      BY <2>1 DEF IInv, NoOrphans, MembershipsOf, IsMember
    <2>5. ASSUME NEW q \in Requests PROVE Good(tx[q])'
      <3>1. PICK u \in Request : u = tx[q] /\ tx'[q] = u
        BY <2>1 DEF IInv, TypeOK
      <3>2. Good(u)'
        BY <2>1, <3>1, GoodKept DEF IInv
      <3> QED
        BY <3>1, <3>2
    <2> QED
      BY <1>0, <2>1, <2>2, <2>3, <2>4, <2>5 DEF IInv
  <1>2. CASE Expire
    BY <1>0, <1>2, ExpireIInv
  <1>3. ASSUME NEW r \in Requests, Step(r) PROVE IInv' /\ Admission
    <2>1. CASE CommitOwn(r)
      BY <2>1, CommitOwnIInv
    <2>2. CASE Commit(r)
      BY <2>2, CommitIInv
    <2>3. CASE \/ \E e \in Emails, w \in Workspaces : Signup(r, e, w)
               \/ CreateWorkspace(r) \/ CreateUser(r) \/ CreateMembership(r)
               \/ \E i \in Invitations, n \in 1..MaxLinks, kind \in {"view", "accept"} :
                     FollowLink(r, i, n, kind)
               \/ ResolveIdentity(r) \/ ViewAsMember(r) \/ MarkAccepted(r) \/ StartSession(r)
      BY <1>0, <2>3, SignupIInv, CreateWorkspaceIInv, CreateUserIInv, CreateMembershipIInv,
         FollowLinkIInv, ResolveIdentityIInv, ViewAsMemberIInv, MarkAcceptedIInv, StartSessionIInv
    <2>4. CASE \/ \E e \in Emails : Login(r, e)
               \/ \E s \in session, w \in Workspaces : ChooseWorkspace(r, s, w)
               \/ \E s \in session : Logout(r, s)
               \/ Fail(r)
      BY <1>0, <2>4, LoginIInv, ChooseWorkspaceIInv, LogoutIInv, DropIInv DEF Fail
    <2>5. CASE \/ \E i \in Invitations, e \in Emails, w \in Workspaces, as \in Roles : Invite(r, i, e, w, as)
               \/ \E i \in Invitations : Revoke(r, i) \/ Resend(r, i)
               \/ \E e \in Emails, w \in Workspaces, as \in Roles : SetRole(r, e, w, as)
      BY <1>0, <2>5, AdministerIInv, SetRoleIInv
    <2> QED
      BY <1>3, <2>1, <2>2, <2>3, <2>4, <2>5 DEF Step
  <1> QED
    BY <1>1, <1>2, <1>3 DEF Next

\* The inductive invariant holds throughout.
LEMMA Inductive == Spec => []IInv
  BY InitIInv, StepIInv, PTL DEF Spec

\* Every variable keeps its type.
THEOREM TypeCorrect == Spec => []TypeOK
  <1>1. IInv => TypeOK
    BY DEF IInv
  <1> QED
    BY <1>1, Inductive, PTL

\* Once an invitation is accepted the identity it is addressed to is a member of
\* its workspace (InviteAccept, InviteAcceptForm, MarkAccepted, Reissue).
THEOREM AcceptedAreMembers == Spec => []AcceptedMeansMember
  <1>1. IInv => AcceptedMeansMember
    BY DEF IInv
  <1> QED
    BY <1>1, Inductive, PTL

\* A session stands for an identity that exists and, when it names a workspace,
\* for a member of it (startSession, Login, SelectWorkspace).
THEOREM SessionsAreBacked == Spec => []SessionBacked
  <1>1. IInv => SessionBacked
    BY DEF IInv
  <1> QED
    BY <1>1, Inductive, PTL

\* Nobody and nothing is left half provisioned (Signup, InviteAccept).
THEOREM NobodyIsOrphaned == Spec => []NoOrphans
  <1>1. IInv => NoOrphans
    BY DEF IInv
  <1> QED
    BY <1>1, Inductive, PTL

\* Nobody becomes a member but by founding the workspace, or in the commit that
\* settles an invitation made out to her (Signup, InviteAccept).
THEOREM AdmittedOnlyOnce == Spec => AdmittedOnce
  <1>1. IInv /\ [Next]_vars => [Admission]_vars
    BY StepIInv
  <1>2. Spec => [][Admission]_vars
    BY <1>1, Inductive, PTL DEF Spec
  <1> QED
    BY <1>2 DEF AdmittedOnce, Admission
----------------------------------------------------------------------------
(* Permissions.  Every change to what a check goes by ends the triggers it  *)
(* overtakes; an administrator alone deletes the rows that are there.       *)

\* What a trigger has read still holds, and decided as it should, as long as
\* nothing has changed since it began.
Current(t) ==
    t.at \in A!Deciding /\ t.clean =>
        /\ t.at = "signed" => t.roles = {direct[t.who]} \ {Nil}
        /\ t.at # "signed" => t.roles = A!Held(t.who)
        /\ t.at \in {"read", "accepted", "refused"} => t.rec = record
        /\ t.at = "accepted" => A!CanTrigger(t.who, t.roles, record)
        /\ t.at = "refused" => ~A!CanTrigger(t.who, t.roles, record)

Quiet == A!Deciding \cup {"idle"}

\* The rows a SetMembers has found, or deleted, are its group's members.
Saving(t) ==
    /\ t.at = "deleting" => t.seen = member[t.group]
    /\ t.at \in {"deleted", "inserted"} => t.gone = member[t.group]

AloneAtWork ==
    /\ \A q, r \in Requests : trigger[q].at \notin Quiet /\ trigger[r].at \notin Quiet => q = r
    /\ \A r \in Requests : Saving(trigger[r])
    /\ \A g \in Groups : member[g] = asked[g]

AccessInv ==
    /\ A!TypeOK
    /\ \A r \in Requests : Current(trigger[r])
    /\ \A g \in Groups : asked[g] \subseteq member[g]
    /\ ~overlap => AloneAtWork

\* Initially nobody is at work.
LEMMA InitAccess == A!Init => AccessInv
  <1> SUFFICES ASSUME A!Init PROVE AccessInv
    OBVIOUS
  <1>1. \A r \in Requests : trigger[r] = [at |-> "idle"]
    BY DEF A!Init, A!Idle
  <1>2. A!TypeOK
    <2>1. /\ direct \in [Persons -> AppRoles \cup {Nil}]
          /\ groupRole \in [Groups -> AppRoles \cup {Nil}]
      BY AccessAssumption DEF A!Init
    <2>2. [at |-> "idle"] \in A!Tx
      BY DEF A!Tx
    <2>3. trigger \in [Requests -> A!Tx]
      BY <2>2 DEF A!Init, A!Idle
    <2> QED
      BY <2>1, <2>3, AccessAssumption DEF A!Init, A!TypeOK
  <1>3. \A r \in Requests : Current(trigger[r]) /\ Saving(trigger[r]) /\ trigger[r].at \in Quiet
    BY <1>1 DEF Current, A!Deciding, Saving, Quiet
  <1> QED
    BY <1>2, <1>3 DEF AccessInv, AloneAtWork, A!Init

\* What a trigger has read goes stale only by a commit.
LEMMA StaysCurrent ==
  ASSUME NEW t, Current(t), UNCHANGED <<rows, direct, groupRole, member, record>>
  PROVE  Current(t)'
  <1>1. A!Held(t.who)' = A!Held(t.who)
    BY DEF A!Held, A!GroupRoles
  <1>2. A!CanTrigger(t.who, t.roles, record)' <=> A!CanTrigger(t.who, t.roles, record)
    BY DEF A!CanTrigger, A!Grants, A!ResolveActorGate
  <1> QED
    BY <1>1, <1>2 DEF Current

\* A step of one request that commits nothing leaves the others what they know.
LEMMA SetAccess ==
  ASSUME AccessInv, NEW r \in Requests, NEW t, t \in A!Tx, Current(t), A!Set(r, t),
         ~overlap => /\ Saving(t)
                     /\ t.at \in Quiet \/ \A q \in Requests \ {r} : trigger[q].at \in Quiet
  PROVE  AccessInv'
  <1>1. /\ UNCHANGED <<rows, direct, groupRole, member, record, asked, overlap>>
        /\ trigger' \in [Requests -> A!Tx] /\ trigger'[r] = t
        /\ \A q \in Requests \ {r} : trigger'[q] = trigger[q]
    BY DEF A!Set, A!tables, AccessInv, A!TypeOK
  <1>2. A!TypeOK'
    BY <1>1 DEF AccessInv, A!TypeOK
  <1>3. \A q \in Requests : Current(trigger[q])'
    <2> SUFFICES ASSUME NEW q \in Requests PROVE Current(trigger[q])'
      OBVIOUS
    <2>1. PICK x : x = trigger'[q] /\ Current(x)
      BY <1>1 DEF AccessInv
    <2> QED
      BY <1>1, <2>1, StaysCurrent
  <1>4. ~overlap => AloneAtWork'
    BY <1>1 DEF AccessInv, AloneAtWork, Saving
  <1> QED
    BY <1>1, <1>2, <1>3, <1>4 DEF AccessInv

\* What a request keeps, by where it is.
LEMMA Keeps ==
  ASSUME NEW t \in A!Tx
  PROVE  /\ t.at \in A!Deciding =>
              t \in [at : A!Deciding, who : Persons, roles : SUBSET AppRoles, rec : A!Record,
                     clean : BOOLEAN]
         /\ t.at \in {"deleting", "deleted", "inserted"} =>
              t \in [at : {"deleting", "deleted", "inserted"}, group : Groups,
                     want : SUBSET Persons, seen : SUBSET Persons, gone : SUBSET Persons]
         /\ t.at = "writing" =>
              \/ \E u \in Persons : t.cell = <<"direct", u>> /\ t.value \in AppRoles \cup {Nil}
              \/ \E g \in Groups : t.cell = <<"group", g>> /\ t.value \in AppRoles \cup {Nil}
              \/ t.cell = <<"record", Nil>> /\ t.value \in A!Record
         /\ t.at \in A!Deciding \cup {"idle", "writing", "deleting", "deleted", "inserted"}
  BY DEF A!Tx, A!Deciding

\* The steps of a trigger.
LEMMA DecideAccess ==
  ASSUME AccessInv, NEW r \in Requests,
         \/ \E u \in Persons : A!ReadDirectRole(r, u)
         \/ A!ReadGroupRoles(r) \/ A!ReadRecord(r) \/ A!Check(r) \/ A!Answer(r)
  PROVE  AccessInv'
  <1>0. /\ trigger[r] \in A!Tx /\ Current(trigger[r]) /\ record \in A!Record
        /\ direct \in [Persons -> AppRoles \cup {Nil}]
        /\ groupRole \in [Groups -> AppRoles \cup {Nil}]
    BY DEF AccessInv, A!TypeOK
  <1>1. ASSUME NEW u \in Persons, A!ReadDirectRole(r, u) PROVE AccessInv'
    <2> DEFINE t == [at |-> "signed", who |-> u, roles |-> {direct[u]} \ {Nil}, rec |-> record,
                     clean |-> TRUE]
    <2>1. t \in A!Tx /\ Current(t) /\ Saving(t) /\ t.at \in Quiet
      BY <1>0 DEF A!Tx, A!Deciding, Current, Saving, Quiet
    <2>2. A!Set(r, t)
      BY <1>1 DEF A!ReadDirectRole
    <2> HIDE DEF t
    <2> QED
      BY <2>1, <2>2, SetAccess
  <1>2. CASE A!ReadGroupRoles(r)
    <2> DEFINE t == [trigger[r] EXCEPT !.at = "held",
                                       !.roles = @ \cup A!GroupRoles(trigger[r].who)]
    <2>1. trigger[r] \in [at : A!Deciding, who : Persons, roles : SUBSET AppRoles,
                          rec : A!Record, clean : BOOLEAN] /\ trigger[r].at = "signed"
      BY <1>0, <1>2, Keeps DEF A!ReadGroupRoles, A!Deciding
    <2>2. A!GroupRoles(trigger[r].who) \subseteq AppRoles
      BY <1>0 DEF A!GroupRoles
    <2>3. t \in A!Tx /\ Saving(t) /\ t.at \in Quiet
      BY <2>1, <2>2 DEF A!Tx, A!Deciding, Saving, Quiet
    <2>4. Current(t)
      BY <1>0, <2>1 DEF Current, A!Deciding, A!Held
    <2>5. A!Set(r, t)
      BY <1>2 DEF A!ReadGroupRoles
    <2> HIDE DEF t
    <2> QED
      BY <2>3, <2>4, <2>5, SetAccess
  <1>3. CASE A!ReadRecord(r)
    <2> DEFINE t == [trigger[r] EXCEPT !.at = "read", !.rec = record]
    <2>1. trigger[r] \in [at : A!Deciding, who : Persons, roles : SUBSET AppRoles,
                          rec : A!Record, clean : BOOLEAN] /\ trigger[r].at = "held"
      BY <1>0, <1>3, Keeps DEF A!ReadRecord, A!Deciding
    <2>2. t \in A!Tx /\ Saving(t) /\ t.at \in Quiet
      BY <1>0, <2>1 DEF A!Tx, A!Deciding, Saving, Quiet
    <2>3. Current(t)
      BY <1>0, <2>1 DEF Current, A!Deciding
    <2>4. A!Set(r, t)
      BY <1>3 DEF A!ReadRecord
    <2> HIDE DEF t
    <2> QED
      BY <2>2, <2>3, <2>4, SetAccess
  <1>4. CASE A!Check(r)
    <2> DEFINE t == [trigger[r] EXCEPT
                       !.at = IF A!CanTrigger(trigger[r].who, trigger[r].roles, trigger[r].rec)
                              THEN "accepted" ELSE "refused"]
    <2>1. trigger[r] \in [at : A!Deciding, who : Persons, roles : SUBSET AppRoles,
                          rec : A!Record, clean : BOOLEAN] /\ trigger[r].at = "read"
      BY <1>0, <1>4, Keeps DEF A!Check, A!Deciding
    <2>2. t \in A!Tx /\ Saving(t) /\ t.at \in Quiet
      BY <2>1 DEF A!Tx, A!Deciding, Saving, Quiet
    <2>3. Current(t)
      BY <1>0, <2>1 DEF Current, A!Deciding
    <2>4. A!Set(r, t)
      BY <1>4 DEF A!Check
    <2> HIDE DEF t
    <2> QED
      BY <2>2, <2>3, <2>4, SetAccess
  <1>5. CASE A!Answer(r)
    <2>1. A!Idle \in A!Tx /\ Current(A!Idle) /\ Saving(A!Idle) /\ A!Idle.at \in Quiet
      BY DEF A!Idle, A!Tx, A!Deciding, Current, Saving, Quiet
    <2> QED
      BY <1>5, <2>1, SetAccess DEF A!Answer
  <1> QED
    BY <1>1, <1>2, <1>3, <1>4, <1>5

\* The steps of whoever changes what a trigger goes by, up to the commit.
LEMMA ChangeAccess ==
  ASSUME AccessInv, NEW r \in Requests,
         \/ \E u \in Persons, role2 \in AppRoles \cup {Nil} : A!SetDirectRole(r, u, role2)
         \/ \E g \in Groups, role2 \in AppRoles \cup {Nil} : A!SetGroupRole(r, g, role2)
         \/ \E content \in Contents : A!EditRecord(r, content)
         \/ \E g \in Groups, want \in SUBSET Persons : A!BeginMembers(r, g, want)
         \/ A!Delete(r) \/ A!Insert(r) \/ A!Fail(r)
  PROVE  AccessInv'
  <1>0. /\ trigger[r] \in A!Tx /\ member \in [Groups -> SUBSET Persons]
        /\ ~overlap => AloneAtWork
    BY DEF AccessInv, A!TypeOK
  <1>1. A!Idle \in A!Tx /\ Current(A!Idle) /\ Saving(A!Idle) /\ A!Idle.at \in Quiet
    BY DEF A!Idle, A!Tx, A!Deciding, Current, Saving, Quiet
  <1>2. ASSUME NEW cell, NEW value, A!Write(r, cell, value),
               [at |-> "writing", cell |-> cell, value |-> value] \in A!Tx
        PROVE  AccessInv'
    <2> DEFINE t == [at |-> "writing", cell |-> cell, value |-> value]
    <2>1. Current(t) /\ Saving(t)
      BY DEF Current, Saving, A!Deciding
    <2>2. /\ A!Set(r, t) /\ t \in A!Tx
          /\ overlap \/ \A q \in Requests : trigger[q].at \in Quiet
      BY <1>2 DEF A!Write, A!MayChange, Quiet
    <2> HIDE DEF t
    <2> QED
      BY <2>1, <2>2, SetAccess
  <1>3. CASE \E u \in Persons, role2 \in AppRoles \cup {Nil} : A!SetDirectRole(r, u, role2)
    <2>1. PICK u \in Persons, role2 \in AppRoles \cup {Nil} : A!SetDirectRole(r, u, role2)
      BY <1>3
    <2>2. [at |-> "writing", cell |-> <<"direct", u>>, value |-> role2] \in A!Tx
      BY DEF A!Tx
    <2> QED
      BY <1>2, <2>1, <2>2 DEF A!SetDirectRole
  <1>4. CASE \E g \in Groups, role2 \in AppRoles \cup {Nil} : A!SetGroupRole(r, g, role2)
    <2>1. PICK g \in Groups, role2 \in AppRoles \cup {Nil} : A!SetGroupRole(r, g, role2)
      BY <1>4
    <2>2. [at |-> "writing", cell |-> <<"group", g>>, value |-> role2] \in A!Tx
      BY DEF A!Tx
    <2> QED
      BY <1>2, <2>1, <2>2 DEF A!SetGroupRole
  <1>5. CASE \E content \in Contents : A!EditRecord(r, content)
    <2>1. PICK content \in Contents : A!EditRecord(r, content)
      BY <1>5
    <2>2. [at |-> "writing", cell |-> <<"record", Nil>>, value |-> content] \in A!Tx
      BY AccessAssumption DEF A!Tx
    <2> QED
      BY <1>2, <2>1, <2>2 DEF A!EditRecord
  <1>6. CASE \E g \in Groups, want \in SUBSET Persons : A!BeginMembers(r, g, want)
    <2>1. PICK g \in Groups, want \in SUBSET Persons : A!BeginMembers(r, g, want)
      BY <1>6
    <2> DEFINE t == [at |-> "deleting", group |-> g, want |-> want, seen |-> member[g], gone |-> {}]
    <2>2. t \in A!Tx /\ Current(t) /\ Saving(t)
      BY <1>0 DEF A!Tx, A!Deciding, Current, Saving
    <2>3. A!Set(r, t) /\ (overlap \/ \A q \in Requests : trigger[q].at \in Quiet)
      BY <2>1 DEF A!BeginMembers, A!MayChange, Quiet
    <2> HIDE DEF t
    <2> QED
      BY <2>2, <2>3, SetAccess
  <1>7. CASE A!Delete(r)
    <2> DEFINE t == [trigger[r] EXCEPT !.at = "deleted", !.gone = trigger[r].seen]
    <2>1. trigger[r] \in [at : {"deleting", "deleted", "inserted"}, group : Groups,
                          want : SUBSET Persons, seen : SUBSET Persons, gone : SUBSET Persons]
          /\ trigger[r].at = "deleting"
      BY <1>0, <1>7, Keeps DEF A!Delete
    <2>2. t \in A!Tx /\ Current(t) /\ (Saving(trigger[r]) => Saving(t))
      BY <2>1 DEF A!Tx, A!Deciding, Current, Saving
    <2>3. ~overlap => Saving(t) /\ \A q \in Requests \ {r} : trigger[q].at \in Quiet
      BY <1>0, <2>1, <2>2 DEF AloneAtWork, Quiet, A!Deciding
    <2>4. A!Set(r, t)
      BY <1>7 DEF A!Delete
    <2> HIDE DEF t
    <2> QED
      BY <2>2, <2>3, <2>4, SetAccess
  <1>8. CASE A!Insert(r)
    <2> DEFINE t == [trigger[r] EXCEPT !.at = "inserted"]
    <2>1. trigger[r] \in [at : {"deleting", "deleted", "inserted"}, group : Groups,
                          want : SUBSET Persons, seen : SUBSET Persons, gone : SUBSET Persons]
          /\ trigger[r].at = "deleted"
      BY <1>0, <1>8, Keeps DEF A!Insert
    <2>2. t \in A!Tx /\ Current(t) /\ (Saving(trigger[r]) => Saving(t))
      BY <2>1 DEF A!Tx, A!Deciding, Current, Saving
    <2>3. ~overlap => Saving(t) /\ \A q \in Requests \ {r} : trigger[q].at \in Quiet
      BY <1>0, <2>1, <2>2 DEF AloneAtWork, Quiet, A!Deciding
    <2>4. A!Set(r, t) \/ A!Set(r, A!Idle)
      BY <1>8 DEF A!Insert
    <2> HIDE DEF t
    <2> QED
      BY <1>1, <2>2, <2>3, <2>4, SetAccess
  <1>9. CASE A!Fail(r)
    BY <1>1, <1>9, SetAccess DEF A!Fail
  <1> QED
    BY <1>3, <1>4, <1>5, <1>6, <1>7, <1>8, <1>9

\* A commit: triggers it overtakes no longer count as current, and a group's
\* members become those that were wanted.
LEMMA CommitAccess ==
  ASSUME AccessInv, NEW r \in Requests, A!Commit(r)
  PROVE  AccessInv'
  <1> DEFINE t == trigger[r]
  <1>0. /\ t \in A!Tx /\ t.at \in {"writing", "inserted"} /\ overlap' = overlap
        /\ A!TypeOK
        /\ ~overlap => AloneAtWork
    BY DEF A!Commit, AccessInv, A!TypeOK
  <1>1. /\ trigger' = [q \in Requests |-> IF q = r THEN A!Idle ELSE A!After(q, t)]
        /\ UNCHANGED rows
    BY DEF A!Commit
  <1>2. \A q \in Requests : /\ trigger'[q] \in A!Tx
                            /\ trigger'[q].at \in A!Deciding => ~trigger'[q].clean
                            /\ q = r => trigger'[q].at = "idle"
                            /\ q # r => trigger'[q].at = trigger[q].at
    <2> SUFFICES ASSUME NEW q \in Requests
                 PROVE  /\ trigger'[q] \in A!Tx
                        /\ trigger'[q].at \in A!Deciding => ~trigger'[q].clean
                        /\ q = r => trigger'[q].at = "idle"
                        /\ q # r => trigger'[q].at = trigger[q].at
      OBVIOUS
    <2>1. CASE q = r
      BY <1>1, <2>1 DEF A!Idle, A!Tx, A!Deciding
    <2>2. CASE q # r /\ trigger[q].at \in A!Deciding
      <3>1. trigger[q] \in [at : A!Deciding, who : Persons, roles : SUBSET AppRoles,
                            rec : A!Record, clean : BOOLEAN]
        BY <1>0, <2>2, Keeps DEF A!TypeOK
      <3>2. trigger'[q] = [trigger[q] EXCEPT !.clean = FALSE]
        BY <1>1, <2>2 DEF A!After, A!Deciding
      <3> QED
        BY <2>2, <3>1, <3>2 DEF A!Tx
    <2>3. CASE q # r /\ trigger[q].at = "deleting"
      <3>1. trigger[q] \in [at : {"deleting", "deleted", "inserted"}, group : Groups,
                            want : SUBSET Persons, seen : SUBSET Persons, gone : SUBSET Persons]
        BY <1>0, <2>3, Keeps DEF A!TypeOK
      <3>2. PICK seen \in SUBSET Persons :
                trigger'[q] = trigger[q] \/ trigger'[q] = [trigger[q] EXCEPT !.seen = seen]
        <4>1. CASE t.at = "inserted"
          <5> DEFINE seen == IF trigger[q].group = t.group THEN trigger[q].seen \ t.gone
                                                           ELSE trigger[q].seen
          <5>1. trigger'[q] = [trigger[q] EXCEPT !.seen = seen]
            BY <1>1, <2>3, <4>1 DEF A!After, A!Deciding
          <5>2. seen \in SUBSET Persons
            BY <3>1
          <5> QED
            BY <5>1, <5>2
        <4>2. CASE t.at # "inserted"
          BY <1>1, <2>3, <4>2 DEF A!After, A!Deciding
        <4> QED
          BY <4>1, <4>2
      <3> QED
        BY <2>3, <3>1, <3>2 DEF A!Tx, A!Deciding
    <2>4. CASE q # r /\ trigger[q].at \notin A!Deciding \cup {"deleting"}
      <3>1. trigger'[q] = trigger[q]
        BY <1>1, <2>4 DEF A!After
      <3> QED
        BY <1>0, <2>4, <3>1 DEF A!TypeOK
    <2> QED
      BY <2>1, <2>2, <2>3, <2>4
  <1>3. \A q \in Requests : Current(trigger[q])'
    BY <1>2 DEF Current
  <1>4. CASE t.at = "writing"
    <2>1. member' = member /\ asked' = asked
      BY <1>4 DEF A!Commit
    <2>2. /\ direct' \in [Persons -> AppRoles \cup {Nil}]
          /\ groupRole' \in [Groups -> AppRoles \cup {Nil}] /\ record' \in A!Record
      <3>1. CASE \E u \in Persons : t.cell = <<"direct", u>> /\ t.value \in AppRoles \cup {Nil}
        BY <1>0, <1>4, <3>1 DEF A!Commit, A!TypeOK
      <3>2. CASE \E g \in Groups : t.cell = <<"group", g>> /\ t.value \in AppRoles \cup {Nil}
        BY <1>0, <1>4, <3>2 DEF A!Commit, A!TypeOK
      <3>3. CASE t.cell = <<"record", Nil>> /\ t.value \in A!Record
        BY <1>0, <1>4, <3>3 DEF A!Commit, A!TypeOK
      <3> QED
        BY <1>0, <1>4, <3>1, <3>2, <3>3, Keeps
    <2>3. A!TypeOK'
      BY <1>0, <1>1, <1>2, <2>1, <2>2 DEF A!TypeOK
    <2>4. ~overlap => AloneAtWork'
      <3> SUFFICES ASSUME ~overlap PROVE AloneAtWork'
        OBVIOUS
      <3>1. \A q \in Requests : trigger'[q].at \in Quiet
        BY <1>0, <1>2, <1>4 DEF AloneAtWork, Quiet, A!Deciding
      <3> QED
        BY <1>0, <2>1, <3>1 DEF AloneAtWork, Saving, Quiet, A!Deciding
    <2> QED
      BY <1>0, <1>3, <2>1, <2>3, <2>4 DEF AccessInv
  <1>5. CASE t.at = "inserted"
    <2>1. t \in [at : {"deleting", "deleted", "inserted"}, group : Groups, want : SUBSET Persons,
                 seen : SUBSET Persons, gone : SUBSET Persons]
      BY <1>0, <1>5, Keeps
    <2>2. /\ member' = [member EXCEPT ![t.group] = (@ \ t.gone) \cup t.want]
          /\ asked' = [asked EXCEPT ![t.group] = t.want]
          /\ UNCHANGED <<direct, groupRole, record>>
      BY <1>5 DEF A!Commit
    <2>3. A!TypeOK'
      BY <1>0, <1>1, <1>2, <2>1, <2>2 DEF A!TypeOK
    <2>4. \A g \in Groups : asked'[g] \subseteq member'[g]
      BY <1>0, <2>1, <2>2 DEF AccessInv, A!TypeOK
    <2>5. ~overlap => AloneAtWork'
      <3> SUFFICES ASSUME ~overlap PROVE AloneAtWork'
        OBVIOUS
      <3>1. \A q \in Requests : trigger'[q].at \in Quiet
        BY <1>0, <1>2, <1>5 DEF AloneAtWork, Quiet, A!Deciding
      <3>2. t.gone = member[t.group]
        BY <1>0, <1>5 DEF AloneAtWork, Saving
      <3>3. \A g \in Groups : member'[g] = asked'[g]
        BY <1>0, <2>1, <2>2, <3>2 DEF AloneAtWork, A!TypeOK
      <3> QED
        BY <3>1, <3>3 DEF AloneAtWork, Saving, Quiet, A!Deciding
    <2> QED
      BY <1>0, <1>3, <2>3, <2>4, <2>5 DEF AccessInv
  <1> QED
    BY <1>0, <1>4, <1>5

\* Every step keeps the permissions' invariant.
LEMMA StepAccess == AccessInv /\ [A!Next]_access => AccessInv'
  <1> SUFFICES ASSUME AccessInv, [A!Next]_access PROVE AccessInv'
    OBVIOUS
  <1>1. CASE UNCHANGED access
    <2>1. \A r \in Requests : Current(trigger[r])'
      <3> SUFFICES ASSUME NEW r \in Requests PROVE Current(trigger[r])'
        OBVIOUS
      <3>1. PICK x : x = trigger'[r] /\ Current(x)
        BY <1>1 DEF AccessInv, access
      <3> QED
        BY <1>1, <3>1, StaysCurrent DEF access
    <2> QED
      BY <1>1, <2>1 DEF access, AccessInv, A!TypeOK, AloneAtWork, Saving
  <1>2. CASE A!Next
    BY <1>2, DecideAccess, ChangeAccess, CommitAccess DEF A!Next
  <1> QED
    BY <1>1, <1>2

\* So it holds throughout, whatever happens to identities meanwhile.
LEMMA AccessInductive == WhoMayDoWhat => []AccessInv
  <1>1. [(Next /\ UNCHANGED access) \/ (A!Next /\ UNCHANGED vars)]_<<vars, access>>
            => [A!Next]_access
    BY DEF access
  <1> QED
    BY <1>1, InitAccess, StepAccess, PTL DEF WhoMayDoWhat

\* Roles, members and requests keep their types, for any application.
THEOREM AccessTypes == WhoMayDoWhat => []A!TypeOK
  <1>1. AccessInv => A!TypeOK
    BY DEF AccessInv
  <1> QED
    BY <1>1, AccessInductive, PTL

\* The permissions count as this module does.
LEMMA CountsAlike == \A S : A!Cardinality(S) = Cardinality(S)
  BY DEF A!Cardinality, Cardinality

\* Whoever holds one role at most is refused, while nothing changes, only what
\* the page does not offer: no two rows that grant the event name one role, so
\* the first that grants is the only one.
LEMMA OnlyRow ==
  ASSUME A!TypeOK, NEW u \in Persons, ~A!CanTrigger(u, A!Held(u), record),
         Cardinality(A!Held(u)) <= 1
  PROVE  ~A!Offered(u)
  <1> DEFINE H == A!Held(u)
  <1>1. \A x, y \in H : x = y
    <2>1. IsFiniteSet(A!GroupRoles(u))
      <3> DEFINE G == {h \in Groups : u \in member[h]}
      <3>1. IsFiniteSet(G)
        BY AccessAssumption, FS_Subset
      <3>2. IsFiniteSet({groupRole[g] : g \in G})
        <4> DEFINE S == {groupRole[g] : g \in G}
        <4>1. [g \in G |-> groupRole[g]] \in Surjection(G, S)
          BY DEF Surjection
        <4> HIDE DEF G, S
        <4>2. IsFiniteSet(S)
          BY <3>1, <4>1, FS_Surjection
        <4> QED
          BY <4>2 DEF S
      <3> QED
        BY <3>2, FS_Subset DEF A!GroupRoles
    <2>2. IsFiniteSet({direct[u]} \ {Nil})
      BY FS_Singleton, FS_Subset
    <2>3. IsFiniteSet(H)
      BY <2>1, <2>2, FS_Union DEF A!Held
    <2> HIDE DEF H
    <2> SUFFICES ASSUME NEW x \in H, NEW y \in H, x # y PROVE FALSE
      OBVIOUS
    <2>4. /\ IsFiniteSet(H \ {x}) /\ Cardinality(H \ {x}) = Cardinality(H) - 1
      BY <2>3, FS_RemoveElement
    <2>5. Cardinality(H) \in Nat /\ Cardinality(H \ {x}) \in Nat
      BY <2>3, <2>4, FS_CardinalityType
    <2>6. Cardinality(H \ {x}) = 0
      BY <2>4, <2>5 DEF H
    <2> QED
      BY <2>4, <2>6, FS_EmptySet
  <1>2. /\ rows \in Seq(A!Permission)
        /\ \A i, j \in DOMAIN rows :
              rows[i].events /\ rows[j].events /\ rows[i].role = rows[j].role => i = j
    BY AccessAssumption DEF A!TypeOK
  <1> SUFFICES ASSUME NEW i \in DOMAIN rows, A!Grants(i, H), A!ResolveActorGate(rows[i], u, record)
               PROVE  FALSE
    BY DEF A!Offered, A!PermittedForRecord
  <1>3. \A j \in DOMAIN rows : A!Grants(j, H) => j = i
    BY <1>1, <1>2 DEF A!Grants
  <1>4. \A j \in 1..i - 1 : j \in DOMAIN rows /\ j # i
    BY <1>2
  <1> QED
    BY <1>3, <1>4 DEF A!CanTrigger

\* The check follows the page, for any permissions and roles: the request's three
\* reads are as good as one as long as nothing changed in between.
THEOREM ChecksFollowPage == WhoMayDoWhat => []CheckFollowsPage
  <1>1. AccessInv => CheckFollowsPage
    <2> SUFFICES ASSUME AccessInv PROVE A!CheckFollowsPage
      BY DEF CheckFollowsPage
    <2> SUFFICES ASSUME NEW r \in Requests,
                        trigger[r].at \in {"accepted", "refused"}, trigger[r].clean
                 PROVE  /\ trigger[r].at = "accepted" => A!Offered(trigger[r].who)
                        /\ trigger[r].at = "refused" /\ Cardinality(A!Held(trigger[r].who)) <= 1
                              => ~A!Offered(trigger[r].who)
      BY CountsAlike DEF A!CheckFollowsPage
    <2>1. PICK t : t = trigger[r]
      OBVIOUS
    <2>2. t \in A!Tx /\ Current(t) /\ A!TypeOK
      BY <2>1 DEF AccessInv, A!TypeOK
    <2>3. t.at \in A!Deciding /\ t.who \in Persons
      BY <2>1, <2>2, Keeps DEF A!Deciding
    <2>4. CASE t.at = "accepted"
      <3>1. A!CanTrigger(t.who, A!Held(t.who), record)
        BY <2>1, <2>2, <2>4 DEF Current, A!Deciding
      <3> QED
        BY <2>1, <2>4, <3>1 DEF A!CanTrigger, A!Offered, A!PermittedForRecord
    <2>5. CASE t.at = "refused"
      <3>1. ~A!CanTrigger(t.who, A!Held(t.who), record)
        BY <2>1, <2>2, <2>5 DEF Current, A!Deciding
      <3> QED
        BY <2>1, <2>2, <2>3, <2>5, <3>1, OnlyRow
    <2> QED
      BY <2>1, <2>4, <2>5
  <1> QED
    BY <1>1, AccessInductive, PTL

\* A group keeps the members that were saved, whoever saves them at once, and
\* only them when saves do not overlap.
THEOREM MembersStayAsSaved == WhoMayDoWhat => []MembersAsSaved
  <1>1. AccessInv => MembersAsSaved
    BY DEF AccessInv, AloneAtWork, MembersAsSaved, A!MembersAsSaved
  <1> QED
    BY <1>1, AccessInductive, PTL

=============================================================================
