------------------------------- MODULE Tenancy -------------------------------
(***************************************************************************)
(* services/infra-invitation-service and infra-tenant: who belongs to which*)
(* organization and workspace.                                             *)
(*                                                                         *)
(* A request of either service is a row of awaits, each one transaction at *)
(* most, and requests interleave at every one.  Both services look before  *)
(* they insert, and no table but that of the users has a unique column they*)
(* rely on.  Accepting an invitation to an organization ends with, or goes *)
(* through, a POST from the one service to the other, which may outlive the*)
(* request that waits for it.                                              *)
(***************************************************************************)
EXTENDS Naturals

CONSTANTS
  Requests,    \* the requests of a behaviour
  Body,        \* [Requests -> what they ask for]
  Standing,    \* requests of the past, whose invitations are there
  Users,
  Emails,
  Lower,       \* [Emails -> Users]: email.lower() tells whose it is
  Orgs,
  Workspaces,
  Default,     \* [Orgs -> the workspace created with it]
  Founder,     \* [Orgs -> who created it before, None if it is not there yet]
  Batches,     \* bound: the sets of requests a behaviour may see
  MaxFaults,   \* bound: failing calls and crashes
  None

Scopes == Orgs \union Workspaces

OWNER_ROLES == {"org_owner", "org_admin", "workspace_owner"}
MANAGEMENT_ROLES == OWNER_ROLES \union {"infra_architect"}
Roles == MANAGEMENT_ROLES \union {"infra_viewer", "org_member"}

Statuses == {"PENDING", "ACCEPTED", "EXPIRED", "REVOKED"}

Answers == {"ok", "refused", "error", "ORG_REQUIRED"}

Ops == {"invite", "list", "revoke", "accept", "look",
        "org", "workspace", "context", "register", "login"}

Bodies ==
  [op : Ops,
   who : Users,                         \* the caller
   email : Emails,                      \* invited, or given when accepting: not
                                        \* checked to be the caller's
   scope : Scopes,
   org : Orgs \union {None},            \* named beside a workspace
   invite : Requests \union {None},     \* the invitation it is about
   by : {"code", "token"},              \* how an invitation is named
   role : Roles \union {None},          \* the token's, None: to be looked up
   grant : Roles]                       \* what an invitation gives

ASSUME ConstantsOK ==
  /\ Body \in [Requests -> Bodies] /\ Standing \subseteq Requests
  /\ Lower \in [Emails -> Users] /\ Default \in [Orgs -> Workspaces]
  /\ Orgs \intersect Workspaces = {}
  /\ None \notin Requests \union Users \union Orgs \union Statuses \union Answers
  /\ Founder \in [Orgs -> Users \union {None}]
  /\ Batches \subseteq SUBSET Requests /\ MaxFaults \in Nat
  /\ \A q \in Requests : Body[q].op \in {"revoke", "accept", "look"} =>
       Body[q].invite # None /\ Body[q].scope = Body[Body[q].invite].scope
  /\ \A q \in Standing : Body[q].op = "invite"

\* What is created is created under a new UUID.
ASSUME IdsAreFresh ==
  /\ \A o, p \in Orgs : Default[o] = Default[p] => o = p
  /\ \A q \in Requests : Body[q].op = "org" =>
       /\ Body[q].scope \in Orgs /\ Founder[Body[q].scope] = None
       /\ \A p \in Requests : Body[p].op = "org" /\ p # q =>
            Body[p].scope # Body[q].scope
  /\ \A q \in Requests : \A o \in Orgs :
       Body[q].op = "workspace" /\ Body[q].scope = Default[o] => Body[q].org = o

VARIABLES
  stage,       \* request -> the await it is at
  role,        \* request -> the role it goes by
  answer,      \* request -> its answer
  \* PostgreSQL.
  invites,     \* the invitation request q created -> status, None: no such row
  overdue,     \* invitations past their expires_at
  members,     \* workspace_memberships
  accounts,    \* users, by email
  orgs,        \* organizations
  orgMembers,  \* organization_memberships
  spaces,      \* workspace -> its organization, None: no such row
  grants,      \* role_assignments: who, in which organization
  post,        \* request -> its POST to the tenant service
  \* History, read by the properties only.
  before,      \* request -> requests over and done with when it arrived
  met,         \* request -> the invitation as it stood when it arrived
  unsynced,    \* accepted by token, and the tenant service was not told
  faults

invitations == <<invites, overdue, members>>
tenants == <<accounts, orgs, orgMembers, spaces, grants>>
ghosts == <<before, met, unsynced>>
other == <<role, invitations, post, ghosts, faults>>
tvars == <<stage, role, answer, invitations, tenants, post, ghosts, faults>>

------------------------------------------------------------------------------
(* Requests.                                                               *)

Fault == faults < MaxFaults /\ faults' = faults + 1

\* The invitation a request is about, and whom it invites.
Target(q) == Body[q].invite
Invitee(i) == Lower[Body[i].email]

IsTenant(q) == Body[q].op \in {"org", "workspace", "context", "register",
                             "login"}

Goto(q, s) == stage' = [stage EXCEPT ![q] = s] /\ UNCHANGED answer

Answer(q, a) ==
  /\ stage' = [stage EXCEPT ![q] = "done"]
  /\ answer' = [answer EXCEPT ![q] = a]

\* The last commit is done.  Its answer may be lost, or the row not be read back
\* (refresh): then the caller is told of an error.
Committed(q, a) == \E b \in {a, "error"} : Answer(q, b)

Busy(q) == stage[q] \notin {"absent", "new", "done"}

\* The tenant service is still at work for q.
Pending(q) == post[q] \in {"asked", "checked"}

Over(q) == stage[q] = "done" /\ ~Pending(q)

\* What the router does with a request once it knows the caller's role.
Authorized(q) ==
  CASE Body[q].op = "invite" -> "check"
    [] Body[q].op = "list" -> "listed"
    [] OTHER -> "fetch"

FirstStage(q) ==
  CASE Body[q].op \in {"invite", "list", "revoke"} ->
         IF Body[q].role = None THEN "role" ELSE Authorized(q)
    [] Body[q].op \in {"accept", "look"} -> "fetch"
    [] OTHER -> Body[q].op

\* An invitation as it stands, or will when it is made.
Condition(i) ==
  CASE i = None -> None
    [] i # None /\ invites[i] \notin {None, "PENDING"} -> "closed"
    [] i # None /\ invites[i] \in {None, "PENDING"} ->
         IF i \in overdue THEN "late" ELSE "open"

Arrive(q) ==
  /\ stage[q] = "new"
  /\ Goto(q, FirstStage(q))
  /\ role' = [role EXCEPT ![q] = Body[q].role]
  /\ before' = [before EXCEPT ![q] = {p \in Requests : Over(p)}]
  /\ met' = [met EXCEPT ![q] = Condition(Target(q))]
  /\ UNCHANGED <<invitations, tenants, post, unsynced, faults>>

------------------------------------------------------------------------------
(* The caller's role in a workspace.                                       *)

RowsOf(u, s) == {m \in members : m.user = u /\ m.scope = s}

\* The membership looked up first, if the caller has one.
ResolveRole(q) ==
  /\ stage[q] = "role"
  /\ LET rows == RowsOf(Body[q].who, Body[q].scope)
     IN IF rows = {}
        THEN Goto(q, "count") /\ UNCHANGED role
        ELSE \E m \in rows : /\ role' = [role EXCEPT ![q] = m.role]
                             /\ Goto(q, Authorized(q))
  /\ UNCHANGED <<invitations, tenants, post, ghosts, faults>>

\* Then the members are counted: someone else's workspace is only viewed.
CountMembers(q) ==
  /\ stage[q] = "count"
  /\ IF {m \in members : m.scope = Body[q].scope} = {}
     THEN Goto(q, "bootstrap") /\ UNCHANGED role
     ELSE /\ role' = [role EXCEPT ![q] = "infra_viewer"]
          /\ Goto(q, Authorized(q))
  /\ UNCHANGED <<invitations, tenants, post, ghosts, faults>>

Row(q, r, i) ==
  [by |-> q, user |-> Body[q].who, scope |-> Body[q].scope, role |-> r,
   invite |-> i]

\* The caller becomes the owner of a workspace nobody is a member of.
Bootstrap(q) ==
  /\ stage[q] = "bootstrap"
  /\ members' = members \union {Row(q, "workspace_owner", None)}
  /\ role' = [role EXCEPT ![q] = "workspace_owner"]
  /\ Goto(q, Authorized(q))
  /\ UNCHANGED <<invites, overdue, tenants, post, ghosts, faults>>

\* GET .../invites, which may just have made its caller an owner.  The legacy
\* listing, which takes an organization for a workspace, turns nobody away.
List(q) ==
  /\ stage[q] = "listed"
  /\ LET shown == Body[q].scope \in Orgs \/ role[q] \in MANAGEMENT_ROLES
     IN Answer(q, IF shown THEN "ok" ELSE "refused")
  /\ UNCHANGED <<tenants, other>>

------------------------------------------------------------------------------
(* Invitations.                                                            *)

\* create_invitation: only managers invite, and nobody twice at a time into a
\* scope.  The address is compared as it is written.
CheckInvitation(q) ==
  /\ stage[q] = "check"
  /\ IF /\ role[q] \in MANAGEMENT_ROLES
        /\ ~\E i \in Requests : /\ invites[i] = "PENDING"
                                /\ Body[i].scope = Body[q].scope
                                /\ Body[i].email = Body[q].email
     THEN Goto(q, "insert")
     ELSE Answer(q, "refused")
  /\ UNCHANGED <<tenants, other>>

CreateInvitation(q) ==
  /\ stage[q] = "insert"
  /\ invites' = [invites EXCEPT ![q] = "PENDING"]
  /\ Committed(q, "ok")
  /\ UNCHANGED <<role, overdue, members, tenants, post, ghosts, faults>>

\* The clock.
Lapse(i) ==
  /\ invites[i] # None /\ i \notin overdue
  /\ \E q \in Requests : Target(q) = i /\ stage[q] \notin {"absent", "done"}
  /\ overdue' = overdue \union {i}
  /\ UNCHANGED <<stage, role, answer, invites, members, tenants, post, ghosts,
                 faults>>

MayRevoke(q) ==
  \/ role[q] \in OWNER_ROLES
  \/ Body[Target(q)].who = Body[q].who

\* Where a request goes that finds its invitation pending.
Found(q) ==
  \/ /\ Body[q].op = "revoke"
     /\ IF MayRevoke(q) THEN Goto(q, "settle") ELSE Answer(q, "refused")
  \/ /\ Body[q].op = "look"
     /\ IF Target(q) \in overdue THEN Goto(q, "expire") ELSE Answer(q, "ok")
  \/ /\ Body[q].op = "accept"
     /\ IF Body[q].by = "token" /\ Target(q) \in overdue THEN Goto(q, "expire")
        ELSE IF Lower[Body[q].email] # Invitee(Target(q))
        THEN Answer(q, "refused")
        ELSE IF Body[q].by = "code" /\ Body[q].scope \in Orgs
        THEN Goto(q, "post") ELSE Goto(q, "existing")

\* Mutant of Fetch: the status is not looked at.
FetchAny(q) ==
  /\ stage[q] = "fetch"
  /\ IF invites[Target(q)] # None THEN Found(q) ELSE Answer(q, "refused")
  /\ UNCHANGED <<tenants, other>>

\* The invitation is read, and judged by what was read from now on.
Fetch(q) ==
  /\ stage[q] = "fetch"
  /\ IF invites[Target(q)] = "PENDING" THEN Found(q) ELSE Answer(q, "refused")
  /\ UNCHANGED <<tenants, other>>

\* Mutant of Existing: memberships are not looked for.
ExistingIgnored(q) ==
  /\ stage[q] = "existing"
  /\ Goto(q, "join")
  /\ UNCHANGED <<tenants, other>>

\* A membership with the scope's id, an organization's too when it is accepted
\* by token.
Existing(q) ==
  /\ stage[q] = "existing"
  /\ IF RowsOf(Body[q].who, Body[q].scope) = {} THEN Goto(q, "join")
     ELSE Answer(q, "refused")
  /\ UNCHANGED <<tenants, other>>

Join(q) ==
  /\ stage[q] = "join"
  /\ members' = members \union {Row(q, Body[Target(q)].grant, Target(q))}
  /\ Goto(q, "settle")
  /\ UNCHANGED <<role, invites, overdue, tenants, post, ghosts, faults>>

\* Mutant of Settle: the answer is given before the commit, which is lost.
SettleNothing(q) ==
  /\ stage[q] = "settle"
  /\ Answer(q, "ok")
  /\ UNCHANGED <<tenants, other>>

\* Joining comes first.  The row is updated by its id, whatever its status is
\* by now.
Settle(q) ==
  /\ stage[q] = "settle"
  /\ invites' = [invites EXCEPT ![Target(q)] =
                   IF Body[q].op = "revoke" THEN "REVOKED" ELSE "ACCEPTED"]
  /\ IF /\ Body[q].op = "accept" /\ Body[q].by = "token"
        /\ Body[q].scope \in Orgs
     THEN Goto(q, "post") \/ Answer(q, "error")
     ELSE Committed(q, "ok")
  /\ UNCHANGED <<role, overdue, members, tenants, post, ghosts, faults>>

\* get_invitation_by_token has found an overdue invitation.
Expire(q) ==
  /\ stage[q] = "expire"
  /\ invites' = [invites EXCEPT ![Target(q)] = "EXPIRED"]
  /\ Committed(q, "refused")
  /\ UNCHANGED <<role, overdue, members, tenants, post, ghosts, faults>>

------------------------------------------------------------------------------
(* The POST from one service to the other.                                 *)

Post(q) ==
  /\ stage[q] = "post"
  /\ post' = [post EXCEPT ![q] = "asked"]
  /\ Goto(q, "waiting")
  /\ UNCHANGED <<role, invitations, tenants, ghosts, faults>>

Membership(q) == [by |-> q, user |-> Body[q].who, org |-> Body[q].scope]

IsMember(u, o) == \E m \in orgMembers : m.user = u /\ m.org = o

\* add_organization_member, in the tenant service.
LookForMember(q) ==
  /\ post[q] = "asked"
  /\ post' = [post EXCEPT ![q] =
                IF IsMember(Body[q].who, Body[q].scope) THEN "ok" ELSE "checked"]
  /\ UNCHANGED <<stage, role, answer, invitations, tenants, ghosts, faults>>

\* The foreign keys want the organization and the user to be there.  The POST
\* may end badly though the row was committed.
AddMember(q) ==
  /\ post[q] = "checked"
  /\ LET known == /\ Body[q].scope \in orgs
                  /\ \E e \in accounts : Lower[e] = Body[q].who
     IN IF known
        THEN /\ orgMembers' = orgMembers \union {Membership(q)}
             /\ \E p \in {"ok", "refused"} : post' = [post EXCEPT ![q] = p]
        ELSE post' = [post EXCEPT ![q] = "refused"] /\ UNCHANGED orgMembers
  /\ UNCHANGED <<stage, role, answer, invitations, accounts, orgs, spaces,
                 grants, ghosts, faults>>

\* The POST did not end well, or its answer did not come in time.  By code the
\* invitation stays as it is; by token it was accepted already.
Unanswered(q) ==
  IF Body[q].by = "code"
  THEN Answer(q, "error") /\ UNCHANGED unsynced
  ELSE Answer(q, "ok") /\ unsynced' = unsynced \union {q}

\* Mutant of Answered: any answer will do.
AnsweredAnyhow(q) ==
  /\ stage[q] = "waiting" /\ post[q] \in {"ok", "refused"}
  /\ IF Body[q].by = "code" THEN Goto(q, "settle") ELSE Answer(q, "ok")
  /\ UNCHANGED <<tenants, other>>

Answered(q) ==
  /\ stage[q] = "waiting" /\ post[q] \in {"ok", "refused"}
  /\ IF post[q] = "refused" THEN Unanswered(q)
     ELSE /\ IF Body[q].by = "code" THEN Goto(q, "settle") ELSE Answer(q, "ok")
          /\ UNCHANGED unsynced
  /\ UNCHANGED <<role, invitations, tenants, post, before, met, faults>>

\* Mutant of TimesOut: the client has no timeout.
TimesOutNever(q) ==
  /\ stage[q] = "waiting" /\ post[q] = "lost"
  /\ Unanswered(q)
  /\ UNCHANGED <<role, invitations, tenants, post, before, met, faults>>

\* After ten seconds, or five; the tenant service goes on with what it has.
TimesOut(q) ==
  /\ stage[q] = "waiting" /\ Pending(q)
  /\ Unanswered(q)
  /\ UNCHANGED <<role, invitations, tenants, post, before, met, faults>>

------------------------------------------------------------------------------
(* The tenant service.                                                     *)

\* The unique column: the second registration is refused.
Register(q) ==
  /\ stage[q] = "register"
  /\ IF Body[q].email \in accounts
     THEN Answer(q, "refused") /\ UNCHANGED accounts
     ELSE Committed(q, "ok") /\ accounts' = accounts \union {Body[q].email}
  /\ UNCHANGED <<orgs, orgMembers, spaces, grants, other>>

\* create_organization: four rows, four commits.
CreateOrganization(q) ==
  /\ stage[q] = "org"
  /\ orgs' = orgs \union {Body[q].scope}
  /\ Goto(q, "owner")
  /\ UNCHANGED <<accounts, orgMembers, spaces, grants, other>>

CreateOwner(q) ==
  /\ stage[q] = "owner"
  /\ orgMembers' = orgMembers \union {Membership(q)}
  /\ Goto(q, "default")
  /\ UNCHANGED <<accounts, orgs, spaces, grants, other>>

CreateDefaultWorkspace(q) ==
  /\ stage[q] = "default"
  /\ spaces' = [spaces EXCEPT ![Default[Body[q].scope]] = Body[q].scope]
  /\ Goto(q, "assign")
  /\ UNCHANGED <<accounts, orgs, orgMembers, grants, other>>

AssignRole(q) ==
  /\ stage[q] = "assign"
  /\ grants' = grants \union {<<Body[q].who, Body[q].scope>>}
  /\ Committed(q, "ok")
  /\ UNCHANGED <<accounts, orgs, orgMembers, spaces, other>>

\* Mutant of CreateWorkspace: the column is no foreign key.
CreateLooseWorkspace(q) ==
  /\ stage[q] = "workspace"
  /\ spaces' = [spaces EXCEPT ![Body[q].scope] = Body[q].org]
  /\ Answer(q, "ok")
  /\ UNCHANGED <<accounts, orgs, orgMembers, grants, other>>

\* The foreign key wants the organization to be there.
CreateWorkspace(q) ==
  /\ stage[q] = "workspace"
  /\ IF Body[q].org \in orgs
     THEN /\ spaces' = [spaces EXCEPT ![Body[q].scope] = Body[q].org]
          /\ Committed(q, "ok")
     ELSE Answer(q, "error") /\ UNCHANGED spaces
  /\ UNCHANGED <<accounts, orgs, orgMembers, grants, other>>

\* A token for an organization and one of its workspaces.
ExchangeContext(q) ==
  /\ stage[q] = "context"
  /\ IF IsMember(Body[q].who, Body[q].org) THEN Goto(q, "issuing")
     ELSE Answer(q, "refused")
  /\ UNCHANGED <<tenants, other>>

IssueToken(q) ==
  /\ stage[q] = "issuing"
  /\ Answer(q, IF spaces[Body[q].scope] = Body[q].org THEN "ok" ELSE "refused")
  /\ UNCHANGED <<tenants, other>>

\* Whoever is a member of nothing is told so.
Login(q) ==
  /\ stage[q] = "login"
  /\ Answer(q, IF Body[q].email \notin accounts THEN "refused"
               ELSE IF \E m \in orgMembers : m.user = Body[q].who
               THEN "ok" ELSE "ORG_REQUIRED")
  /\ UNCHANGED <<tenants, other>>

------------------------------------------------------------------------------
(* Failures.                                                               *)

\* A call to PostgreSQL raises and has changed nothing; what was committed
\* before stays.  (The commit that is done though its call raises: where more
\* calls follow it is this action at the next of them, and Committed where none
\* does.)
CallFails(q) ==
  /\ Busy(q) /\ stage[q] \notin {"post", "waiting"}
  /\ Fault
  /\ Answer(q, "error")
  /\ UNCHANGED <<role, invitations, tenants, post, ghosts>>

PostFails(q) ==
  /\ Pending(q)
  /\ Fault
  /\ post' = [post EXCEPT ![q] = "refused"]
  /\ UNCHANGED <<stage, role, answer, invitations, tenants, ghosts>>

\* A service dies, and with it the requests and the POSTs it is at work on.
Crash(tenant) ==
  /\ Fault
  /\ LET Q == {q \in Requests : Busy(q) /\ IsTenant(q) = tenant}
     IN /\ stage' = [q \in Requests |-> IF q \in Q THEN "done" ELSE stage[q]]
        /\ answer' = [q \in Requests |-> IF q \in Q THEN "error" ELSE answer[q]]
  /\ post' = [q \in Requests |-> IF tenant /\ Pending(q) THEN "refused"
                                 ELSE post[q]]
  /\ UNCHANGED <<role, invitations, tenants, ghosts>>

------------------------------------------------------------------------------
Init ==
  /\ \E B \in Batches :
       stage = [q \in Requests |-> IF q \in Standing THEN "done"
                                  ELSE IF q \in B THEN "new" ELSE "absent"]
  /\ role = [q \in Requests |-> None]
  /\ answer = [q \in Requests |-> IF q \in Standing THEN "ok" ELSE None]
  /\ invites = [q \in Requests |-> IF q \in Standing THEN "PENDING" ELSE None]
  /\ overdue = {} /\ members = {}
  /\ accounts = {e \in Emails : \A q \in Requests :
                   Body[q].op = "register" /\ stage[q] = "new" =>
                     Body[q].email # e}
  /\ orgs = {o \in Orgs : Founder[o] # None}
  /\ orgMembers = {[by |-> None, user |-> Founder[o], org |-> o] : o \in orgs}
  /\ spaces = [w \in Workspaces |->
                 IF \E o \in orgs : Default[o] = w
                 THEN CHOOSE o \in orgs : Default[o] = w ELSE None]
  /\ grants = {<<Founder[o], o>> : o \in orgs}
  /\ post = [q \in Requests |-> "none"]
  /\ before = [q \in Requests |-> {}]
  /\ met = [q \in Requests |-> None]
  /\ unsynced = {}
  /\ faults = 0

\* What a request does by itself once it is let in.
Proceed(q) ==
  \/ ResolveRole(q) \/ CountMembers(q) \/ Bootstrap(q) \/ List(q)
  \/ CheckInvitation(q) \/ CreateInvitation(q)
  \/ Fetch(q) \/ Existing(q) \/ Join(q) \/ Settle(q) \/ Expire(q)
  \/ Post(q) \/ Answered(q) \/ TimesOut(q)
  \/ Register(q) \/ Login(q) \/ ExchangeContext(q) \/ IssueToken(q)
  \/ CreateOrganization(q) \/ CreateOwner(q) \/ CreateDefaultWorkspace(q)
  \/ AssignRole(q) \/ CreateWorkspace(q)

TenancyNext ==
  \/ \E q \in Requests :
       \/ Arrive(q) \/ Proceed(q) \/ LookForMember(q) \/ AddMember(q)
       \/ CallFails(q) \/ PostFails(q) \/ Lapse(q)
  \/ \E tenant \in BOOLEAN : Crash(tenant)
TenancySpec == Init /\ [][TenancyNext]_tvars

\* The event loops run the requests and their timers.  The tenant service is
\* not trusted to answer a POST.
RequestsRun == WF_tvars(\E q \in Requests : Proceed(q))
------------------------------------------------------------------------------
(* Properties.                                                             *)

\* Types, and what the stages go with.
TypeOK ==
  /\ \A q \in Requests : answer[q] # None <=> stage[q] = "done"
  /\ invites \in [Requests -> Statuses \union {None}]
  /\ \A m \in members :
       /\ m.by \in Requests /\ m.user \in Users /\ m.scope \in Scopes
       /\ m.role \in Roles /\ m.invite \in Requests \union {None}
  /\ \A m \in orgMembers : m.user \in Users /\ m.org \in orgs
  /\ \A w \in Workspaces : spaces[w] \in orgs \union {None}
  /\ post \in [Requests -> {"none", "asked", "checked", "ok", "refused"}]
  /\ \A q \in Requests : stage[q] = "waiting" => post[q] # "none"
  /\ before \in [Requests -> SUBSET Requests]

Accepting(q, i) == Body[q].op = "accept" /\ Target(q) = i

\* q accepts i, and gives the address i was sent to.
Accepter(q, i) == Accepting(q, i) /\ Lower[Body[q].email] = Invitee(i)

\* It has been answered, and not turned away.
Through(q) == answer[q] \in {"ok", "error"}

\* An ACCEPTED invitation was accepted under the address it was sent to, and
\* the caller who did so is a member: of a workspace on this invitation, and of
\* an organization in the service that keeps its members; accepted by token,
\* unless the request is still to tell that service, or gave up.  The address is
\* the one in the request's body: nothing says that it is the caller's own, so
\* the member need not be the one who was invited.
\* Conversely a membership leaves its invitation PENDING only while the request
\* that made it is at work, or when it ended with an error.
AcceptanceIsWhole ==
  /\ \A i \in Requests : invites[i] = "ACCEPTED" =>
       \E q \in Requests :
         /\ Accepter(q, i)
         /\ IF Body[i].scope \in Workspaces
            THEN Through(q) /\ \E m \in RowsOf(Body[q].who, Body[i].scope) :
                                 m.by = q /\ m.invite = i
            ELSE \/ Through(q) /\ IsMember(Body[q].who, Body[i].scope)
                 \/ /\ Body[q].by = "token"
                    /\ \/ stage[q] \in {"post", "waiting"} \/ q \in unsynced
                       \/ answer[q] = "error"
  /\ \A m \in members : m.invite # None /\ invites[m.invite] = "PENDING" =>
       Busy(m.by) \/ answer[m.by] = "error"

\* What the answer says has happened: "ok" that everything did, and a refusal
\* that nothing did.  An error may be either.  Who was told that he joined an
\* organization is not told at his next login that he needs one.
AnswersHold ==
  \A q \in {q \in Requests : stage[q] = "done"} :
    LET b == Body[q] IN
    /\ answer[q] = "ok" =>
         /\ b.op = "invite" => invites[q] # None
         /\ b.op = "revoke" => invites[b.invite] # "PENDING"
         /\ b.op = "accept" => /\ invites[b.invite] # "PENDING"
                               /\ \/ IsMember(b.who, b.scope)
                                  \/ /\ b.scope \in Workspaces
                                     /\ RowsOf(b.who, b.scope) # {}
                                  \/ q \in unsynced
         /\ b.op = "org" => /\ IsMember(b.who, b.scope)
                            /\ spaces[Default[b.scope]] = b.scope
                            /\ <<b.who, b.scope>> \in grants
         /\ b.op = "context" => IsMember(b.who, b.org)
    /\ answer[q] = "refused" =>
         /\ invites[q] = None
         /\ \A m \in members : m.by = q => m.invite = None
         /\ \A m \in orgMembers : m.by # q
    /\ answer[q] = "ORG_REQUIRED" =>
         \A m \in orgMembers : m.user = b.who => m.by \notin before[q] \union {None}

Apart(p, q) == p \in before[q] \/ q \in before[p]

\* Where the tables let two rows stand for one thing, requests that did not
\* overlap never make them, the POSTs they left behind included: memberships
\* of one user in one scope, his memberships in an organization, pending
\* invitations of one address into one scope, and owners of a workspace that
\* had no members.
OnlyRacesDuplicate ==
  /\ \A a, b \in members :
       a # b /\ a.user = b.user /\ a.scope = b.scope => ~Apart(a.by, b.by)
  /\ \A a, b \in members :
       a # b /\ a.scope = b.scope /\ a.invite = None => b.by \notin before[a.by]
  /\ \A a, b \in orgMembers :
       a # b /\ a.user = b.user /\ a.org = b.org =>
         a.by # None /\ b.by # None /\ ~Apart(a.by, b.by)
  /\ \A i, j \in {i \in Requests : invites[i] = "PENDING"} :
       i # j /\ Body[i].scope = Body[j].scope /\ Body[i].email = Body[j].email
       => ~Apart(i, j)

\* Nobody joins on an invitation that was settled when he came, and nobody by
\* token on one that was overdue.  By code nothing looks at the date.
JoinsWereOpen ==
  LET Welcome(q) == met[q] # "closed" /\ (Body[q].by = "token" => met[q] = "open")
  IN /\ \A m \in members : m.invite # None => Welcome(m.by)
     /\ \A m \in orgMembers :
          m.by # None /\ Body[m.by].op = "accept" => Welcome(m.by)

\* A settled invitation is never pending again, and changes only at the hands
\* of a request that came while it was pending.
SettledStays ==
  [][\A i \in Requests :
       invites'[i] # invites[i] /\ invites[i] \notin {None, "PENDING"} =>
         /\ invites'[i] \notin {None, "PENDING"}
         /\ \E q \in Requests : /\ Target(q) = i /\ met[q] # "closed"
                                /\ stage[q] \in {"settle", "expire"}
                                /\ stage'[q] # stage[q]
    ]_tvars

\* Every request gets its answer, whatever becomes of its POST.
RequestsEnd == []<>(\A q \in Requests : ~Busy(q))
==============================================================================
