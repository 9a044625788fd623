----------------------------- MODULE TenancyProofs -----------------------------
(***************************************************************************)
(* Theorems about Tenancy: whatever requests interleave, fail, time out or *)
(* die, and however many there are, an invitation once settled stays so,   *)
(* nobody joins on one that was settled before he came, what is answered   *)
(* has happened, an accepted invitation has its member, and what stands    *)
(* twice in a table was put there by requests that overlapped.             *)
(*                                                                         *)
(* TenancyInv, about invitations, is inductive by itself, and the parts of *)
(* WholeInv are inductive relative to it.  Most of them are shown request  *)
(* by request: a step leaves a request where it is, or takes it along its  *)
(* Route, and takes nothing back of what the tables hold (Steady).         *)
(***************************************************************************)
EXTENDS Tenancy, TLAPS

About == {"revoke", "accept", "look"}

Stages ==
  {"absent", "new", "done", "role", "count", "bootstrap", "check", "insert",
   "listed", "fetch", "existing", "join", "settle", "expire", "post", "waiting",
   "org", "owner", "default", "assign", "workspace", "context", "issuing",
   "register", "login"}

Letters == {"none", "asked", "checked", "ok", "refused"}

Here(q) == stage[q] \notin {"absent", "new"}

\* The requests each await belongs to.
Fits(q, s) ==
  /\ s \in {"check", "insert"} => Body[q].op = "invite"
  /\ s \in {"role", "count", "bootstrap"} =>
       Body[q].op \in {"invite", "list", "revoke"}
  /\ s = "listed" => Body[q].op = "list"
  /\ s = "fetch" => Body[q].op \in About
  /\ s \in {"existing", "join", "post", "waiting"} => Body[q].op = "accept"
  /\ s = "settle" => Body[q].op \in {"accept", "revoke"}
  /\ s = "expire" => Body[q].op \in {"accept", "look"}
  /\ s \in {"org", "owner", "default", "assign"} => Body[q].op = "org"
  /\ s \in {"workspace", "context", "register", "login"} => Body[q].op = s
  /\ s = "issuing" => Body[q].op = "context"

\* The invitation was pending when the request came, and if it is accepted by
\* token, in time.
Timely(q) == met[q] # "closed"
Welcome(q) == Timely(q) /\ (Body[q].by = "token" => met[q] = "open")

\* What was pending all along was so when the request came.
Fresh(q) ==
  invites[Target(q)] \in {None, "PENDING"} =>
    Timely(q) /\ (Target(q) \notin overdue => met[q] = "open")

\* What a request at await s has found out of its invitation.
Knows(q, s) ==
  /\ s \in {"existing", "join", "post", "waiting", "settle", "expire"} =>
       Timely(q) /\ invites[Target(q)] # None
  /\ (Body[q].op = "accept" /\ s \notin {"fetch", "expire"}) => Welcome(q)

MetInv ==
  \A q \in Requests : (Body[q].op \in About /\ Here(q) /\ stage[q] # "done") =>
    Fresh(q) /\ Knows(q, stage[q])

\* Who creates an invitation is done by then.
RowsInv ==
  /\ invites \in [Requests -> Statuses \union {None}]
  /\ \A q \in Requests : invites[q] # None => stage[q] = "done"
  /\ \A i \in overdue \intersect Requests : invites[i] # None

\* Whoever left a membership behind, or a POST.
JoinedInv ==
  /\ \A m \in members : m.invite # None =>
       m.by \in Requests /\ Here(m.by) /\ Welcome(m.by)
  /\ \A m \in orgMembers : (m.by # None /\ Body[m.by].op = "accept") =>
       m.by \in Requests /\ Here(m.by) /\ Welcome(m.by)
  /\ \A q \in Requests : post[q] # "none" =>
       Body[q].op = "accept" /\ Here(q) /\ Welcome(q)

TenancyInv ==
  /\ stage \in [Requests -> Stages]
  /\ met \in [Requests -> {None, "closed", "late", "open"}]
  /\ post \in [Requests -> Letters]
  /\ \A q \in Requests : Fits(q, stage[q])
  /\ RowsInv /\ MetInv /\ JoinedInv

------------------------------------------------------------------------------
(* Steps of one request.                                                   *)

LEMMA Targets ==
  ASSUME NEW q \in Requests, Body[q].op \in About
  PROVE  Target(q) \in Requests /\ Target(q) # None
<1>1. Body[q] \in Bodies /\ Body[q].invite # None
  BY ConstantsOK DEF About
<1>2. Body[q].invite \in Requests \union {None}
  BY <1>1 DEF Bodies
<1>. QED  BY <1>1, <1>2 DEF Target

Moves(q, s) == stage' = [stage EXCEPT ![q] = s]

\* Invitations are made and settled, and never unmade or unsettled.
Onward ==
  /\ invites' \in [Requests -> Statuses \union {None}]
  /\ \A i \in Requests :
       /\ invites[i] # None => invites'[i] # None
       /\ invites'[i] \in {None, "PENDING"} => invites[i] \in {None, "PENDING"}
       /\ invites'[i] # None => stage'[i] = "done"


\* Invitations that stay as they are, where nobody leaves "done".
LEMMA OnwardUnchanged ==
  ASSUME TenancyInv, NEW q \in Requests, NEW s \in Stages, Moves(q, s),
         stage[q] # "done", invites' = invites
  PROVE  Onward
BY DEF TenancyInv, RowsInv, Onward, Moves

LEMMA JoinedUnchanged ==
  ASSUME TenancyInv, NEW q \in Requests,
         NEW s \in Stages \ {"absent", "new"}, Moves(q, s),
         UNCHANGED <<members, orgMembers, post, met>>
  PROVE  JoinedInv'
<1>1. \A p \in Requests : Here(p) => Here(p)'
  BY DEF TenancyInv, Moves, Here
<1>2. \A p \in Requests : Welcome(p)' <=> Welcome(p)
  BY DEF Welcome, Timely
<1>. QED  BY <1>1, <1>2 DEF TenancyInv, JoinedInv

\* A request under way goes on to s.
LEMMA StepKeeps ==
  ASSUME TenancyInv, NEW q \in Requests,
         NEW s \in Stages \ {"absent", "new"}, Moves(q, s), Here(q),
         Fits(q, s),
         stage[q] # "done", (Body[q].op \in About /\ s # "done") => Knows(q, s),
         UNCHANGED <<overdue, met>>, post' \in [Requests -> Letters],
         Onward, JoinedInv'
  PROVE  TenancyInv'
<1>1. /\ stage' \in [Requests -> Stages] /\ stage'[q] = s
      /\ \A p \in Requests : p # q => stage'[p] = stage[p]
  BY DEF TenancyInv, Moves
<1>2. \A p \in Requests : Fits(p, stage[p])'
  <2>1. \A p \in Requests : Fits(p, stage'[p])
    BY <1>1 DEF TenancyInv
  <2>. QED  BY <2>1 DEF Fits
<1>3. RowsInv'
  BY DEF TenancyInv, RowsInv, Onward
<1>4. ASSUME NEW p \in Requests, Body[p].op \in About, Here(p)', stage'[p] # "done"
      PROVE  Fresh(p)' /\ Knows(p, stage[p])'
  <2>1. Target(p) \in Requests
    BY <1>4, Targets
  <2>2. Here(p) /\ stage[p] # "done"
    BY <1>1, <1>4 DEF Here
  <2>3. Fresh(p) /\ Knows(p, stage'[p])
    BY <1>1, <1>4, <2>2 DEF TenancyInv, MetInv
  <2>4. Fresh(p)'
    BY <2>1, <2>3 DEF Fresh, Timely, Onward, Target
  <2>5. Welcome(p)' <=> Welcome(p)
    BY DEF Welcome, Timely
  <2>6. Knows(p, stage[p])'
    BY <2>1, <2>3, <2>5 DEF Knows, Timely, Onward, Target
  <2>. QED  BY <2>4, <2>6
<1>5. MetInv'
  BY <1>4 DEF MetInv
<1>. QED  BY <1>1, <1>2, <1>3, <1>5 DEF TenancyInv

\* Most steps read, decide, and go on.
LEMMA ReadStep ==
  ASSUME TenancyInv, NEW q \in Requests,
         NEW s \in Stages \ {"absent", "new"}, Moves(q, s), Here(q),
         Fits(q, s),
         stage[q] # "done", (Body[q].op \in About /\ s # "done") => Knows(q, s),
         UNCHANGED <<invites, overdue, members, orgMembers, post, met>>
  PROVE  TenancyInv'
<1>1. Onward
  BY OnwardUnchanged
<1>2. JoinedInv'
  BY JoinedUnchanged
<1>3. post' \in [Requests -> Letters]
  BY DEF TenancyInv
<1>. QED  BY <1>1, <1>2, <1>3, StepKeeps

LEMMA DoneFits ==
  ASSUME NEW q \in Requests
  PROVE  Fits(q, "done") /\ "done" \in Stages \ {"absent", "new"}
BY DEF Fits, Stages

\* Answering is reading too.
LEMMA AnswerStep ==
  ASSUME TenancyInv, NEW q \in Requests, NEW a, Answer(q, a), Here(q),
         stage[q] # "done",
         UNCHANGED <<invites, overdue, members, orgMembers, post, met>>
  PROVE  TenancyInv'
<1>1. Moves(q, "done")
  BY DEF Answer, Moves
<1>. QED  BY <1>1, DoneFits, ReadStep

LEMMA AuthorizedFits ==
  ASSUME TenancyInv, NEW q \in Requests,
         stage[q] \in {"role", "count", "bootstrap"}
  PROVE  /\ Authorized(q) \in Stages \ {"absent", "new"}
         /\ Fits(q, Authorized(q))
         /\ Body[q].op \in About => Knows(q, Authorized(q))
         /\ Here(q) /\ stage[q] # "done"
<1>1. Body[q].op \in {"invite", "list", "revoke"}
  BY DEF TenancyInv, Fits
<1>. QED
  BY <1>1 DEF Authorized, Fits, Knows, About, Stages, Here

LEMMA RoleSteps ==
  ASSUME TenancyInv, NEW q \in Requests,
         ResolveRole(q) \/ CountMembers(q)
  PROVE  TenancyInv'
<1>1. /\ stage[q] \in {"role", "count"}
      /\ \E s \in {"count", "bootstrap", Authorized(q)} : Moves(q, s)
      /\ UNCHANGED <<invites, overdue, members, orgMembers, post, met>>
  BY DEF ResolveRole, CountMembers, Goto, Moves, invitations, tenants, ghosts
<1>2. PICK s \in {"count", "bootstrap", Authorized(q)} : Moves(q, s)
  BY <1>1
<1>3. Body[q].op \in {"invite", "list", "revoke"}
  BY <1>1 DEF TenancyInv, Fits
<1>4. /\ s \in Stages \ {"absent", "new"} /\ Fits(q, s)
      /\ Body[q].op \in About => Knows(q, s)
      /\ Here(q) /\ stage[q] # "done"
  <2>1. CASE s = Authorized(q)
    BY <1>1, <2>1, AuthorizedFits
  <2>2. CASE s \in {"count", "bootstrap"}
    BY <1>1, <1>3, <2>2 DEF Fits, Knows, Stages, Here, About
  <2>. QED  BY <2>1, <2>2
<1>. QED  BY <1>1, <1>2, <1>4, ReadStep

\* Rows of members that come of no invitation, or of one that was open.
LEMMA MembersGrow ==
  ASSUME TenancyInv, NEW q \in Requests,
         NEW s \in Stages \ {"absent", "new"}, Moves(q, s),
         NEW r, NEW i, members' = members \union {Row(q, r, i)},
         i # None => Welcome(q),
         UNCHANGED <<orgMembers, post, met>>
  PROVE  JoinedInv'
<1>1. \A p \in Requests : Here(p) => Here(p)'
  BY DEF TenancyInv, Moves, Here
<1>2. \A p \in Requests : Welcome(p)' <=> Welcome(p)
  BY DEF Welcome, Timely
<1>3. Here(q)'
  BY DEF TenancyInv, Moves, Here
<1>4. Row(q, r, i).by = q /\ Row(q, r, i).invite = i
  BY DEF Row
<1>. QED  BY <1>1, <1>2, <1>3, <1>4 DEF TenancyInv, JoinedInv

LEMMA BootstrapStep ==
  ASSUME TenancyInv, NEW q \in Requests, Bootstrap(q)
  PROVE  TenancyInv'
<1>1. /\ stage[q] = "bootstrap" /\ Moves(q, Authorized(q))
      /\ members' = members \union {Row(q, "workspace_owner", None)}
      /\ UNCHANGED <<invites, overdue, orgMembers, post, met>>
  BY DEF Bootstrap, Goto, Moves, tenants, ghosts
<1>2. /\ Authorized(q) \in Stages \ {"absent", "new"}
      /\ Fits(q, Authorized(q))
      /\ Body[q].op \in About => Knows(q, Authorized(q))
      /\ Here(q) /\ stage[q] # "done"
  BY <1>1, AuthorizedFits
<1>3. JoinedInv'
  BY <1>1, <1>2, MembersGrow
<1>4. Onward
  BY <1>1, <1>2, OnwardUnchanged
<1>5. post' \in [Requests -> Letters]
  BY <1>1 DEF TenancyInv
<1>. QED  BY <1>1, <1>2, <1>3, <1>4, <1>5, StepKeeps

LEMMA JoinStep ==
  ASSUME TenancyInv, NEW q \in Requests, Join(q)
  PROVE  TenancyInv'
<1>1. /\ stage[q] = "join" /\ Moves(q, "settle")
      /\ members' = members \union {Row(q, Body[Target(q)].grant, Target(q))}
      /\ UNCHANGED <<invites, overdue, orgMembers, post, met>>
  BY DEF Join, Goto, Moves, tenants, ghosts
<1>2. Here(q) /\ stage[q] # "done" /\ "settle" \in Stages \ {"absent", "new"}
  BY <1>1 DEF Here, Stages
<1>3. Body[q].op = "accept"
  BY <1>1 DEF TenancyInv, Fits
<1>4. Knows(q, "join")
  BY <1>1, <1>2, <1>3 DEF TenancyInv, MetInv, About
<1>5. Welcome(q) /\ Knows(q, "settle") /\ Fits(q, "settle")
  BY <1>3, <1>4 DEF Knows, Fits
<1>6. JoinedInv'
  BY <1>1, <1>2, <1>5, MembersGrow
<1>7. Onward
  BY <1>1, <1>2, OnwardUnchanged
<1>8. post' \in [Requests -> Letters]
  BY <1>1 DEF TenancyInv
<1>. QED  BY <1>1, <1>2, <1>5, <1>6, <1>7, <1>8, StepKeeps

------------------------------------------------------------------------------
(* Invitations.                                                            *)

LEMMA CheckStep ==
  ASSUME TenancyInv, NEW q \in Requests, CheckInvitation(q)
  PROVE  TenancyInv'
<1>1. /\ stage[q] = "check"
      /\ UNCHANGED <<invites, overdue, members, orgMembers, post, met>>
      /\ Moves(q, "insert") \/ Moves(q, "done")
  BY DEF CheckInvitation, Goto, Answer, Moves, other, invitations, tenants, ghosts
<1>2. Here(q) /\ stage[q] # "done" /\ Body[q].op = "invite"
  BY <1>1 DEF Here, TenancyInv, Fits
<1>3. Body[q].op \notin About /\ Fits(q, "insert") /\ "insert" \in Stages
  BY <1>2 DEF About, Fits, Stages
<1>4. CASE Moves(q, "insert")
  BY <1>1, <1>2, <1>3, <1>4, ReadStep
<1>5. CASE Moves(q, "done")
  BY <1>1, <1>2, <1>5, DoneFits, ReadStep
<1>. QED  BY <1>1, <1>4, <1>5

LEMMA CreateStep ==
  ASSUME TenancyInv, NEW q \in Requests, CreateInvitation(q)
  PROVE  TenancyInv'
<1>1. /\ stage[q] = "insert" /\ Moves(q, "done")
      /\ invites' = [invites EXCEPT ![q] = "PENDING"]
      /\ UNCHANGED <<overdue, members, orgMembers, post, met>>
  BY DEF CreateInvitation, Committed, Answer, Moves, tenants, ghosts
<1>2. Here(q) /\ stage[q] # "done"
  BY <1>1 DEF Here
<1>3. invites[q] = None
  BY <1>2 DEF TenancyInv, RowsInv
<1>4. Onward
  BY <1>1, <1>3 DEF TenancyInv, RowsInv, Onward, Moves, Statuses
<1>5. JoinedInv'
  BY <1>1, DoneFits, JoinedUnchanged
<1>6. post' \in [Requests -> Letters]
  BY <1>1 DEF TenancyInv
<1>. QED  BY <1>1, <1>2, <1>4, <1>5, <1>6, DoneFits, StepKeeps

\* What a request knows when it has found its invitation pending.
LEMMA FetchStep ==
  ASSUME TenancyInv, NEW q \in Requests, Fetch(q)
  PROVE  TenancyInv'
<1>1. /\ stage[q] = "fetch"
      /\ UNCHANGED <<invites, overdue, members, orgMembers, post, met>>
      /\ IF invites[Target(q)] = "PENDING" THEN Found(q) ELSE Answer(q, "refused")
  BY DEF Fetch, other, invitations, tenants, ghosts
<1>2. Here(q) /\ stage[q] # "done" /\ Body[q].op \in About
  BY <1>1 DEF Here, TenancyInv, Fits
<1>3. CASE \E a : Answer(q, a)
  BY <1>1, <1>2, <1>3, AnswerStep
<1>4. CASE invites[Target(q)] = "PENDING" /\ Found(q)
  <2>1. Timely(q) /\ invites[Target(q)] # None
        /\ (Target(q) \notin overdue => met[q] = "open")
    <3>1. Fresh(q)
      BY <1>2 DEF TenancyInv, MetInv
    <3>2. None # "PENDING"
      BY ConstantsOK DEF Statuses
    <3>. QED  BY <1>4, <3>1, <3>2 DEF Fresh
  <2>2. CASE Body[q].op = "revoke" /\ Moves(q, "settle")
    <3>1. Fits(q, "settle") /\ Knows(q, "settle") /\ "settle" \in Stages
      BY <2>1, <2>2 DEF Fits, Knows, Stages
    <3>. QED  BY <1>1, <1>2, <2>2, <3>1, ReadStep
  <2>3. CASE Body[q].op \in {"accept", "look"} /\ Moves(q, "expire")
    <3>1. Fits(q, "expire") /\ Knows(q, "expire") /\ "expire" \in Stages
      BY <2>1, <2>3 DEF Fits, Knows, Stages
    <3>. QED  BY <1>1, <1>2, <2>3, <3>1, ReadStep
  <2>4. CASE /\ Body[q].op = "accept"
             /\ Body[q].by = "token" => Target(q) \notin overdue
             /\ \E s \in {"post", "existing"} : Moves(q, s)
    <3>1. PICK s \in {"post", "existing"} : Moves(q, s)
      BY <2>4
    <3>2. Welcome(q)
      BY <2>1, <2>4 DEF Welcome
    <3>3. Fits(q, s) /\ Knows(q, s) /\ s \in Stages \ {"absent", "new"}
      BY <2>1, <2>4, <3>1, <3>2 DEF Fits, Knows, Stages
    <3>. QED  BY <1>1, <1>2, <3>1, <3>3, ReadStep
  <2>5. \/ \E a : Answer(q, a)
        \/ Body[q].op = "revoke" /\ Moves(q, "settle")
        \/ Body[q].op \in {"accept", "look"} /\ Moves(q, "expire")
        \/ /\ Body[q].op = "accept"
           /\ Body[q].by = "token" => Target(q) \notin overdue
           /\ \E s \in {"post", "existing"} : Moves(q, s)
    BY <1>4 DEF Found, Goto, Moves
  <2>. QED  BY <1>3, <2>2, <2>3, <2>4, <2>5
<1>. QED  BY <1>1, <1>3, <1>4

LEMMA ExistingStep ==
  ASSUME TenancyInv, NEW q \in Requests, Existing(q)
  PROVE  TenancyInv'
<1>1. /\ stage[q] = "existing"
      /\ UNCHANGED <<invites, overdue, members, orgMembers, post, met>>
      /\ Moves(q, "join") \/ Answer(q, "refused")
  BY DEF Existing, Goto, Moves, other, invitations, tenants, ghosts
<1>2. Here(q) /\ stage[q] # "done" /\ Body[q].op = "accept"
  BY <1>1 DEF Here, TenancyInv, Fits
<1>3. Knows(q, "existing")
  BY <1>1, <1>2 DEF TenancyInv, MetInv, About
<1>4. Fits(q, "join") /\ Knows(q, "join") /\ "join" \in Stages
  BY <1>2, <1>3 DEF Fits, Knows, Stages
<1>5. CASE Moves(q, "join")
  BY <1>1, <1>2, <1>4, <1>5, ReadStep
<1>6. CASE Answer(q, "refused")
  BY <1>1, <1>2, <1>6, AnswerStep
<1>. QED  BY <1>1, <1>5, <1>6

\* An invitation that is there is settled, by a request that came in time.
LEMMA SettlesOne ==
  ASSUME TenancyInv, NEW q \in Requests, stage[q] \in {"settle", "expire"},
         NEW st \in {"ACCEPTED", "EXPIRED", "REVOKED"},
         invites' = [invites EXCEPT ![Target(q)] = st],
         NEW s \in Stages, Moves(q, s)
  PROVE  /\ Onward
         /\ Timely(q) /\ Target(q) \in Requests /\ invites[Target(q)] # None
<1>1. Body[q].op \in About
  BY DEF TenancyInv, Fits, About
<1>2. Target(q) \in Requests /\ Target(q) # None
  BY <1>1, Targets
<1>3. Timely(q) /\ invites[Target(q)] # None
  BY <1>1 DEF TenancyInv, MetInv, Knows, Here
<1>4. stage[Target(q)] = "done"
  BY <1>2, <1>3 DEF TenancyInv, RowsInv
<1>5. None \notin {"ACCEPTED", "EXPIRED", "REVOKED"}
  BY ConstantsOK DEF Statuses
<1>6. invites' \in [Requests -> Statuses \union {None}]
  BY DEF TenancyInv, RowsInv, Statuses
<1>7. \A i \in Requests :
        invites'[i] = IF i = Target(q) THEN st ELSE invites[i]
  BY <1>2 DEF TenancyInv, RowsInv
<1>8. \A i \in Requests : stage[i] = "done" => stage'[i] = "done"
  BY DEF TenancyInv, Moves
<1>9. st # None /\ st # "PENDING"
  BY <1>5
<1>10. Onward
  BY <1>3, <1>4, <1>6, <1>7, <1>8, <1>9 DEF TenancyInv, RowsInv, Onward
<1>. QED  BY <1>2, <1>3, <1>10

LEMMA SettleStep ==
  ASSUME TenancyInv, NEW q \in Requests, Settle(q)
  PROVE  TenancyInv'
<1>1. /\ stage[q] = "settle"
      /\ invites' = [invites EXCEPT ![Target(q)] =
                       IF Body[q].op = "revoke" THEN "REVOKED" ELSE "ACCEPTED"]
      /\ \/ Moves(q, "done")
         \/ Body[q].op = "accept" /\ Moves(q, "post")
      /\ UNCHANGED <<overdue, members, orgMembers, post, met>>
  BY DEF Settle, Committed, Goto, Answer, Moves, tenants, ghosts
<1> DEFINE st == IF Body[q].op = "revoke" THEN "REVOKED" ELSE "ACCEPTED"
<1>2. st \in {"ACCEPTED", "EXPIRED", "REVOKED"} /\ Here(q) /\ stage[q] # "done"
  BY <1>1 DEF Here
<1>3. post' \in [Requests -> Letters]
  BY <1>1 DEF TenancyInv
<1>4. CASE Moves(q, "done")
  <2>1. Onward
    BY <1>1, <1>2, <1>4, DoneFits, SettlesOne
  <2>2. JoinedInv'
    BY <1>1, <1>4, DoneFits, JoinedUnchanged
  <2>. QED  BY <1>1, <1>2, <1>3, <1>4, <2>1, <2>2, DoneFits, StepKeeps
<1>5. CASE Body[q].op = "accept" /\ Moves(q, "post")
  <2>1. "post" \in Stages \ {"absent", "new"}
    BY DEF Stages
  <2>2. Onward
    BY <1>1, <1>2, <1>5, <2>1, SettlesOne
  <2>3. JoinedInv'
    BY <1>1, <1>5, <2>1, JoinedUnchanged
  <2>4. Knows(q, "settle")
    BY <1>1, <1>2, <1>5 DEF TenancyInv, MetInv, About
  <2>5. Knows(q, "post") /\ Fits(q, "post")
    BY <1>5, <2>4 DEF Knows, Fits
  <2>. QED  BY <1>1, <1>2, <1>3, <1>5, <2>1, <2>2, <2>3, <2>5, StepKeeps
<1>. QED  BY <1>1, <1>4, <1>5

LEMMA ExpireStep ==
  ASSUME TenancyInv, NEW q \in Requests, Expire(q)
  PROVE  TenancyInv'
<1>1. /\ stage[q] = "expire"
      /\ invites' = [invites EXCEPT ![Target(q)] = "EXPIRED"]
      /\ Moves(q, "done")
      /\ UNCHANGED <<overdue, members, orgMembers, post, met>>
  BY DEF Expire, Committed, Answer, Moves, tenants, ghosts
<1>2. Here(q) /\ stage[q] # "done"
  BY <1>1 DEF Here
<1>3. post' \in [Requests -> Letters]
  BY <1>1 DEF TenancyInv
<1>4. Onward
  BY <1>1, DoneFits, SettlesOne
<1>5. JoinedInv'
  BY <1>1, DoneFits, JoinedUnchanged
<1>. QED  BY <1>1, <1>2, <1>3, <1>4, <1>5, DoneFits, StepKeeps

------------------------------------------------------------------------------
(* The POST.                                                               *)

LEMMA PostStep ==
  ASSUME TenancyInv, NEW q \in Requests, Post(q)
  PROVE  TenancyInv'
<1>1. /\ stage[q] = "post" /\ Moves(q, "waiting")
      /\ post' = [post EXCEPT ![q] = "asked"]
      /\ UNCHANGED <<invites, overdue, members, orgMembers, met>>
  BY DEF Post, Goto, Moves, invitations, tenants, ghosts
<1>2. /\ Here(q) /\ stage[q] # "done" /\ Body[q].op = "accept"
      /\ "waiting" \in Stages \ {"absent", "new"}
  BY <1>1 DEF Here, TenancyInv, Fits, Stages
<1>3. Knows(q, "post")
  BY <1>1, <1>2 DEF TenancyInv, MetInv, About
<1>4. Knows(q, "waiting") /\ Fits(q, "waiting") /\ Welcome(q)
  BY <1>2, <1>3 DEF Knows, Fits
<1>5. post' \in [Requests -> Letters]
  BY <1>1 DEF TenancyInv, Letters
<1>6. Onward
  BY <1>1, <1>2, OnwardUnchanged
<1>7. JoinedInv'
  <2>1. \A p \in Requests : Here(p) => Here(p)'
    BY <1>1, <1>2 DEF TenancyInv, Moves, Here
  <2>2. \A p \in Requests : Welcome(p)' <=> Welcome(p)
    BY <1>1 DEF Welcome, Timely
  <2>3. \A p \in Requests : post'[p] # "none" => p = q \/ post[p] # "none"
    BY <1>1 DEF TenancyInv
  <2>. QED  BY <1>1, <1>2, <1>4, <2>1, <2>2, <2>3 DEF TenancyInv, JoinedInv
<1>. QED  BY <1>1, <1>2, <1>4, <1>5, <1>6, <1>7, StepKeeps

LEMMA AnsweredStep ==
  ASSUME TenancyInv, NEW q \in Requests, Answered(q) \/ TimesOut(q)
  PROVE  TenancyInv'
<1>1. /\ stage[q] = "waiting"
      /\ UNCHANGED <<invites, overdue, members, orgMembers, post, met>>
      /\ Moves(q, "settle") \/ \E a : Answer(q, a)
  BY DEF Answered, TimesOut, Unanswered, Goto, Moves, invitations, tenants
<1>2. Here(q) /\ stage[q] # "done" /\ Body[q].op = "accept"
  BY <1>1 DEF Here, TenancyInv, Fits
<1>3. Knows(q, "waiting")
  BY <1>1, <1>2 DEF TenancyInv, MetInv, About
<1>4. Knows(q, "settle") /\ Fits(q, "settle") /\ "settle" \in Stages
  BY <1>2, <1>3 DEF Knows, Fits, Stages
<1>5. CASE Moves(q, "settle")
  BY <1>1, <1>2, <1>4, <1>5, ReadStep
<1>6. CASE \E a : Answer(q, a)
  BY <1>1, <1>2, <1>6, AnswerStep
<1>. QED  BY <1>1, <1>5, <1>6

\* Steps at which no request moves.
LEMMA StandStill ==
  ASSUME TenancyInv, UNCHANGED <<stage, invites, members, met>>,
         post' \in [Requests -> Letters],
         \A q \in Requests : post'[q] # "none" => post[q] # "none",
         \A m \in orgMembers' : m \in orgMembers \/
           (m.by \in Requests /\ Here(m.by) /\ Welcome(m.by)),
         overdue \subseteq overdue',
         \A i \in overdue' \intersect Requests : invites[i] # None
  PROVE  TenancyInv'
<1>1. \A p \in Requests : /\ Here(p)' <=> Here(p)
                          /\ Welcome(p)' <=> Welcome(p)
                          /\ Timely(p)' <=> Timely(p)
                          /\ Fits(p, stage[p])' <=> Fits(p, stage[p])
  BY DEF Here, Welcome, Timely, Fits
<1>2. \A p \in Requests : Knows(p, stage[p])' <=> Knows(p, stage[p])
  BY <1>1 DEF Knows, Target
<1>3. \A p \in Requests : Fresh(p) => Fresh(p)'
  BY <1>1 DEF Fresh, Target
<1>4. RowsInv'
  BY DEF TenancyInv, RowsInv
<1>5. MetInv'
  BY <1>1, <1>2, <1>3 DEF TenancyInv, MetInv
<1>6. JoinedInv'
  BY <1>1 DEF TenancyInv, JoinedInv
<1>. QED  BY <1>1, <1>4, <1>5, <1>6 DEF TenancyInv

LEMMA TenantPostSteps ==
  ASSUME TenancyInv, NEW q \in Requests,
         LookForMember(q) \/ AddMember(q) \/ PostFails(q)
  PROVE  TenancyInv'
<1>1. /\ post[q] # "none"
      /\ \E a \in Letters : post' = [post EXCEPT ![q] = a]
      /\ orgMembers' = orgMembers \/ orgMembers' = orgMembers \union {Membership(q)}
      /\ UNCHANGED <<stage, invites, overdue, members, met>>
  BY DEF LookForMember, AddMember, PostFails, Pending, Letters, invitations,
         tenants, ghosts
<1>2. /\ post' \in [Requests -> Letters]
      /\ \A p \in Requests : post'[p] # "none" => post[p] # "none"
  BY <1>1 DEF TenancyInv
<1>3. Here(q) /\ Welcome(q)
  BY <1>1 DEF TenancyInv, JoinedInv
<1>4. Membership(q).by = q
  BY DEF Membership
<1>5. \A i \in overdue' \intersect Requests : invites[i] # None
  BY <1>1 DEF TenancyInv, RowsInv
<1>. QED  BY <1>1, <1>2, <1>3, <1>4, <1>5, StandStill

LEMMA LapseStep ==
  ASSUME TenancyInv, NEW i \in Requests, Lapse(i)
  PROVE  TenancyInv'
<1>1. /\ invites[i] # None /\ overdue' = overdue \union {i}
      /\ UNCHANGED <<stage, invites, members, orgMembers, post, met>>
  BY DEF Lapse, tenants, ghosts
<1>2. \A j \in overdue' \intersect Requests : invites[j] # None
  BY <1>1 DEF TenancyInv, RowsInv
<1>3. post' \in [Requests -> Letters]
  BY <1>1 DEF TenancyInv
<1>. QED  BY <1>1, <1>2, <1>3, StandStill

------------------------------------------------------------------------------
(* The tenant service, arrivals and failures.                              *)

LEMMA TenantSteps ==
  ASSUME TenancyInv, NEW q \in Requests,
         \/ Register(q) \/ Login(q) \/ ExchangeContext(q) \/ IssueToken(q)
         \/ CreateOrganization(q) \/ CreateDefaultWorkspace(q) \/ AssignRole(q)
         \/ CreateWorkspace(q) \/ List(q)
  PROVE  TenancyInv'
<1>1. UNCHANGED <<invites, overdue, members, orgMembers, post, met>>
  BY DEF Register, Login, ExchangeContext, IssueToken, CreateOrganization,
         CreateDefaultWorkspace, AssignRole, CreateWorkspace, List, other,
         invitations, tenants, ghosts
<1>2. stage[q] \in {"register", "login", "context", "issuing", "org", "default",
                    "assign", "workspace", "listed"}
  BY DEF Register, Login, ExchangeContext, IssueToken, CreateOrganization,
         CreateDefaultWorkspace, AssignRole, CreateWorkspace, List
<1>3. Here(q) /\ stage[q] # "done"
  BY <1>2 DEF Here
<1>4. ASSUME NEW a, Answer(q, a) PROVE TenancyInv'
  BY <1>1, <1>3, <1>4, AnswerStep
<1>5. ASSUME ExchangeContext(q), Goto(q, "issuing") PROVE TenancyInv'
  <2>1. Moves(q, "issuing") /\ stage[q] = "context"
    BY <1>5 DEF Goto, Moves, ExchangeContext
  <2>2. "issuing" \in Stages \ {"absent", "new"} /\ Fits(q, "issuing")
    BY <1>5, <2>1 DEF Stages, Fits, TenancyInv
  <2>3. Body[q].op \in About => Knows(q, "issuing")
    <3>1. ASSUME Body[q].op = "accept" PROVE Welcome(q)
      BY <1>3, <2>1, <3>1 DEF TenancyInv, MetInv, About, Knows
    <3>. QED  BY <3>1 DEF Knows
  <2>. QED  BY <1>1, <1>3, <2>1, <2>2, <2>3, ReadStep
<1>6. ASSUME NEW s \in {"owner", "assign"}, stage[q] \in {"org", "default"},
             Goto(q, s)
      PROVE  TenancyInv'
  <2>1. Body[q].op = "org"
    BY <1>6 DEF TenancyInv, Fits
  <2>2. s \in Stages \ {"absent", "new"} /\ Fits(q, s) /\ Body[q].op \notin About
    BY <2>1 DEF Stages, Fits, About
  <2>3. Moves(q, s)
    BY <1>6 DEF Goto, Moves
  <2>. QED  BY <1>1, <1>3, <2>2, <2>3, ReadStep
<1>7. \/ \E a : Answer(q, a)
      \/ ExchangeContext(q) /\ Goto(q, "issuing")
      \/ \E s \in {"owner", "assign"} :
           stage[q] \in {"org", "default"} /\ Goto(q, s)
  BY DEF Committed, Register, Login, ExchangeContext, IssueToken, CreateOrganization,
         CreateDefaultWorkspace, AssignRole, CreateWorkspace, List
<1>. QED  BY <1>4, <1>5, <1>6, <1>7

LEMMA OwnerStep ==
  ASSUME TenancyInv, NEW q \in Requests, CreateOwner(q)
  PROVE  TenancyInv'
<1>1. /\ stage[q] = "owner" /\ Moves(q, "default")
      /\ orgMembers' = orgMembers \union {Membership(q)}
      /\ UNCHANGED <<invites, overdue, members, post, met>>
  BY DEF CreateOwner, Goto, Moves, other, invitations, ghosts
<1>2. /\ Here(q) /\ stage[q] # "done" /\ Body[q].op = "org"
      /\ "default" \in Stages \ {"absent", "new"}
  BY <1>1 DEF Here, TenancyInv, Fits, Stages
<1>3. Fits(q, "default") /\ Body[q].op \notin About
  BY <1>2 DEF Fits, About
<1>4. Onward
  BY <1>1, <1>2, OnwardUnchanged
<1>5. JoinedInv'
  <2>1. \A p \in Requests : Here(p) => Here(p)'
    BY <1>1, <1>2 DEF TenancyInv, Moves, Here
  <2>2. \A p \in Requests : Welcome(p)' <=> Welcome(p)
    BY <1>1 DEF Welcome, Timely
  <2>3. Membership(q).by = q
    BY DEF Membership
  <2>. QED  BY <1>1, <1>2, <2>1, <2>2, <2>3 DEF TenancyInv, JoinedInv
<1>6. post' \in [Requests -> Letters]
  BY <1>1 DEF TenancyInv
<1>. QED  BY <1>1, <1>2, <1>3, <1>4, <1>5, <1>6, StepKeeps

LEMMA ArriveStep ==
  ASSUME TenancyInv, NEW q \in Requests, Arrive(q)
  PROVE  TenancyInv'
<1>1. /\ stage[q] = "new" /\ stage' = [stage EXCEPT ![q] = FirstStage(q)]
      /\ met' = [met EXCEPT ![q] = Condition(Target(q))]
      /\ UNCHANGED <<invites, overdue, members, orgMembers, post>>
  BY DEF Arrive, Goto, invitations, tenants
<1>2. Body[q].op \in Ops /\ Target(q) \in Requests \union {None}
  <2>1. Body[q] \in Bodies
    BY ConstantsOK
  <2>. QED  BY <2>1 DEF Bodies, Target
<1>3. /\ FirstStage(q) \in Stages \ {"absent", "new", "done"}
      /\ Fits(q, FirstStage(q))
      /\ Body[q].op \in {"accept", "look"} => FirstStage(q) = "fetch"
      /\ Body[q].op = "revoke" => FirstStage(q) \in {"role", "fetch"}
  BY <1>2 DEF FirstStage, Authorized, Stages, Fits, Ops, About
<1>4. Condition(Target(q)) \in {None, "closed", "late", "open"}
  <2>1. CASE Target(q) = None
    BY <2>1 DEF Condition
  <2>2. CASE Target(q) # None /\ invites[Target(q)] \in {None, "PENDING"}
    BY <2>2 DEF Condition
  <2>3. CASE Target(q) # None /\ invites[Target(q)] \notin {None, "PENDING"}
    BY <2>3 DEF Condition
  <2>. QED  BY <2>1, <2>2, <2>3
<1>5. /\ stage' \in [Requests -> Stages] /\ stage'[q] = FirstStage(q)
      /\ met' \in [Requests -> {None, "closed", "late", "open"}]
      /\ met'[q] = Condition(Target(q))
      /\ \A p \in Requests : p # q => stage'[p] = stage[p] /\ met'[p] = met[p]
  BY <1>1, <1>3, <1>4 DEF TenancyInv
<1>6. \A p \in Requests : Fits(p, stage[p])'
  <2>1. \A p \in Requests : Fits(p, stage'[p])
    BY <1>3, <1>5 DEF TenancyInv
  <2>. QED  BY <2>1 DEF Fits
<1>7. RowsInv'
  BY <1>1, <1>5 DEF TenancyInv, RowsInv
<1>8. \A p \in Requests : p # q =>
        (Welcome(p)' <=> Welcome(p)) /\ (Timely(p)' <=> Timely(p))
  BY <1>5 DEF Welcome, Timely
<1>9. \A p \in Requests : Here(p) => p # q /\ Here(p)'
  BY <1>1, <1>5 DEF Here
<1>10. JoinedInv'
  BY <1>1, <1>8, <1>9 DEF TenancyInv, JoinedInv
<1>11. ASSUME NEW p \in Requests, Body[p].op \in About, Here(p)',
              stage'[p] # "done"
       PROVE  Fresh(p)' /\ Knows(p, stage[p])'
  <2>1. CASE p # q
    <3>1. Here(p) /\ stage[p] # "done"
      BY <1>5, <1>11, <2>1 DEF Here
    <3>2. Fresh(p) /\ Knows(p, stage[p])
      BY <1>11, <3>1 DEF TenancyInv, MetInv
    <3>3. Fresh(p)'
      BY <1>1, <1>5, <1>8, <2>1, <3>2 DEF Fresh, Target
    <3>4. Knows(p, stage[p])'
      BY <1>1, <1>5, <1>8, <2>1, <3>2 DEF Knows, Target
    <3>. QED  BY <3>3, <3>4
  <2>2. CASE p = q
    <3>1. Target(q) \in Requests /\ Target(q) # None
      BY <1>11, <2>2, Targets
    <3>2. invites[Target(q)] \in {None, "PENDING"} =>
            Condition(Target(q)) =
              IF Target(q) \in overdue THEN "late" ELSE "open"
      BY <3>1 DEF Condition
    <3>3. Fresh(q)'
      BY <1>1, <1>5, <3>2 DEF Fresh, Timely, Target
    <3>4. stage'[q] \in {"role", "fetch"}
          /\ (Body[q].op = "accept" => stage'[q] = "fetch")
      BY <1>3, <1>5, <1>11, <2>2 DEF About
    <3>5. Knows(q, stage[q])'
      BY <3>4 DEF Knows
    <3>. QED  BY <2>2, <3>3, <3>5
  <2>. QED  BY <2>1, <2>2
<1>12. MetInv'
  BY <1>11 DEF MetInv
<1>. QED
  BY <1>1, <1>5, <1>6, <1>7, <1>10, <1>12 DEF TenancyInv

LEMMA FailureStep ==
  ASSUME TenancyInv, NEW q \in Requests, CallFails(q)
  PROVE  TenancyInv'
<1>1. /\ Here(q) /\ stage[q] # "done" /\ Answer(q, "error")
      /\ UNCHANGED <<invites, overdue, members, orgMembers, post, met>>
  BY DEF CallFails, Busy, Here, invitations, tenants, ghosts
<1>. QED  BY <1>1, AnswerStep

LEMMA CrashStep ==
  ASSUME TenancyInv, NEW tenant \in BOOLEAN, Crash(tenant)
  PROVE  TenancyInv'
<1>1. /\ stage' = [q \in Requests |->
                     IF Busy(q) /\ IsTenant(q) = tenant THEN "done" ELSE stage[q]]
      /\ post' = [q \in Requests |-> IF tenant /\ Pending(q) THEN "refused"
                                     ELSE post[q]]
      /\ UNCHANGED <<invites, overdue, members, orgMembers, met>>
  BY DEF Crash, invitations, tenants, ghosts
<1>2. /\ stage' \in [Requests -> Stages]
      /\ \A p \in Requests : stage'[p] \in {"done", stage[p]}
      /\ \A p \in Requests : stage[p] = "done" => stage'[p] = "done"
      /\ \A p \in Requests : Here(p) <=> Here(p)'
  BY <1>1 DEF TenancyInv, Stages, Here, Busy
<1>3. /\ post' \in [Requests -> Letters]
      /\ \A p \in Requests : post'[p] # "none" => post[p] # "none"
  BY <1>1 DEF TenancyInv, Letters, Pending
<1>4. \A p \in Requests : Fits(p, stage[p])'
  <2>1. \A p \in Requests : Fits(p, stage'[p])
    BY <1>2, DoneFits DEF TenancyInv
  <2>. QED  BY <2>1 DEF Fits
<1>5. RowsInv'
  BY <1>1, <1>2 DEF TenancyInv, RowsInv
<1>6. \A p \in Requests : (Welcome(p)' <=> Welcome(p)) /\ (Timely(p)' <=> Timely(p))
  BY <1>1 DEF Welcome, Timely
<1>7. JoinedInv'
  BY <1>1, <1>2, <1>3, <1>6 DEF TenancyInv, JoinedInv
<1>8. ASSUME NEW p \in Requests, Body[p].op \in About, Here(p)', stage'[p] # "done"
      PROVE  Fresh(p)' /\ Knows(p, stage[p])'
  <2>1. stage'[p] = stage[p] /\ Here(p) /\ stage[p] # "done"
    BY <1>2, <1>8
  <2>2. Fresh(p) /\ Knows(p, stage[p])
    BY <1>8, <2>1 DEF TenancyInv, MetInv
  <2>3. Fresh(p)'
    BY <1>1, <1>6, <2>2 DEF Fresh, Target
  <2>4. Knows(p, stage[p])'
    BY <1>1, <1>6, <2>1, <2>2 DEF Knows, Target
  <2>. QED  BY <2>3, <2>4
<1>9. MetInv'
  BY <1>8 DEF MetInv
<1>. QED
  BY <1>1, <1>2, <1>3, <1>4, <1>5, <1>7, <1>9 DEF TenancyInv

------------------------------------------------------------------------------
(* The theorems.                                                           *)

LEMMA TenancyInitInv ==
  ASSUME Init
  PROVE  TenancyInv
<1>1. PICK B \in Batches :
        stage = [q \in Requests |-> IF q \in Standing THEN "done"
                                    ELSE IF q \in B THEN "new" ELSE "absent"]
  BY DEF Init
<1>2. /\ stage \in [Requests -> Stages]
      /\ \A q \in Requests : stage[q] \in {"done", "new", "absent"}
      /\ \A q \in Requests : q \in Standing => stage[q] = "done"
  BY <1>1 DEF Stages
<1>3. /\ met = [q \in Requests |-> None] /\ post = [q \in Requests |-> "none"]
      /\ invites = [q \in Requests |-> IF q \in Standing THEN "PENDING" ELSE None]
      /\ overdue = {} /\ members = {}
      /\ \A m \in orgMembers : m.by = None
  BY DEF Init
<1>4. \A q \in Requests : Fits(q, stage[q])
  BY <1>2 DEF Fits
<1>5. RowsInv
  BY <1>2, <1>3 DEF RowsInv, Statuses
<1>6. MetInv
  BY <1>2 DEF MetInv, Here
<1>7. JoinedInv
  BY <1>3 DEF JoinedInv
<1>. QED  BY <1>2, <1>3, <1>4, <1>5, <1>6, <1>7 DEF TenancyInv, Letters

LEMMA TenancyStep ==
  ASSUME TenancyInv, [TenancyNext]_tvars
  PROVE  TenancyInv'
<1>1. ASSUME NEW q \in Requests, Proceed(q) PROVE TenancyInv'
  BY <1>1, RoleSteps, BootstrapStep, CheckStep, CreateStep, FetchStep,
     ExistingStep, JoinStep, SettleStep, ExpireStep, PostStep, AnsweredStep,
     TenantSteps, OwnerStep
  DEF Proceed
<1>2. ASSUME UNCHANGED tvars PROVE TenancyInv'
  <2>1. UNCHANGED <<stage, invites, overdue, members, orgMembers, post, met>>
    BY <1>2 DEF tvars, invitations, tenants, ghosts
  <2>2. /\ post' \in [Requests -> Letters]
        /\ \A i \in overdue' \intersect Requests : invites[i] # None
    BY <2>1 DEF TenancyInv, RowsInv
  <2>. QED  BY <2>1, <2>2, StandStill
<1>. QED
  BY <1>1, <1>2, ArriveStep, TenantPostSteps, FailureStep, LapseStep, CrashStep
  DEF TenancyNext

LEMMA TenancyInvariant == TenancySpec => []TenancyInv
<1>1. Init => TenancyInv
  BY TenancyInitInv
<1>2. TenancyInv /\ [TenancyNext]_tvars => TenancyInv'
  BY TenancyStep
<1>. QED  BY <1>1, <1>2, PTL DEF TenancySpec

\* Nobody becomes a member on an invitation that was settled when his request
\* came, nor by token on one that was overdue, although accept_invitation looks
\* once, and others settle the invitation while it awaits.
THEOREM JoinsStayOpen == TenancySpec => []JoinsWereOpen
<1>1. TenancyInv => JoinsWereOpen
  BY DEF TenancyInv, JoinedInv, JoinsWereOpen, Welcome, Timely
<1>. QED  BY <1>1, TenancyInvariant, PTL

\* No await of any request makes a settled invitation pending again, or changes
\* it but for a request that came before it was settled.
THEOREM SettledForGood == TenancySpec => SettledStays
<1> DEFINE Kept ==
      \A i \in Requests :
        invites'[i] # invites[i] /\ invites[i] \notin {None, "PENDING"} =>
          /\ invites'[i] \notin {None, "PENDING"}
          /\ \E q \in Requests : /\ Target(q) = i /\ met[q] # "closed"
                                 /\ stage[q] \in {"settle", "expire"}
                                 /\ stage'[q] # stage[q]
<1>1. ASSUME TenancyInv, NEW q \in Requests, Settle(q) \/ Expire(q)
      PROVE  Kept
  <2>1. /\ stage[q] \in {"settle", "expire"}
        /\ \E st \in {"ACCEPTED", "EXPIRED", "REVOKED"} :
             invites' = [invites EXCEPT ![Target(q)] = st]
        /\ \E s \in {"post", "done"} : Moves(q, s)
    BY <1>1 DEF Committed, Settle, Expire, Goto, Answer, Moves
  <2>2. PICK st \in {"ACCEPTED", "EXPIRED", "REVOKED"} :
          invites' = [invites EXCEPT ![Target(q)] = st]
    BY <2>1
  <2>3. PICK s \in {"post", "done"} : Moves(q, s)
    BY <2>1
  <2>4. Timely(q) /\ Target(q) \in Requests
    BY <1>1, <2>1, <2>2, <2>3, SettlesOne DEF Stages
  <2>5. stage'[q] # stage[q]
    BY <1>1, <2>1, <2>3 DEF TenancyInv, Moves
  <2>6. None \notin {"ACCEPTED", "EXPIRED", "REVOKED"}
    BY ConstantsOK DEF Statuses
  <2>7. \A i \in Requests : invites'[i] = IF i = Target(q) THEN st ELSE invites[i]
    BY <1>1, <2>2 DEF TenancyInv, RowsInv
  <2>8. st \notin {None, "PENDING"}
    BY <2>6
  <2>. QED  BY <2>1, <2>4, <2>5, <2>7, <2>8 DEF Timely
<1>2. ASSUME TenancyInv, NEW q \in Requests, CreateInvitation(q)
      PROVE  Kept
  <2>1. stage[q] = "insert" /\ invites' = [invites EXCEPT ![q] = "PENDING"]
    BY <1>2 DEF CreateInvitation
  <2>2. invites[q] = None
    BY <1>2, <2>1 DEF TenancyInv, RowsInv
  <2>. QED  BY <1>2, <2>1, <2>2 DEF TenancyInv, RowsInv
<1>3. ASSUME invites' = invites PROVE Kept
  BY <1>3
<1>4. ASSUME NEW q \in Requests, Proceed(q)
      PROVE  invites' = invites \/ Settle(q) \/ Expire(q) \/ CreateInvitation(q)
  BY <1>4 DEF Proceed, ResolveRole, CountMembers, Bootstrap, List,
              CheckInvitation, Fetch, Existing, Join, Post, Answered, TimesOut,
              Register, Login, ExchangeContext, IssueToken, CreateOrganization,
              CreateOwner, CreateDefaultWorkspace, AssignRole, CreateWorkspace,
              other, invitations
<1>5. ASSUME TenancyInv, [TenancyNext]_tvars
      PROVE  [Kept]_tvars
  <2>1. CASE \E q \in Requests : Proceed(q)
    BY <1>1, <1>2, <1>3, <1>4, <1>5, <2>1
  <2>2. CASE \/ \E q \in Requests :
                  \/ Arrive(q) \/ LookForMember(q) \/ AddMember(q)
                  \/ CallFails(q) \/ PostFails(q) \/ Lapse(q)
             \/ \E tenant \in BOOLEAN : Crash(tenant)
    <3>1. invites' = invites
      BY <2>2 DEF Arrive, LookForMember, AddMember, CallFails, PostFails, Lapse,
                  Crash, invitations
    <3>. QED  BY <1>3, <3>1
  <2>. QED  BY <1>5, <2>1, <2>2 DEF TenancyNext
<1>. QED
  BY <1>5, TenancyInvariant, PTL DEF TenancySpec, SettledStays

------------------------------------------------------------------------------
(* What a step is to one request, and what it is to the tables.            *)

Settled(i) == invites[i] \notin {None, "PENDING"}

Still(q) == stage'[q] = stage[q] /\ answer'[q] = answer[q]

\* Its call raises, or its service dies.
Broken(q) == Busy(q) /\ stage'[q] = "done" /\ answer'[q] = "error"

\* A request that acts is at work, and goes on to another await or answers.
Onto(q, s) ==
  /\ Busy(q) /\ Moves(q, s) /\ s \in Stages \ {"absent", "new"}
  /\ \/ s # "done" /\ answer' = answer
     \/ s = "done" /\ \E a \in Answers : answer' = [answer EXCEPT ![q] = a]

LEMMA GotoOnto ==
  ASSUME NEW q \in Requests, Busy(q),
         NEW s \in Stages \ {"absent", "new", "done"}, Goto(q, s)
  PROVE  \E t : Onto(q, t)
BY DEF Goto, Onto, Moves

LEMMA AnswerOnto ==
  ASSUME NEW q \in Requests, Busy(q), NEW a \in Answers, Answer(q, a)
  PROVE  \E t : Onto(q, t)
BY DEF Answer, Onto, Moves, Stages

LEMMA ProceedsOnto ==
  ASSUME TenancyInv, NEW q \in Requests, Proceed(q)
  PROVE  \E s : Onto(q, s)
<1>1. CASE ResolveRole(q) \/ CountMembers(q) \/ Bootstrap(q)
  <2>1. stage[q] \in {"role", "count", "bootstrap"}
    BY <1>1 DEF ResolveRole, CountMembers, Bootstrap
  <2>2. /\ Busy(q) /\ Authorized(q) \in Stages \ {"absent", "new", "done"}
        /\ "count" \in Stages /\ "bootstrap" \in Stages
    BY <2>1, AuthorizedFits DEF Busy, Stages, Authorized
  <2>3. \E s \in {"count", "bootstrap", Authorized(q)} : Goto(q, s)
    BY <1>1 DEF ResolveRole, CountMembers, Bootstrap
  <2>. QED  BY <2>2, <2>3, GotoOnto
<1>2. CASE CheckInvitation(q) \/ CreateInvitation(q) \/ List(q)
  <2>1. Busy(q) /\ "insert" \in Stages
    BY <1>2 DEF CheckInvitation, CreateInvitation, List, Busy, Stages
  <2>2. Goto(q, "insert") \/ \E a \in Answers : Answer(q, a)
    BY <1>2 DEF Committed, CheckInvitation, CreateInvitation, List, Answers
  <2>. QED  BY <2>1, <2>2, GotoOnto, AnswerOnto
<1>3. CASE Fetch(q) \/ Existing(q) \/ Join(q)
  <2>1. /\ Busy(q) /\ {"join", "settle", "expire", "post", "existing"} \subseteq Stages
    BY <1>3 DEF Fetch, Existing, Join, Busy, Stages
  <2>2. \/ \E s \in {"join", "settle", "expire", "post", "existing"} : Goto(q, s)
        \/ \E a \in Answers : Answer(q, a)
    <3>1. CASE Fetch(q)
      <4>1. Found(q) \/ Answer(q, "refused")
        BY <3>1 DEF Fetch
      <4>. QED  BY <4>1 DEF Found, Answers
    <3>. QED  BY <1>3, <3>1 DEF Existing, Join, Answers
  <2>. QED  BY <2>1, <2>2, GotoOnto, AnswerOnto
<1>4. CASE Settle(q) \/ Expire(q) \/ Post(q) \/ Answered(q) \/ TimesOut(q)
  <2>1. Busy(q) /\ {"settle", "post", "waiting"} \subseteq Stages
    BY <1>4 DEF Settle, Expire, Post, Answered, TimesOut, Busy, Stages
  <2>2. \/ \E s \in {"settle", "post", "waiting"} : Goto(q, s)
        \/ \E a \in Answers : Answer(q, a)
    BY <1>4 DEF Committed, Settle, Expire, Post, Answered, TimesOut, Unanswered, Answers
  <2>. QED  BY <2>1, <2>2, GotoOnto, AnswerOnto
<1>5. CASE \/ Register(q) \/ Login(q) \/ ExchangeContext(q) \/ IssueToken(q)
           \/ CreateOrganization(q) \/ CreateOwner(q)
           \/ CreateDefaultWorkspace(q) \/ AssignRole(q) \/ CreateWorkspace(q)
  <2>1. Busy(q) /\ {"issuing", "owner", "default", "assign"} \subseteq Stages
    BY <1>5 DEF Register, Login, ExchangeContext, IssueToken, CreateOrganization,
         CreateOwner, CreateDefaultWorkspace, AssignRole, CreateWorkspace, Busy, Stages
  <2>2. \/ \E s \in {"issuing", "owner", "default", "assign"} : Goto(q, s)
        \/ \E a \in Answers : Answer(q, a)
    BY <1>5 DEF Committed, Register, Login, ExchangeContext, IssueToken, CreateOrganization,
         CreateOwner, CreateDefaultWorkspace, AssignRole, CreateWorkspace, Answers
  <2>. QED  BY <2>1, <2>2, GotoOnto, AnswerOnto
<1>. QED  BY <1>1, <1>2, <1>3, <1>4, <1>5 DEF Proceed

\* The steps that are no request's: the tenant service's on its POST, the
\* clock, a service's death, and none.
Background ==
  \/ \E q \in Requests : LookForMember(q) \/ AddMember(q) \/ PostFails(q) \/ Lapse(q)
  \/ \E tenant \in BOOLEAN : Crash(tenant)
  \/ UNCHANGED tvars

LEMMA StepCases ==
  ASSUME [TenancyNext]_tvars
  PROVE  \/ \E q \in Requests : Arrive(q) \/ Proceed(q) \/ CallFails(q)
         \/ Background
BY DEF TenancyNext, Background

\* One request, and every kind of step.
LEMMA Seen ==
  ASSUME TenancyInv, answer \in [Requests -> Answers \union {None}],
         [TenancyNext]_tvars, NEW p \in Requests
  PROVE  Still(p) \/ Arrive(p) \/ Proceed(p) \/ Broken(p)
<1>1. stage \in [Requests -> Stages]
  BY DEF TenancyInv
<1>2. ASSUME NEW q \in Requests, Arrive(q) \/ Proceed(q) \/ CallFails(q), p # q
      PROVE  Still(p)
  <2>1. CASE Arrive(q)
    BY <1>1, <1>2, <2>1 DEF Arrive, Goto, Still
  <2>2. CASE Proceed(q)
    <3>1. PICK s : Onto(q, s)
      BY <2>2, ProceedsOnto
    <3>. QED  BY <1>1, <1>2, <3>1 DEF Onto, Moves, Still
  <2>3. CASE CallFails(q)
    BY <1>1, <1>2, <2>3 DEF CallFails, Answer, Still
  <2>. QED  BY <1>2, <2>1, <2>2, <2>3
<1>3. ASSUME CallFails(p) PROVE Broken(p)
  BY <1>1, <1>3 DEF CallFails, Answer, Broken
<1>4. ASSUME Background PROVE Still(p) \/ Broken(p)
  <2>1. ASSUME NEW tenant \in BOOLEAN, Crash(tenant) PROVE Still(p) \/ Broken(p)
    BY <2>1 DEF Crash, Still, Broken
  <2>2. ASSUME NEW q \in Requests,
               LookForMember(q) \/ AddMember(q) \/ PostFails(q) \/ Lapse(q)
        PROVE  Still(p)
    BY <2>2 DEF LookForMember, AddMember, PostFails, Lapse, Still
  <2>. QED  BY <1>4, <2>1, <2>2 DEF Background, tvars, Still
<1>. QED  BY <1>2, <1>3, <1>4, StepCases

\* Who makes which row.
LEMMA Written ==
  ASSUME [TenancyNext]_tvars
  PROVE  /\ members' = members \/ \E q \in Requests : Bootstrap(q) \/ Join(q)
         /\ orgMembers' = orgMembers
              \/ \E q \in Requests : CreateOwner(q) \/ AddMember(q)
         /\ invites' = invites
              \/ \E q \in Requests : CreateInvitation(q) \/ Settle(q) \/ Expire(q)
         /\ orgs' = orgs \/ \E q \in Requests : CreateOrganization(q)
         /\ spaces' = spaces
              \/ \E q \in Requests : CreateDefaultWorkspace(q) \/ CreateWorkspace(q)
         /\ unsynced' = unsynced \/ \E q \in Requests : Answered(q) \/ TimesOut(q)
         /\ grants' = grants \/ \E q \in Requests : AssignRole(q)
         /\ before' = before \/ \E q \in Requests : Arrive(q)
<1> USE DEF other, invitations, tenants, ghosts
<1>1. ASSUME NEW q \in Requests, Arrive(q)
      PROVE  UNCHANGED <<members, orgMembers, invites, orgs, spaces, unsynced, grants>>
  BY <1>1 DEF Arrive
<1>2. ASSUME NEW q \in Requests, CallFails(q)
      PROVE  UNCHANGED <<members, orgMembers, invites, orgs, spaces, unsynced,
                         grants, before>>
  BY <1>2 DEF CallFails
<1>3. ASSUME Background
      PROVE  /\ UNCHANGED <<members, invites, orgs, spaces, unsynced, grants, before>>
             /\ orgMembers' = orgMembers \/ \E q \in Requests : AddMember(q)
  <2>1. ASSUME NEW q \in Requests, LookForMember(q) \/ PostFails(q) \/ Lapse(q)
        PROVE  UNCHANGED <<members, invites, orgs, spaces, unsynced, grants, before,
                           orgMembers>>
    BY <2>1 DEF LookForMember, PostFails, Lapse
  <2>2. ASSUME NEW q \in Requests, AddMember(q)
        PROVE  UNCHANGED <<members, invites, orgs, spaces, unsynced, grants, before>>
    BY <2>2 DEF AddMember
  <2>3. ASSUME NEW tenant \in BOOLEAN, Crash(tenant)
        PROVE  UNCHANGED <<members, invites, orgs, spaces, unsynced, grants, before,
                           orgMembers>>
    BY <2>3 DEF Crash
  <2>. QED  BY <1>3, <2>1, <2>2, <2>3 DEF Background, tvars
<1>4. ASSUME NEW q \in Requests, Proceed(q)
      PROVE  /\ before' = before
             /\ members' = members \/ Bootstrap(q) \/ Join(q)
             /\ orgMembers' = orgMembers \/ CreateOwner(q)
             /\ invites' = invites \/ CreateInvitation(q) \/ Settle(q) \/ Expire(q)
             /\ orgs' = orgs \/ CreateOrganization(q)
             /\ spaces' = spaces \/ CreateDefaultWorkspace(q) \/ CreateWorkspace(q)
             /\ unsynced' = unsynced \/ Answered(q) \/ TimesOut(q)
             /\ grants' = grants \/ AssignRole(q)
  <2>1. CASE \/ ResolveRole(q) \/ CountMembers(q) \/ List(q) \/ CheckInvitation(q)
             \/ Fetch(q) \/ Existing(q) \/ Post(q) \/ ExchangeContext(q)
             \/ IssueToken(q) \/ Login(q) \/ Register(q)
    BY <2>1 DEF ResolveRole, CountMembers, List, CheckInvitation, Fetch, Existing,
                Post, ExchangeContext, IssueToken, Login, Register
  <2>2. CASE \/ Bootstrap(q) \/ Join(q) \/ CreateInvitation(q) \/ Settle(q)
             \/ Expire(q)
    BY <2>2 DEF Bootstrap, Join, CreateInvitation, Settle, Expire
  <2>3. CASE Answered(q) \/ TimesOut(q)
    BY <2>3 DEF Answered, TimesOut
  <2>4. CASE \/ CreateOrganization(q) \/ CreateOwner(q) \/ CreateDefaultWorkspace(q)
             \/ AssignRole(q) \/ CreateWorkspace(q)
    BY <2>4 DEF CreateOrganization, CreateOwner, CreateDefaultWorkspace, AssignRole,
                CreateWorkspace
  <2>. QED  BY <1>4, <2>1, <2>2, <2>3, <2>4 DEF Proceed
<1>. QED  BY <1>1, <1>2, <1>3, <1>4, StepCases, Zenon

LEMMA Posted ==
  ASSUME TenancyInv, [TenancyNext]_tvars, NEW p \in Requests
  PROVE  \/ post'[p] = post[p]
         \/ Post(p) /\ post'[p] = "asked"
         \/ LookForMember(p) /\ post'[p] \in {"ok", "checked"}
         \/ AddMember(p) /\ post'[p] \in {"ok", "refused"}
         \/ Pending(p) /\ post'[p] = "refused"
<1>1. post \in [Requests -> Letters]
  BY DEF TenancyInv
<1>2. ASSUME NEW q \in Requests, Proceed(q)
      PROVE  post' = post \/ Post(q)
  <2>1. CASE \/ ResolveRole(q) \/ CountMembers(q) \/ Bootstrap(q) \/ List(q)
             \/ CheckInvitation(q) \/ CreateInvitation(q) \/ Fetch(q) \/ Existing(q)
             \/ Join(q) \/ Settle(q) \/ Expire(q) \/ Answered(q) \/ TimesOut(q)
    BY <2>1 DEF ResolveRole, CountMembers, Bootstrap, List, CheckInvitation,
         CreateInvitation, Fetch, Existing, Join, Settle, Expire, Answered, TimesOut,
         other
  <2>2. CASE \/ Register(q) \/ Login(q) \/ ExchangeContext(q) \/ IssueToken(q)
             \/ CreateOrganization(q) \/ CreateOwner(q) \/ CreateDefaultWorkspace(q)
             \/ AssignRole(q) \/ CreateWorkspace(q)
    BY <2>2 DEF Register, Login, ExchangeContext, IssueToken, CreateOrganization,
         CreateOwner, CreateDefaultWorkspace, AssignRole, CreateWorkspace, other
  <2>. QED  BY <1>2, <2>1, <2>2 DEF Proceed
<1>3. ASSUME NEW q \in Requests, Post(q)
      PROVE  post'[p] = post[p] \/ (p = q /\ post'[p] = "asked")
  BY <1>1, <1>3 DEF Post
<1>4. ASSUME NEW q \in Requests, Arrive(q) \/ CallFails(q) PROVE post' = post
  BY <1>4 DEF Arrive, CallFails
<1>5. ASSUME NEW q \in Requests, LookForMember(q)
      PROVE  post'[p] = post[p] \/ (p = q /\ post'[p] \in {"ok", "checked"})
  BY <1>1, <1>5 DEF LookForMember
<1>6. ASSUME NEW q \in Requests, AddMember(q)
      PROVE  post'[p] = post[p] \/ (p = q /\ post'[p] \in {"ok", "refused"})
  BY <1>1, <1>6 DEF AddMember
<1>7. ASSUME NEW q \in Requests, PostFails(q)
      PROVE  post'[p] = post[p] \/ (Pending(p) /\ post'[p] = "refused")
  BY <1>1, <1>7 DEF PostFails
<1>8. ASSUME NEW tenant \in BOOLEAN, Crash(tenant)
      PROVE  post'[p] = post[p] \/ (Pending(p) /\ post'[p] = "refused")
  BY <1>8 DEF Crash
<1>9. ASSUME (\E q \in Requests : Lapse(q)) \/ UNCHANGED tvars PROVE post' = post
  BY <1>9 DEF Lapse, tvars
<1>10. CASE \E q \in Requests : Arrive(q) \/ Proceed(q) \/ CallFails(q)
  BY <1>2, <1>3, <1>4, <1>10
<1>11. CASE Background
  BY <1>5, <1>6, <1>7, <1>8, <1>9, <1>11 DEF Background
<1>. QED  BY <1>10, <1>11, StepCases

\* What no step takes back.
Steady ==
  /\ \A p \in Requests : stage[p] = "done" =>
       stage'[p] = "done" /\ answer'[p] = answer[p]
  /\ \A p \in Requests : Over(p) => Over(p)'
  /\ members \subseteq members' /\ orgMembers \subseteq orgMembers'
  /\ orgs \subseteq orgs' /\ unsynced \subseteq unsynced' /\ grants \subseteq grants'
  /\ \A i \in Requests : Settled(i) => Settled(i)'
  /\ \A i \in Requests : invites[i] # None => invites'[i] # None

LEMMA StepsSteady ==
  ASSUME TenancyInv, answer \in [Requests -> Answers \union {None}],
         [TenancyNext]_tvars
  PROVE  Steady
<1>1. ASSUME NEW p \in Requests, stage[p] = "done"
      PROVE  stage'[p] = "done" /\ answer'[p] = answer[p]
  <2>1. ~Busy(p) /\ ~Arrive(p)
    BY <1>1 DEF Busy, Arrive
  <2>2. ~Proceed(p)
    BY <2>1, ProceedsOnto DEF Onto
  <2>3. Still(p)
    BY <2>1, <2>2, Seen DEF Broken
  <2>. QED  BY <1>1, <2>3 DEF Still
<1>2. ASSUME NEW p \in Requests, Over(p) PROVE Over(p)'
  <2>1. stage[p] = "done" /\ ~Pending(p)
    BY <1>2 DEF Over
  <2>2. ~Post(p) /\ ~LookForMember(p) /\ ~AddMember(p)
    BY <2>1 DEF Post, LookForMember, AddMember, Pending
  <2>3. post'[p] = post[p]
    BY <2>1, <2>2, Posted
  <2>. QED  BY <1>1, <2>1, <2>3 DEF Over, Pending
<1>3. members \subseteq members' /\ orgMembers \subseteq orgMembers'
  BY Written DEF Bootstrap, Join, CreateOwner, AddMember
<1>4. orgs \subseteq orgs' /\ unsynced \subseteq unsynced' /\ grants \subseteq grants'
  <2>1. \A q \in Requests : Answered(q) \/ TimesOut(q) => unsynced \subseteq unsynced'
    BY DEF Answered, TimesOut, Unanswered
  <2>2. \A q \in Requests : CreateOrganization(q) => orgs \subseteq orgs'
    BY DEF CreateOrganization
  <2>3. \A q \in Requests : AssignRole(q) => grants \subseteq grants'
    BY DEF AssignRole
  <2>. QED  BY <2>1, <2>2, <2>3, Written
<1>5. ASSUME NEW i \in Requests
      PROVE  (Settled(i) => Settled(i)') /\ (invites[i] # None => invites'[i] # None)
  <2>1. ASSUME NEW q \in Requests, CreateInvitation(q)
        PROVE  (Settled(i) => Settled(i)') /\ (invites[i] # None => invites'[i] # None)
    <3>1. stage[q] = "insert" /\ invites' = [invites EXCEPT ![q] = "PENDING"]
      BY <2>1 DEF CreateInvitation
    <3>2. invites[q] = None /\ invites \in [Requests -> Statuses \union {None}]
      BY <3>1 DEF TenancyInv, RowsInv
    <3>. QED  BY <3>1, <3>2 DEF Settled
  <2>2. ASSUME NEW q \in Requests, Settle(q) \/ Expire(q)
        PROVE  (Settled(i) => Settled(i)') /\ (invites[i] # None => invites'[i] # None)
    <3>1. \E st \in {"ACCEPTED", "EXPIRED", "REVOKED"} :
            invites' = [invites EXCEPT ![Target(q)] = st]
      BY <2>2 DEF Settle, Expire
    <3>2. /\ invites \in [Requests -> Statuses \union {None}]
          /\ None \notin {"ACCEPTED", "EXPIRED", "REVOKED"}
      BY ConstantsOK DEF TenancyInv, RowsInv, Statuses
    <3>. QED  BY <3>1, <3>2 DEF Settled
  <2>3. ASSUME invites' = invites
        PROVE  (Settled(i) => Settled(i)') /\ (invites[i] # None => invites'[i] # None)
    BY <2>3 DEF Settled
  <2>. QED  BY <2>1, <2>2, <2>3, Written
<1>. QED  BY <1>1, <1>2, <1>3, <1>4, <1>5 DEF Steady

------------------------------------------------------------------------------
(* How a request gets from one await to the next.                          *)

FirstStages ==
  {"role", "check", "listed", "fetch", "org", "workspace", "context", "register",
   "login"}

\* Who answers "ok".
Succeeds(q) ==
  \/ List(q) \/ CreateInvitation(q) \/ (Fetch(q) /\ Body[q].op = "look")
  \/ Settle(q) \/ Answered(q) \/ TimesOut(q) \/ Register(q) \/ Login(q)
  \/ IssueToken(q) \/ AssignRole(q) \/ CreateWorkspace(q)

\* The await q leaves, and the one it comes to.
Route(q) ==
  LET s == stage'[q]  a == answer'[q] IN
  /\ s \notin {"absent", "new"}
  /\ s = "bootstrap" => CountMembers(q)
  /\ s = "insert" => CheckInvitation(q)
  /\ s = "existing" => Fetch(q)
  /\ s = "join" => Existing(q)
  /\ s = "settle" => Fetch(q) \/ Join(q) \/ Answered(q)
  /\ s = "post" => Fetch(q) \/ Settle(q)
  /\ s = "waiting" => Post(q)
  /\ s = "org" => Arrive(q)
  /\ s = "owner" => CreateOrganization(q)
  /\ s = "default" => CreateOwner(q)
  /\ s = "assign" => CreateDefaultWorkspace(q)
  /\ s = "issuing" => ExchangeContext(q)
  /\ s = "done" =>
       \/ a = "error"
       \/ a = "refused" /\ stage[q] \notin {"settle", "post", "waiting", "default", "assign"}
       \/ a = "ORG_REQUIRED" /\ Login(q)
       \/ a = "ok" /\ Succeeds(q)
  /\ stage[q] = "settle" => Settle(q) \/ (s = "done" /\ a = "error")
  /\ stage[q] = "post" => s = "waiting" \/ (s = "done" /\ a = "error")
  /\ stage[q] = "waiting" =>
       Answered(q) \/ TimesOut(q) \/ (s = "done" /\ a = "error")
  /\ stage[q] = "default" => s = "assign" \/ (s = "done" /\ a = "error")
  /\ stage[q] = "assign" => s = "done" /\ a \in {"ok", "error"}

LEMMA FirstStageIs ==
  ASSUME NEW q \in Requests
  PROVE  /\ FirstStage(q) \in FirstStages
         /\ FirstStage(q) = "org" => Body[q].op = "org"
<1>1. Body[q].op \in Ops
  BY ConstantsOK DEF Bodies
<1>. QED  BY <1>1 DEF FirstStage, FirstStages, Authorized, Ops

LEMMA ProceedsRoute ==
  ASSUME TenancyInv, answer \in [Requests -> Answers \union {None}],
         NEW q \in Requests, Proceed(q)
  PROVE  Route(q)
<1>. DEFINE s == stage'[q]  a == answer'[q]
<1>0. stage \in [Requests -> Stages]
  BY DEF TenancyInv
<1>1. CASE ResolveRole(q) \/ CountMembers(q) \/ Bootstrap(q)
  <2>1. Authorized(q) \in {"check", "listed", "fetch"}
    BY DEF Authorized
  <2>2. /\ stage[q] \in {"role", "count", "bootstrap"}
        /\ s \in {"check", "listed", "fetch", "count"} \/ (s = "bootstrap" /\ CountMembers(q))
    BY <1>0, <1>1, <2>1 DEF ResolveRole, CountMembers, Bootstrap, Goto
  <2>. QED  BY <2>2 DEF Route
<1>2. CASE List(q) \/ CheckInvitation(q) \/ CreateInvitation(q)
  <2>1. CASE List(q)
    <3>1. stage[q] = "listed" /\ s = "done" /\ a \in {"ok", "refused"}
      BY <1>0, <2>1 DEF List, Answer
    <3>. QED  BY <2>1, <3>1 DEF Route, Succeeds
  <2>2. CASE CheckInvitation(q)
    <3>1. stage[q] = "check" /\ (s = "insert" \/ (s = "done" /\ a = "refused"))
      BY <1>0, <2>2 DEF CheckInvitation, Answer, Goto
    <3>. QED  BY <2>2, <3>1 DEF Route
  <2>3. CASE CreateInvitation(q)
    <3>1. stage[q] = "insert" /\ s = "done" /\ a \in {"ok", "error"}
      BY <1>0, <2>3 DEF CreateInvitation, Committed, Answer
    <3>. QED  BY <2>3, <3>1 DEF Route, Succeeds
  <2>. QED  BY <1>2, <2>1, <2>2, <2>3
<1>3. CASE Fetch(q) \/ Existing(q) \/ Join(q)
  <2>1. CASE Fetch(q)
    <3>1. /\ stage[q] = "fetch"
          /\ \/ s \in {"settle", "expire", "existing", "post"}
             \/ s = "done" /\ a = "refused"
             \/ s = "done" /\ a = "ok" /\ Body[q].op = "look"
      BY <1>0, <2>1 DEF Fetch, Found, Answer, Goto
    <3>. QED  BY <2>1, <3>1 DEF Route, Succeeds
  <2>2. CASE Existing(q)
    <3>1. stage[q] = "existing" /\ (s = "join" \/ (s = "done" /\ a = "refused"))
      BY <1>0, <2>2 DEF Existing, Answer, Goto
    <3>. QED  BY <2>2, <3>1 DEF Route
  <2>3. CASE Join(q)
    <3>1. stage[q] = "join" /\ s = "settle"
      BY <1>0, <2>3 DEF Join, Goto
    <3>. QED  BY <2>3, <3>1 DEF Route
  <2>. QED  BY <1>3, <2>1, <2>2, <2>3
<1>4. CASE Settle(q) \/ Expire(q) \/ Post(q)
  <2>1. CASE Settle(q)
    <3>1. stage[q] = "settle" /\ (s = "post" \/ (s = "done" /\ a \in {"ok", "error"}))
      BY <1>0, <2>1 DEF Settle, Committed, Answer, Goto
    <3>. QED  BY <2>1, <3>1 DEF Route, Succeeds
  <2>2. CASE Expire(q)
    <3>1. stage[q] = "expire" /\ s = "done" /\ a \in {"refused", "error"}
      BY <1>0, <2>2 DEF Expire, Committed, Answer
    <3>. QED  BY <2>2, <3>1 DEF Route
  <2>3. CASE Post(q)
    <3>1. stage[q] = "post" /\ s = "waiting"
      BY <1>0, <2>3 DEF Post, Goto
    <3>. QED  BY <2>3, <3>1 DEF Route
  <2>. QED  BY <1>4, <2>1, <2>2, <2>3
<1>5. CASE Answered(q) \/ TimesOut(q)
  <2>1. /\ stage[q] = "waiting"
        /\ \/ s = "settle" /\ Answered(q)
           \/ s = "done" /\ a \in {"ok", "error"}
    BY <1>0, <1>5 DEF Answered, TimesOut, Unanswered, Answer, Goto
  <2>. QED  BY <1>5, <2>1 DEF Route, Succeeds
<1>6. CASE Register(q) \/ Login(q) \/ ExchangeContext(q) \/ IssueToken(q)
  <2>1. CASE Register(q)
    <3>1. stage[q] = "register" /\ s = "done" /\ a \in {"ok", "refused", "error"}
      BY <1>0, <2>1 DEF Register, Committed, Answer
    <3>. QED  BY <2>1, <3>1 DEF Route, Succeeds
  <2>2. CASE Login(q)
    <3>1. stage[q] = "login" /\ s = "done" /\ a \in {"ok", "refused", "ORG_REQUIRED"}
      BY <1>0, <2>2 DEF Login, Answer
    <3>. QED  BY <2>2, <3>1 DEF Route, Succeeds
  <2>3. CASE ExchangeContext(q)
    <3>1. stage[q] = "context" /\ (s = "issuing" \/ (s = "done" /\ a = "refused"))
      BY <1>0, <2>3 DEF ExchangeContext, Answer, Goto
    <3>. QED  BY <2>3, <3>1 DEF Route
  <2>4. CASE IssueToken(q)
    <3>1. stage[q] = "issuing" /\ s = "done" /\ a \in {"ok", "refused"}
      BY <1>0, <2>4 DEF IssueToken, Answer
    <3>. QED  BY <2>4, <3>1 DEF Route, Succeeds
  <2>. QED  BY <1>6, <2>1, <2>2, <2>3, <2>4
<1>7. CASE CreateOrganization(q) \/ CreateOwner(q) \/ CreateDefaultWorkspace(q)
  <2>1. \/ CreateOrganization(q) /\ stage[q] = "org" /\ s = "owner"
        \/ CreateOwner(q) /\ stage[q] = "owner" /\ s = "default"
        \/ CreateDefaultWorkspace(q) /\ stage[q] = "default" /\ s = "assign"
    BY <1>0, <1>7 DEF CreateOrganization, CreateOwner, CreateDefaultWorkspace, Goto
  <2>. QED  BY <2>1 DEF Route
<1>8. CASE AssignRole(q) \/ CreateWorkspace(q)
  <2>1. \/ stage[q] = "assign" /\ s = "done" /\ a \in {"ok", "error"}
        \/ stage[q] = "workspace" /\ s = "done" /\ a \in {"ok", "error"}
    BY <1>0, <1>8 DEF AssignRole, Committed, CreateWorkspace, Answer
  <2>. QED  BY <1>8, <2>1 DEF Route, Succeeds
<1>. QED  BY <1>1, <1>2, <1>3, <1>4, <1>5, <1>6, <1>7, <1>8 DEF Proceed

\* Every request that is not where it was has taken its route.
LEMMA Routed ==
  ASSUME TenancyInv, answer \in [Requests -> Answers \union {None}],
         [TenancyNext]_tvars, NEW q \in Requests
  PROVE  Still(q) \/ Route(q)
<1>0. stage \in [Requests -> Stages]
  BY DEF TenancyInv
<1>1. ASSUME Arrive(q) PROVE Route(q)
  <2>1. stage[q] = "new" /\ stage'[q] \in FirstStages
    BY <1>0, <1>1, FirstStageIs DEF Arrive, Goto
  <2>. QED  BY <1>1, <2>1 DEF Route, FirstStages
<1>2. ASSUME Broken(q) PROVE Route(q)
  BY <1>2 DEF Broken, Route
<1>. QED  BY <1>1, <1>2, Seen, ProceedsRoute

\* The rows a step adds, and that whoever adds one is at work.
LEMMA NewMembers ==
  ASSUME TenancyInv, [TenancyNext]_tvars, NEW m \in members', m \notin members
  PROVE  /\ \E q \in Requests :
              /\ Busy(q)
              /\ \/ Bootstrap(q) /\ m = Row(q, "workspace_owner", None)
                 \/ Join(q) /\ m = Row(q, Body[Target(q)].grant, Target(q))
         /\ members' = members \union {m}
<1>1. PICK q \in Requests : Bootstrap(q) \/ Join(q)
  BY Written
<1>2. Busy(q)
  BY <1>1 DEF Bootstrap, Join, Busy
<1>3. CASE Bootstrap(q)
  BY <1>2, <1>3 DEF Bootstrap
<1>4. CASE Join(q)
  BY <1>2, <1>4 DEF Join
<1>. QED  BY <1>1, <1>3, <1>4

LEMMA NewOrgMembers ==
  ASSUME TenancyInv, [TenancyNext]_tvars, NEW m \in orgMembers', m \notin orgMembers
  PROVE  /\ \E q \in Requests :
              /\ m = Membership(q) /\ ~Over(q)
              /\ \/ CreateOwner(q) /\ stage[q] = "owner"
                 \/ AddMember(q) /\ post[q] = "checked" /\ Body[q].scope \in orgs
         /\ orgMembers' = orgMembers \union {m}
<1>1. PICK q \in Requests : CreateOwner(q) \/ AddMember(q)
  BY Written
<1>2. CASE CreateOwner(q)
  BY <1>2 DEF CreateOwner, Over
<1>3. CASE AddMember(q)
  BY <1>3 DEF AddMember, Over, Pending
<1>. QED  BY <1>1, <1>2, <1>3

LEMMA NewStatus ==
  ASSUME TenancyInv, [TenancyNext]_tvars, NEW i \in Requests, invites'[i] # invites[i]
  PROVE  \/ CreateInvitation(i) /\ invites'[i] = "PENDING"
         \/ \E q \in Requests :
              /\ Target(q) = i /\ Body[q].op \in About /\ invites[i] # None
              /\ \/ Settle(q) /\ invites'[i] \in {"REVOKED", "ACCEPTED"}
                    /\ (invites'[i] = "ACCEPTED" => Body[q].op = "accept")
                 \/ Expire(q) /\ invites'[i] = "EXPIRED"
<1>0. invites \in [Requests -> Statuses \union {None}]
  BY DEF TenancyInv, RowsInv
<1>1. PICK q \in Requests : CreateInvitation(q) \/ Settle(q) \/ Expire(q)
  BY Written
<1>2. CASE CreateInvitation(q)
  BY <1>0, <1>2 DEF CreateInvitation
<1>3. ASSUME Settle(q) \/ Expire(q)
      PROVE  Target(q) = i /\ Body[q].op \in About /\ invites[i] # None
  <2>1. stage[q] \in {"settle", "expire"}
    BY <1>3 DEF Settle, Expire
  <2>2. Body[q].op \in About
    BY <2>1 DEF TenancyInv, Fits, About
  <2>3. Target(q) = i
    BY <1>0, <1>3 DEF Settle, Expire
  <2>4. Knows(q, stage[q])
    BY <2>1, <2>2 DEF TenancyInv, MetInv, Here
  <2>. QED  BY <2>1, <2>2, <2>3, <2>4 DEF Knows
<1>4. CASE Settle(q)
  <2>1. Body[q].op \in {"accept", "revoke"}
    BY <1>4 DEF Settle, TenancyInv, Fits
  <2>2. /\ invites'[i] \in {"REVOKED", "ACCEPTED"}
        /\ invites'[i] = "ACCEPTED" => Body[q].op = "accept"
    BY <1>0, <1>3, <1>4, <2>1 DEF Settle
  <2>. QED  BY <1>3, <1>4, <2>2
<1>5. CASE Expire(q)
  <2>1. invites'[i] = "EXPIRED"
    BY <1>0, <1>3, <1>5 DEF Expire
  <2>. QED  BY <1>3, <1>5, <2>1
<1>. QED  BY <1>1, <1>2, <1>4, <1>5

------------------------------------------------------------------------------
(* Types.                                                                  *)

Owning == {"owner", "default", "assign"}

TypesInv ==
  /\ answer \in [Requests -> Answers \union {None}]
  /\ \A q \in Requests : answer[q] # None <=> stage[q] = "done"
  /\ \A m \in members :
       /\ m.by \in Requests /\ m.user \in Users /\ m.scope \in Scopes
       /\ m.role \in Roles /\ m.invite \in Requests \union {None}
  /\ \A m \in orgMembers : m.user \in Users /\ m.org \in orgs
  /\ \A m \in orgMembers : m.by \in Requests \union {None}
  /\ spaces \in [Workspaces -> orgs \union {None}]
  /\ \A q \in Requests : stage[q] = "waiting" => post[q] # "none"
  /\ \A q \in Requests : stage[q] \in Owning => Body[q].scope \in orgs

LEMMA BodyTypes ==
  ASSUME NEW q \in Requests
  PROVE  /\ Body[q].who \in Users /\ Body[q].email \in Emails /\ Body[q].scope \in Scopes
         /\ Body[q].by \in {"code", "token"} /\ Body[q].grant \in Roles
         /\ Body[q].invite \in Requests \union {None}
         /\ q # None /\ None \notin Answers
BY ConstantsOK DEF Bodies

LEMMA TypesInit ==
  ASSUME Init
  PROVE  TypesInv
<1>1. answer \in [Requests -> Answers \union {None}]
  BY DEF Init, Answers
<1>2. ASSUME NEW q \in Requests PROVE answer[q] # None <=> stage[q] = "done"
  <2>1. PICK B \in Batches :
          stage = [p \in Requests |-> IF p \in Standing THEN "done"
                                      ELSE IF p \in B THEN "new" ELSE "absent"]
    BY DEF Init
  <2>2. None \notin Answers
    BY <1>2, BodyTypes
  <2>. QED  BY <2>1, <2>2 DEF Init, Answers
<1>3. \A m \in orgMembers : m.user \in Users /\ m.org \in orgs /\ m.by = None
  BY ConstantsOK DEF Init
<1>4. spaces \in [Workspaces -> orgs \union {None}]
  <2>1. ASSUME NEW w \in Workspaces PROVE spaces[w] \in orgs \union {None}
    <3>1. CASE \E o \in orgs : Default[o] = w
      <4>1. spaces[w] = CHOOSE o \in orgs : Default[o] = w
        BY <3>1 DEF Init
      <4>. QED  BY <3>1, <4>1
    <3>2. CASE ~\E o \in orgs : Default[o] = w
      BY <3>2 DEF Init
    <3>. QED  BY <3>1, <3>2
  <2>2. spaces = [w \in Workspaces |-> spaces[w]]
    BY DEF Init
  <2>. QED  BY <2>1, <2>2
<1>5. \A q \in Requests : stage[q] \in {"absent", "new", "done"}
  BY DEF Init
<1>6. members = {}
  BY DEF Init
<1>. QED  BY <1>1, <1>2, <1>3, <1>4, <1>5, <1>6 DEF TypesInv, Owning

LEMMA TypesStep ==
  ASSUME TenancyInv, TypesInv, [TenancyNext]_tvars
  PROVE  TypesInv'
<1>0. answer \in [Requests -> Answers \union {None}] /\ stage \in [Requests -> Stages]
  BY DEF TypesInv, TenancyInv
<1>s. Steady
  BY <1>0, StepsSteady
<1>1. answer' \in [Requests -> Answers \union {None}]
  <2>1. ASSUME NEW q \in Requests, Arrive(q) \/ Proceed(q) \/ CallFails(q)
        PROVE  answer' \in [Requests -> Answers \union {None}]
    <3>1. CASE Proceed(q)
      BY <1>0, <3>1, ProceedsOnto DEF Onto
    <3>2. CASE Arrive(q) \/ CallFails(q)
      BY <1>0, <3>2 DEF Arrive, CallFails, Goto, Answer, Answers
    <3>. QED  BY <2>1, <3>1, <3>2
  <2>2. ASSUME Background PROVE answer' \in [Requests -> Answers \union {None}]
    <3>1. ASSUME NEW t \in BOOLEAN, Crash(t)
          PROVE  answer' \in [Requests -> Answers \union {None}]
      BY <1>0, <3>1 DEF Crash, Answers
    <3>2. (\E t \in BOOLEAN : Crash(t)) \/ answer' = answer
      BY <2>2 DEF Background, LookForMember, AddMember, PostFails, Lapse, tvars
    <3>. QED  BY <1>0, <3>1, <3>2
  <2>. QED  BY <2>1, <2>2, StepCases
<1>2. ASSUME NEW q \in Requests
      PROVE  answer'[q] # None <=> stage'[q] = "done"
  <2>1. CASE Still(q)
    BY <2>1 DEF Still, TypesInv
  <2>2. CASE Proceed(q)
    <3>1. PICK s : Onto(q, s)
      BY <2>2, ProceedsOnto
    <3>2. stage'[q] = s /\ stage[q] # "done"
      BY <1>0, <3>1 DEF Onto, Moves, Busy
    <3>3. answer[q] = None
      BY <3>2 DEF TypesInv
    <3>4. CASE s = "done"
      BY <1>0, <3>1, <3>2, <3>4, BodyTypes DEF Onto
    <3>5. CASE s # "done"
      BY <3>1, <3>2, <3>3, <3>5 DEF Onto
    <3>. QED  BY <3>4, <3>5
  <2>3. CASE Arrive(q)
    <3>1. stage[q] = "new" /\ stage'[q] \in FirstStages /\ answer' = answer
      BY <1>0, <2>3, FirstStageIs DEF Arrive, Goto
    <3>. QED  BY <3>1 DEF FirstStages, TypesInv
  <2>4. CASE Broken(q)
    BY <2>4, BodyTypes DEF Broken, Answers
  <2>. QED  BY <1>0, <2>1, <2>2, <2>3, <2>4, Seen
<1>3. ASSUME NEW m \in members'
      PROVE  /\ m.by \in Requests /\ m.user \in Users /\ m.scope \in Scopes
             /\ m.role \in Roles /\ m.invite \in Requests \union {None}
  <2>1. CASE m \in members
    BY <2>1 DEF TypesInv
  <2>2. CASE m \notin members
    <3>1. PICK q \in Requests :
            \/ m = Row(q, "workspace_owner", None)
            \/ Join(q) /\ m = Row(q, Body[Target(q)].grant, Target(q))
      BY <2>2, NewMembers
    <3>2. CASE m = Row(q, "workspace_owner", None)
      BY <3>2, BodyTypes DEF Row, Roles, MANAGEMENT_ROLES, OWNER_ROLES
    <3>3. CASE Join(q) /\ m = Row(q, Body[Target(q)].grant, Target(q))
      <4>1. Body[q].op \in About
        BY <3>3 DEF Join, TenancyInv, Fits, About
      <4>2. Target(q) \in Requests
        BY <4>1, Targets
      <4>. QED  BY <3>3, <4>2, BodyTypes DEF Row
    <3>. QED  BY <3>1, <3>2, <3>3
  <2>. QED  BY <2>1, <2>2
<1>4. ASSUME NEW m \in orgMembers'
      PROVE  m.user \in Users /\ m.org \in orgs' /\ m.by \in Requests \union {None}
  <2>1. CASE m \in orgMembers
    BY <1>s, <2>1 DEF TypesInv, Steady
  <2>2. CASE m \notin orgMembers
    <3>1. PICK q \in Requests :
            m = Membership(q) /\ (stage[q] = "owner" \/ Body[q].scope \in orgs)
      BY <2>2, NewOrgMembers
    <3>2. Body[q].scope \in orgs
      BY <3>1 DEF TypesInv, Owning
    <3>. QED  BY <1>s, <3>1, <3>2, BodyTypes DEF Membership, Steady
  <2>. QED  BY <2>1, <2>2
<1>5. spaces' \in [Workspaces -> orgs' \union {None}]
  <2>1. spaces \in [Workspaces -> orgs' \union {None}]
    BY <1>s DEF TypesInv, Steady
  <2>2. ASSUME NEW q \in Requests, CreateDefaultWorkspace(q) \/ CreateWorkspace(q)
        PROVE  \/ spaces' = spaces
               \/ \E w, o : o \in orgs /\ spaces' = [spaces EXCEPT ![w] = o]
    <3>1. CASE CreateDefaultWorkspace(q)
      BY <3>1 DEF CreateDefaultWorkspace, TypesInv, Owning
    <3>2. CASE CreateWorkspace(q)
      BY <3>2 DEF CreateWorkspace
    <3>. QED  BY <2>2, <3>1, <3>2
  <2>3. \/ spaces' = spaces
        \/ \E w, o : o \in orgs /\ spaces' = [spaces EXCEPT ![w] = o]
    BY <2>2, Written
  <2>. QED  BY <1>s, <2>1, <2>3 DEF Steady
<1>6. ASSUME NEW q \in Requests, stage'[q] = "waiting" PROVE post'[q] # "none"
  <2>1. CASE Still(q)
    <3>1. post[q] # "none"
      BY <1>6, <2>1 DEF Still, TypesInv
    <3>. QED  BY <3>1, Posted
  <2>2. CASE Post(q)
    BY <2>2 DEF Post, TenancyInv
  <2>. QED  BY <1>0, <1>6, <2>1, <2>2, Routed DEF Route
<1>7. ASSUME NEW q \in Requests, stage'[q] \in Owning PROVE Body[q].scope \in orgs'
  <2>1. CASE Still(q)
    BY <1>7, <1>s, <2>1 DEF Still, TypesInv, Steady
  <2>2. CASE CreateOrganization(q)
    BY <2>2 DEF CreateOrganization
  <2>3. CASE CreateOwner(q) \/ CreateDefaultWorkspace(q)
    BY <1>s, <2>3 DEF CreateOwner, CreateDefaultWorkspace, TypesInv, Steady, Owning
  <2>. QED  BY <1>0, <1>7, <2>1, <2>2, <2>3, Routed DEF Route, Owning
<1>. QED  BY <1>1, <1>2, <1>3, <1>4, <1>5, <1>6, <1>7 DEF TypesInv

------------------------------------------------------------------------------
(* What requests that are at work have done, and those that are done.      *)

\* What a request that accepts has seen to, by its await.
Joined(q) ==
  IF Body[q].by = "code" /\ Body[q].scope \in Orgs
  THEN IsMember(Body[q].who, Body[q].scope)
  ELSE \E m \in RowsOf(Body[q].who, Body[q].scope) :
         m.by = q /\ m.invite = Target(q)

Accepts(q) ==
  /\ stage[q] \in {"existing", "join", "settle", "post", "waiting"} =>
       Lower[Body[q].email] = Invitee(Target(q))
  /\ stage[q] \in {"existing", "join"} =>
       ~(Body[q].by = "code" /\ Body[q].scope \in Orgs)
  /\ stage[q] = "settle" => Joined(q)
  /\ stage[q] \in {"post", "waiting"} =>
       Body[q].scope \in Orgs /\ (Body[q].by = "token" => Settled(Target(q)))

\* What a request that creates an organization, or asks for a token, has.
Owns(q) ==
  /\ stage[q] \in {"default", "assign"} => IsMember(Body[q].who, Body[q].scope)
  /\ stage[q] = "assign" => spaces[Default[Body[q].scope]] = Body[q].scope
  /\ stage[q] = "issuing" => IsMember(Body[q].who, Body[q].org)

\* By token the POST comes last, and by code it comes first.
Posts(q) ==
  /\ post[q] # "none" =>
       \/ stage[q] = "waiting" \/ answer[q] \in {"ok", "error"}
       \/ stage[q] = "settle" /\ Body[q].by = "code"
  /\ post[q] = "ok" => IsMember(Body[q].who, Body[q].scope)

WorkInv ==
  \A q \in Requests : /\ Body[q].op = "accept" => Accepts(q)
                      /\ Owns(q) /\ Posts(q)

\* Who made a row has not been refused, and has settled if he is done.
AuthorInv ==
  /\ \A m \in members : Here(m.by)
  /\ \A m \in members : m.invite # None =>
       /\ Body[m.by].op = "accept" /\ m.invite = Target(m.by)
       /\ \/ stage[m.by] \in {"settle", "post", "waiting"}
          \/ answer[m.by] \in {"ok", "error"}
       /\ stage[m.by] = "settle" \/ answer[m.by] = "error" \/ Settled(m.invite)
  /\ \A m \in orgMembers : m.by # None =>
       \/ stage[m.by] \in {"default", "assign"} \/ post[m.by] # "none"
       \/ answer[m.by] \in {"ok", "error"}
  /\ \A q \in Requests : invites[q] # None => answer[q] \in {"ok", "error"}

\* The workspace an organization came with stays its own.
LEMMA SpaceStays ==
  ASSUME TenancyInv, TypesInv, [TenancyNext]_tvars, NEW o \in Orgs,
         spaces[Default[o]] = o
  PROVE  spaces'[Default[o]] = o
<1>1. spaces \in [Workspaces -> orgs \union {None}] /\ Default[o] \in Workspaces
  BY ConstantsOK DEF TypesInv
<1>2. ASSUME NEW q \in Requests, CreateDefaultWorkspace(q) PROVE spaces'[Default[o]] = o
  <2>1. Body[q].op = "org"
    BY <1>2 DEF CreateDefaultWorkspace, TenancyInv, Fits
  <2>2. Body[q].scope \in Orgs /\ (Default[o] = Default[Body[q].scope] => o = Body[q].scope)
    BY <2>1, IdsAreFresh
  <2>. QED  BY <1>1, <1>2, <2>2 DEF CreateDefaultWorkspace
<1>3. ASSUME NEW q \in Requests, CreateWorkspace(q) PROVE spaces'[Default[o]] = o
  <2>1. Body[q].op = "workspace"
    BY <1>3 DEF CreateWorkspace, TenancyInv, Fits
  <2>2. Body[q].scope = Default[o] => Body[q].org = o
    BY <2>1, IdsAreFresh
  <2>. QED  BY <1>1, <1>3, <2>2 DEF CreateWorkspace
<1>. QED  BY <1>2, <1>3, Written

\* Members stay members.
LEMMA MembersStay ==
  ASSUME Steady, NEW u, NEW o
  PROVE  /\ IsMember(u, o) => IsMember(u, o)'
         /\ RowsOf(u, o) # {} => (RowsOf(u, o))' # {}
BY DEF Steady, IsMember, RowsOf

LEMMA WorkInit ==
  ASSUME Init
  PROVE  WorkInv /\ AuthorInv
<1>1. \A q \in Requests : stage[q] \in {"absent", "new", "done"} /\ post[q] = "none"
  BY DEF Init
<1>2. WorkInv
  BY <1>1 DEF WorkInv, Accepts, Owns, Posts
<1>3. members = {} /\ \A m \in orgMembers : m.by = None
  BY DEF Init
<1>4. \A q \in Requests : invites[q] # None => answer[q] = "ok"
  BY DEF Init
<1>. QED  BY <1>2, <1>3, <1>4 DEF AuthorInv

\* A route that keeps to what an accepted invitation is owed.
LEMMA AcceptsStep ==
  ASSUME TenancyInv, TypesInv, WorkInv, [TenancyNext]_tvars, Steady,
         NEW q \in Requests, Body[q].op = "accept"
  PROVE  Accepts(q)'
<1>0. /\ answer \in [Requests -> Answers \union {None}] /\ stage \in [Requests -> Stages]
      /\ Target(q) \in Requests /\ Accepts(q)
      /\ Body[q].by \in {"code", "token"} /\ Body[q].scope \in Scopes
  BY Targets, BodyTypes DEF TypesInv, TenancyInv, About, WorkInv
<1>1. /\ Joined(q) => Joined(q)'
      /\ Settled(Target(q)) => Settled(Target(q))'
      /\ Target(q)' = Target(q) /\ (Invitee(Target(q)))' = Invitee(Target(q))
  BY <1>0, MembersStay DEF Joined, RowsOf, Steady, Target, Invitee
<1>2. CASE Still(q)
  BY <1>0, <1>1, <1>2 DEF Still, Accepts
<1>3. CASE Fetch(q)
  <2>1. \/ stage'[q] \in {"expire", "done"}
        \/ /\ Lower[Body[q].email] = Invitee(Target(q))
           /\ \/ stage'[q] = "post" /\ Body[q].by = "code" /\ Body[q].scope \in Orgs
              \/ /\ stage'[q] = "existing"
                 /\ ~(Body[q].by = "code" /\ Body[q].scope \in Orgs)
    BY <1>0, <1>3 DEF Fetch, Found, Goto, Answer
  <2>. QED  BY <1>1, <2>1 DEF Accepts
<1>4. CASE Existing(q)
  <2>1. stage[q] = "existing" /\ stage'[q] \in {"join", "done"}
    BY <1>0, <1>4 DEF Existing, Goto, Answer
  <2>. QED  BY <1>0, <1>1, <2>1 DEF Accepts
<1>5. CASE Join(q)
  <2>1. stage[q] = "join" /\ stage'[q] = "settle"
    BY <1>0, <1>5 DEF Join, Goto
  <2>2. Row(q, Body[Target(q)].grant, Target(q)) \in (RowsOf(Body[q].who, Body[q].scope))'
    BY <1>5 DEF Join, RowsOf, Row
  <2>3. \E m \in (RowsOf(Body[q].who, Body[q].scope))' : m.by = q /\ m.invite = Target(q)
    BY <2>2 DEF Row
  <2>4. Joined(q)'
    BY <1>0, <2>1, <2>3 DEF Accepts, Joined, RowsOf, Target
  <2>. QED  BY <1>0, <1>1, <2>1, <2>4 DEF Accepts
<1>6. CASE Settle(q)
  <2>1. /\ stage[q] = "settle"
        /\ \/ stage'[q] = "done"
           \/ stage'[q] = "post" /\ Body[q].by = "token" /\ Body[q].scope \in Orgs
        /\ invites'[Target(q)] = "ACCEPTED"
    BY <1>0, <1>6 DEF Settle, Committed, Goto, Answer, TenancyInv, RowsInv
  <2>2. Settled(Target(q))'
    BY <1>1, <2>1, ConstantsOK DEF Settled, Statuses
  <2>. QED  BY <1>0, <1>1, <2>1, <2>2 DEF Accepts
<1>7. CASE Post(q)
  <2>1. stage[q] = "post" /\ stage'[q] = "waiting"
    BY <1>0, <1>7 DEF Post, Goto
  <2>. QED  BY <1>0, <1>1, <2>1 DEF Accepts
<1>8. CASE Answered(q)
  <2>1. /\ stage[q] = "waiting" /\ Body[q].scope \in Orgs
        /\ \/ stage'[q] = "done"
           \/ stage'[q] = "settle" /\ Body[q].by = "code" /\ post[q] = "ok"
    BY <1>0, <1>8 DEF Answered, Unanswered, Goto, Answer, Accepts
  <2>2. post[q] = "ok" => IsMember(Body[q].who, Body[q].scope)
    BY DEF WorkInv, Posts
  <2>3. stage'[q] = "settle" => Joined(q)
    BY <2>1, <2>2 DEF Joined
  <2>. QED  BY <1>0, <1>1, <2>1, <2>3 DEF Accepts
<1>9. CASE Route(q)
  <2>1. \/ stage'[q] \notin {"existing", "join", "settle", "post", "waiting"}
        \/ Fetch(q) \/ Existing(q) \/ Join(q) \/ Settle(q) \/ Post(q) \/ Answered(q)
    BY <1>9 DEF Route
  <2>. QED  BY <1>3, <1>4, <1>5, <1>6, <1>7, <1>8, <2>1 DEF Accepts
<1>. QED  BY <1>0, <1>2, <1>9, Routed

LEMMA OwnsStep ==
  ASSUME TenancyInv, TypesInv, WorkInv, [TenancyNext]_tvars, Steady,
         NEW q \in Requests
  PROVE  Owns(q)'
<1>0. /\ answer \in [Requests -> Answers \union {None}] /\ stage \in [Requests -> Stages]
      /\ Owns(q)
  BY DEF TypesInv, TenancyInv, WorkInv
<1>1. ASSUME stage'[q] \in {"default", "assign"}
      PROVE  IsMember(Body[q].who, Body[q].scope)'
  <2>1. CASE Still(q)
    BY <1>0, <1>1, <2>1, MembersStay DEF Still, Owns
  <2>2. CASE CreateOwner(q)
    <3>1. Membership(q) \in orgMembers'
      BY <2>2 DEF CreateOwner
    <3>. QED  BY <3>1 DEF Membership, IsMember
  <2>3. CASE CreateDefaultWorkspace(q)
    <3>1. stage[q] = "default"
      BY <2>3 DEF CreateDefaultWorkspace
    <3>. QED  BY <1>0, <3>1, MembersStay DEF Owns
  <2>. QED  BY <1>0, <1>1, <2>1, <2>2, <2>3, Routed DEF Route
<1>2. ASSUME stage'[q] = "assign"
      PROVE  spaces'[Default[Body[q].scope]] = Body[q].scope
  <2>1. Body[q].op = "org" => Body[q].scope \in Orgs
    BY IdsAreFresh
  <2>2. CASE Still(q)
    <3>1. stage[q] = "assign" /\ Body[q].op = "org"
      BY <1>2, <2>2 DEF Still, TenancyInv, Fits
    <3>. QED  BY <1>0, <2>1, <3>1, SpaceStays DEF Owns
  <2>3. CASE CreateDefaultWorkspace(q)
    <3>1. Body[q].op = "org"
      BY <2>3 DEF CreateDefaultWorkspace, TenancyInv, Fits
    <3>2. Default[Body[q].scope] \in Workspaces
      BY <2>1, <3>1, ConstantsOK
    <3>. QED  BY <2>3, <3>2 DEF CreateDefaultWorkspace, TypesInv
  <2>. QED  BY <1>0, <1>2, <2>2, <2>3, Routed DEF Route
<1>3. ASSUME stage'[q] = "issuing" PROVE IsMember(Body[q].who, Body[q].org)'
  <2>1. CASE Still(q)
    BY <1>0, <1>3, <2>1, MembersStay DEF Still, Owns
  <2>2. CASE ExchangeContext(q)
    <3>1. IsMember(Body[q].who, Body[q].org)
      BY <1>0, <1>3, <2>2 DEF ExchangeContext, Answer
    <3>. QED  BY <3>1, MembersStay
  <2>. QED  BY <1>0, <1>3, <2>1, <2>2, Routed DEF Route
<1>. QED  BY <1>1, <1>2, <1>3 DEF Owns

LEMMA PostsStep ==
  ASSUME TenancyInv, TypesInv, WorkInv, [TenancyNext]_tvars, Steady,
         NEW q \in Requests
  PROVE  Posts(q)'
<1>0. /\ answer \in [Requests -> Answers \union {None}] /\ stage \in [Requests -> Stages]
      /\ Posts(q) /\ post \in [Requests -> Letters]
  BY DEF TypesInv, TenancyInv, WorkInv
<1>1. ASSUME post'[q] # "none"
      PROVE  \/ stage'[q] = "waiting" \/ answer'[q] \in {"ok", "error"}
             \/ stage'[q] = "settle" /\ Body[q].by = "code"
  <2>1. CASE Post(q)
    BY <1>0, <2>1 DEF Post, Goto
  <2>2. CASE ~Post(q)
    <3>1. post[q] # "none"
      BY <1>1, <2>2, Posted DEF LookForMember, AddMember, Pending
    <3>2. CASE Still(q)
      BY <1>0, <3>1, <3>2 DEF Posts, Still
    <3>3. CASE answer[q] \in {"ok", "error"}
      <4>1. stage[q] = "done"
        BY <3>3, BodyTypes DEF TypesInv, Answers
      <4>. QED  BY <3>3, <4>1 DEF Steady
    <3>4. CASE stage[q] = "waiting" /\ Route(q)
      <4>1. CASE Answered(q) \/ TimesOut(q)
        <5>1. Body[q].by \in {"code", "token"}
          BY BodyTypes
        <5>. QED  BY <1>0, <4>1, <5>1 DEF Answered, TimesOut, Unanswered, Goto, Answer
      <4>. QED  BY <3>4, <4>1 DEF Route
    <3>5. CASE stage[q] = "settle" /\ Body[q].by = "code" /\ Route(q)
      <4>1. CASE Settle(q)
        BY <1>0, <3>5, <4>1 DEF Settle, Committed, Answer
      <4>. QED  BY <3>5, <4>1 DEF Route
    <3>. QED  BY <1>0, <3>1, <3>2, <3>3, <3>4, <3>5, Routed DEF Posts
  <2>. QED  BY <2>1, <2>2
<1>2. ASSUME post'[q] = "ok" PROVE IsMember(Body[q].who, Body[q].scope)'
  <2>1. CASE post'[q] = post[q]
    BY <1>0, <1>2, <2>1, MembersStay DEF Posts
  <2>2. CASE LookForMember(q)
    <3>1. IsMember(Body[q].who, Body[q].scope)
      BY <1>0, <1>2, <2>2 DEF LookForMember
    <3>. QED  BY <3>1, MembersStay
  <2>3. CASE AddMember(q)
    <3>1. Membership(q) \in orgMembers'
      BY <1>0, <1>2, <2>3 DEF AddMember
    <3>. QED  BY <3>1 DEF Membership, IsMember
  <2>. QED  BY <1>2, <2>1, <2>2, <2>3, Posted
<1>. QED  BY <1>1, <1>2 DEF Posts

LEMMA WorkStep ==
  ASSUME TenancyInv, TypesInv, WorkInv, [TenancyNext]_tvars, Steady
  PROVE  WorkInv'
BY AcceptsStep, OwnsStep, PostsStep DEF WorkInv

LEMMA AuthorStep ==
  ASSUME TenancyInv, TypesInv, AuthorInv, WorkInv, [TenancyNext]_tvars, Steady
  PROVE  AuthorInv'
<1>0. /\ answer \in [Requests -> Answers \union {None}] /\ stage \in [Requests -> Stages]
      /\ invites \in [Requests -> Statuses \union {None}]
  BY DEF TypesInv, TenancyInv, RowsInv
<1>1. ASSUME NEW q \in Requests, answer[q] \in {"ok", "error"}
      PROVE  answer'[q] = answer[q] /\ stage'[q] = "done" /\ stage[q] = "done"
  <2>1. stage[q] = "done"
    BY <1>1, BodyTypes DEF TypesInv, Answers
  <2>. QED  BY <2>1 DEF Steady
<1>2. ASSUME NEW q \in Requests, Here(q) PROVE Here(q)'
  BY <1>0, <1>2, Routed DEF Still, Route, Here
<1>3. ASSUME NEW m \in members'
      PROVE  Here(m.by)'
  <2>1. CASE m \in members
    BY <1>2, <2>1 DEF AuthorInv, TypesInv
  <2>2. CASE m \notin members
    <3>1. PICK q \in Requests : m.by = q /\ Busy(q)
      BY <2>2, NewMembers DEF Row
    <3>. QED  BY <1>2, <3>1 DEF Busy, Here
  <2>. QED  BY <2>1, <2>2
<1>4. ASSUME NEW m \in members', m.invite # None
      PROVE  /\ Body[m.by].op = "accept" /\ m.invite = Target(m.by)
             /\ \/ stage'[m.by] \in {"settle", "post", "waiting"}
                \/ answer'[m.by] \in {"ok", "error"}
             /\ \/ stage'[m.by] = "settle" \/ answer'[m.by] = "error"
                \/ Settled(m.invite)'
  <2>1. CASE m \notin members
    <3>1. PICK q \in Requests :
            Join(q) /\ m = Row(q, Body[Target(q)].grant, Target(q))
      BY <1>4, <2>1, NewMembers DEF Row
    <3>2. stage[q] = "join" /\ stage'[q] = "settle"
      BY <1>0, <3>1 DEF Join, Goto
    <3>. QED  BY <3>1, <3>2 DEF Row, TenancyInv, Fits
  <2>2. CASE m \in members
    <3>. DEFINE q == m.by
    <3>1. /\ q \in Requests /\ Body[q].op = "accept" /\ m.invite = Target(q)
          /\ stage[q] \in {"settle", "post", "waiting"} \/ answer[q] \in {"ok", "error"}
          /\ stage[q] = "settle" \/ answer[q] = "error" \/ Settled(m.invite)
      BY <1>4, <2>2 DEF AuthorInv, TypesInv
    <3>2. m.invite \in Requests
      BY <3>1, Targets DEF About
    <3>3. Settled(m.invite) => Settled(m.invite)'
      BY <3>2 DEF Steady
    <3>4. CASE Still(q)
      BY <3>1, <3>3, <3>4 DEF Still
    <3>5. CASE answer[q] \in {"ok", "error"}
      <4>1. answer'[q] = answer[q] /\ stage[q] = "done"
        BY <1>1, <3>1, <3>5
      <4>. QED  BY <3>1, <3>3, <4>1
    <3>6. CASE Route(q) /\ stage[q] = "settle"
      <4>1. CASE Settle(q)
        <5>1. /\ stage'[q] = "post" \/ answer'[q] \in {"ok", "error"}
              /\ invites'[m.invite] = "ACCEPTED"
          BY <1>0, <3>1, <3>2, <4>1 DEF Settle, Committed, Goto, Answer
        <5>2. Settled(m.invite)'
          BY <5>1, ConstantsOK DEF Settled, Statuses
        <5>. QED  BY <3>1, <5>1, <5>2
      <4>. QED  BY <3>1, <3>6, <4>1 DEF Route
    <3>7. CASE Route(q) /\ stage[q] \in {"post", "waiting"}
      <4>1. CASE Answered(q) \/ TimesOut(q)
        <5>1. stage'[q] = "settle" \/ answer'[q] \in {"ok", "error"}
          BY <1>0, <3>1, <4>1 DEF Answered, TimesOut, Unanswered, Goto, Answer
        <5>2. answer[q] # "error"
          BY <3>1, <3>7, BodyTypes DEF TypesInv, Answers
        <5>. QED  BY <3>1, <3>3, <3>7, <5>1, <5>2
      <4>2. stage'[q] = "waiting" \/ answer'[q] = "error" \/ Answered(q) \/ TimesOut(q)
        BY <3>7 DEF Route
      <4>3. stage[q] # "settle" /\ answer[q] # "error"
        BY <3>1, <3>7, BodyTypes DEF TypesInv, Answers
      <4>. QED  BY <3>1, <3>3, <4>1, <4>2, <4>3
    <3>. QED  BY <1>0, <3>1, <3>4, <3>5, <3>6, <3>7, Routed
  <2>. QED  BY <2>1, <2>2
<1>5. ASSUME NEW m \in orgMembers', m.by # None
      PROVE  \/ stage'[m.by] \in {"default", "assign"} \/ post'[m.by] # "none"
             \/ answer'[m.by] \in {"ok", "error"}
  <2>1. CASE m \notin orgMembers
    <3>1. PICK q \in Requests :
            m = Membership(q) /\ (CreateOwner(q) \/ AddMember(q))
      BY <2>1, NewOrgMembers
    <3>2. stage'[q] = "default" \/ post'[q] # "none"
      BY <1>0, <3>1 DEF CreateOwner, AddMember, Goto, TenancyInv
    <3>. QED  BY <3>1, <3>2 DEF Membership
  <2>2. CASE m \in orgMembers
    <3>. DEFINE q == m.by
    <3>1. /\ q \in Requests
          /\ \/ stage[q] \in {"default", "assign"} \/ post[q] # "none"
             \/ answer[q] \in {"ok", "error"}
      BY <1>5, <2>2 DEF AuthorInv, TypesInv
    <3>2. CASE post[q] # "none"
      BY <3>1, <3>2, Posted
    <3>3. CASE answer[q] \in {"ok", "error"}
      BY <1>1, <3>1, <3>3
    <3>4. CASE stage[q] \in {"default", "assign"}
      BY <1>0, <3>1, <3>4, Routed DEF Still, Route
    <3>. QED  BY <3>1, <3>2, <3>3, <3>4
  <2>. QED  BY <2>1, <2>2
<1>6. ASSUME NEW i \in Requests, invites'[i] # None PROVE answer'[i] \in {"ok", "error"}
  <2>1. CASE invites[i] # None
    BY <1>1, <2>1 DEF AuthorInv
  <2>2. CASE invites[i] = None
    <3>1. CreateInvitation(i)
      BY <1>6, <2>2, NewStatus
    <3>. QED  BY <1>0, <3>1 DEF CreateInvitation, Committed, Answer
  <2>. QED  BY <2>1, <2>2
<1>. QED  BY <1>3, <1>4, <1>5, <1>6 DEF AuthorInv

------------------------------------------------------------------------------
(* What came before a request.                                             *)

\* It is over and done with, and stays so.
PastInv ==
  /\ before \in [Requests -> SUBSET Requests]
  /\ \A q \in Requests : \A p \in before[q] : Over(p)

\* What each request has found out of the tables still holds of those that
\* came before it.
FoundInv ==
  /\ \A q \in Requests : \A m \in members :
       /\ stage[q] = "bootstrap" /\ m.scope = Body[q].scope => m.by \notin before[q]
       /\ stage[q] = "join" /\ m.scope = Body[q].scope /\ m.user = Body[q].who =>
            m.by \notin before[q]
  /\ \A q \in Requests : \A m \in orgMembers :
       /\ stage[q] = "owner" /\ m.org = Body[q].scope =>
            m.by \notin before[q] \union {None}
       /\ post[q] = "checked" /\ m.org = Body[q].scope /\ m.user = Body[q].who =>
            m.by \notin before[q] \union {None}
  /\ \A q \in Requests : \A i \in before[q] :
       /\ stage[q] = "insert" /\ invites[i] = "PENDING" =>
            Body[i].scope # Body[q].scope \/ Body[i].email # Body[q].email
  /\ \A q \in Requests : stage[q] \in {"absent", "new", "org"} /\ Body[q].op = "org" =>
       Body[q].scope \notin orgs

LEMMA PastInit ==
  ASSUME Init
  PROVE  PastInv /\ FoundInv
<1>1. \A q \in Requests : stage[q] \in {"absent", "new", "done"} /\ post[q] = "none"
  BY DEF Init
<1>2. before = [q \in Requests |-> {}] /\ members = {}
  BY DEF Init
<1>3. \A q \in Requests : Body[q].op = "org" => Body[q].scope \notin orgs
  BY IdsAreFresh DEF Init
<1>4. PastInv
  BY <1>2 DEF PastInv
<1>. QED  BY <1>1, <1>2, <1>3, <1>4 DEF FoundInv

LEMMA PastStep ==
  ASSUME TenancyInv, TypesInv, PastInv, [TenancyNext]_tvars, Steady
  PROVE  /\ PastInv'
         /\ \A q \in Requests : before'[q] = before[q] \/ Arrive(q)
<1>1. ASSUME NEW q \in Requests, Arrive(q)
      PROVE  before' = [before EXCEPT ![q] = {p \in Requests : Over(p)}]
  BY <1>1 DEF Arrive
<1>2. \A q \in Requests : before'[q] = before[q] \/ Arrive(q)
  BY <1>1, Written DEF PastInv
<1>3. before' \in [Requests -> SUBSET Requests]
  BY <1>1, Written DEF PastInv
<1>4. ASSUME NEW q \in Requests, NEW p \in before'[q] PROVE Over(p)'
  <2>1. p \in Requests /\ Over(p)
    BY <1>1, <1>2, <1>4 DEF PastInv
  <2>. QED  BY <2>1 DEF Steady
<1>. QED  BY <1>2, <1>3, <1>4 DEF PastInv

LEMMA FoundStep ==
  ASSUME TenancyInv, TypesInv, PastInv, FoundInv, [TenancyNext]_tvars, Steady
  PROVE  FoundInv'
<1>0. /\ answer \in [Requests -> Answers \union {None}] /\ stage \in [Requests -> Stages]
      /\ post \in [Requests -> Letters]
  BY DEF TypesInv, TenancyInv
<1>1. ASSUME NEW q \in Requests, stage'[q] \notin FirstStages \/ post'[q] = "checked"
      PROVE  before'[q] = before[q]
  <2>1. SUFFICES ASSUME Arrive(q) PROVE FALSE
    BY PastStep
  <2>2. stage[q] = "new" /\ stage'[q] \in FirstStages /\ post' = post
    BY <1>0, <2>1, FirstStageIs DEF Arrive, Goto
  <2>3. post[q] = "none"
    BY <2>2 DEF TenancyInv, JoinedInv, Here
  <2>. QED  BY <1>1, <2>2, <2>3
<1>2. ASSUME NEW q \in Requests, NEW m \in members',
             stage'[q] \in {"bootstrap", "join"}, m.scope = Body[q].scope,
             stage'[q] = "join" => m.user = Body[q].who
      PROVE  m.by \notin before'[q]
  <2>1. before'[q] = before[q]
    BY <1>1, <1>2 DEF FirstStages
  <2>2. CASE m \notin members
    <3>1. PICK p \in Requests : m.by = p /\ Busy(p)
      BY <2>2, NewMembers DEF Row
    <3>. QED  BY <2>1, <3>1 DEF PastInv, Over, Busy
  <2>3. CASE m \in members /\ Still(q)
    BY <1>2, <2>1, <2>3 DEF Still, FoundInv
  <2>4. CASE m \in members /\ CountMembers(q)
    <3>1. stage'[q] = "bootstrap" => {n \in members : n.scope = Body[q].scope} = {}
      BY <1>0, <2>4 DEF CountMembers, Goto, Authorized
    <3>2. stage'[q] # "join"
      BY <1>0, <2>4 DEF CountMembers, Goto, Authorized
    <3>. QED  BY <1>2, <2>4, <3>1, <3>2
  <2>5. CASE m \in members /\ Existing(q)
    <3>1. /\ stage'[q] = "join" => RowsOf(Body[q].who, Body[q].scope) = {}
          /\ stage'[q] # "bootstrap"
      BY <1>0, <2>5 DEF Existing, Goto, Answer
    <3>. QED  BY <1>2, <2>5, <3>1 DEF RowsOf
  <2>. QED  BY <1>0, <1>2, <2>2, <2>3, <2>4, <2>5, Routed DEF Route
<1>3. ASSUME NEW q \in Requests, NEW m \in orgMembers', m.org = Body[q].scope,
             stage'[q] = "owner" \/ (post'[q] = "checked" /\ m.user = Body[q].who)
      PROVE  m.by \notin before'[q] \union {None}
  <2>1. before'[q] = before[q]
    BY <1>1, <1>3 DEF FirstStages
  <2>2. CASE m \notin orgMembers
    <3>1. PICK p \in Requests : m.by = p /\ ~Over(p)
      BY <2>2, NewOrgMembers DEF Membership
    <3>. QED  BY <2>1, <3>1, BodyTypes DEF PastInv
  <2>3. CASE m \in orgMembers /\ stage'[q] = "owner"
    <3>1. CASE Still(q)
      BY <1>3, <2>1, <2>3, <3>1 DEF Still, FoundInv
    <3>2. CASE CreateOrganization(q)
      <4>1. stage[q] = "org" /\ Body[q].op = "org"
        BY <3>2 DEF CreateOrganization, TenancyInv, Fits
      <4>2. Body[q].scope \notin orgs
        BY <4>1 DEF FoundInv
      <4>. QED  BY <1>3, <2>3, <4>2 DEF TypesInv
    <3>. QED  BY <1>0, <2>3, <3>1, <3>2, Routed DEF Route
  <2>4. CASE m \in orgMembers /\ post'[q] = "checked" /\ m.user = Body[q].who
    <3>1. CASE post[q] = "checked"
      BY <1>3, <2>1, <2>4, <3>1 DEF FoundInv
    <3>2. CASE LookForMember(q)
      <4>1. ~IsMember(Body[q].who, Body[q].scope)
        BY <1>0, <2>4, <3>2 DEF LookForMember
      <4>. QED  BY <1>3, <2>4, <4>1 DEF IsMember
    <3>. QED  BY <2>4, <3>1, <3>2, Posted
  <2>. QED  BY <1>3, <2>2, <2>3, <2>4
<1>4. ASSUME NEW q \in Requests, NEW i \in before'[q], stage'[q] = "insert",
             invites'[i] = "PENDING"
      PROVE  Body[i].scope # Body[q].scope \/ Body[i].email # Body[q].email
  <2>1. before'[q] = before[q]
    BY <1>1, <1>4 DEF FirstStages
  <2>2. i \in Requests /\ Over(i)
    BY <1>4, <2>1 DEF PastInv
  <2>3. invites[i] = "PENDING"
    <3>1. ~CreateInvitation(i)
      BY <2>2 DEF Over, CreateInvitation
    <3>. QED  BY <1>4, <2>2, <3>1, NewStatus
  <2>4. CASE Still(q)
    BY <1>4, <2>1, <2>3, <2>4 DEF Still, FoundInv
  <2>5. CASE CheckInvitation(q)
    BY <1>0, <1>4, <2>2, <2>3, <2>5 DEF CheckInvitation, Answer
  <2>. QED  BY <1>0, <1>4, <2>4, <2>5, Routed DEF Route
<1>5. ASSUME NEW q \in Requests, stage'[q] \in {"absent", "new", "org"}, Body[q].op = "org"
      PROVE  Body[q].scope \notin orgs'
  <2>1. stage[q] \in {"absent", "new", "org"}
    BY <1>0, <1>5, Routed DEF Still, Route, Arrive
  <2>2. Body[q].scope \notin orgs
    BY <1>5, <2>1 DEF FoundInv
  <2>3. ASSUME NEW p \in Requests, CreateOrganization(p) PROVE Body[q].scope \notin orgs'
    <3>1. p # q
      BY <1>0, <1>5, <2>3 DEF CreateOrganization, Goto
    <3>2. Body[p].op = "org"
      BY <2>3 DEF CreateOrganization, TenancyInv, Fits
    <3>3. Body[p].scope # Body[q].scope
      BY <1>5, <3>1, <3>2, IdsAreFresh
    <3>. QED  BY <2>2, <2>3, <3>3 DEF CreateOrganization
  <2>. QED  BY <2>2, <2>3, Written
<1>6. (\A q \in Requests : \A m \in members :
       /\ stage[q] = "bootstrap" /\ m.scope = Body[q].scope => m.by \notin before[q]
       /\ stage[q] = "join" /\ m.scope = Body[q].scope /\ m.user = Body[q].who =>
            m.by \notin before[q])'
  BY <1>2
<1>7. (\A q \in Requests : \A m \in orgMembers :
       /\ stage[q] = "owner" /\ m.org = Body[q].scope =>
            m.by \notin before[q] \union {None}
       /\ post[q] = "checked" /\ m.org = Body[q].scope /\ m.user = Body[q].who =>
            m.by \notin before[q] \union {None})'
  BY <1>3
<1>. QED  BY <1>4, <1>5, <1>6, <1>7 DEF FoundInv

------------------------------------------------------------------------------
(* Only races duplicate.                                                   *)

LEMMA ApartStays ==
  ASSUME TenancyInv, TypesInv, PastInv, [TenancyNext]_tvars, Steady,
         NEW p \in Requests, NEW q \in Requests, Here(p), Here(q)
  PROVE  before'[p] = before[p] /\ (Apart(p, q)' <=> Apart(p, q))
<1>1. ~Arrive(p) /\ ~Arrive(q)
  BY DEF Arrive, Here
<1>2. before'[p] = before[p] /\ before'[q] = before[q]
  BY <1>1, PastStep
<1>. QED  BY <1>2 DEF Apart

LEMMA DuplicatesInit ==
  ASSUME Init
  PROVE  OnlyRacesDuplicate
<1>1. members = {} /\ before = [q \in Requests |-> {}]
  BY DEF Init
<1>2. \A a, b \in orgMembers : a.org = b.org => a = b
  BY DEF Init
<1>3. \A i, j \in Requests : ~Apart(i, j)
  BY <1>1 DEF Apart
<1>. QED  BY <1>1, <1>2, <1>3 DEF OnlyRacesDuplicate

LEMMA DuplicatesStep ==
  ASSUME TenancyInv, TypesInv, AuthorInv, PastInv, FoundInv, OnlyRacesDuplicate,
         [TenancyNext]_tvars, Steady
  PROVE  OnlyRacesDuplicate'
<1>1. ASSUME NEW a \in members', a \notin members, NEW b \in members, a.scope = b.scope
      PROVE  /\ a.user = b.user => ~Apart(a.by, b.by)' /\ ~Apart(b.by, a.by)'
             /\ a.invite = None => b.by \notin before'[a.by]
             /\ a.by \notin before'[b.by]
  <2>1. PICK q \in Requests :
          /\ Busy(q)
          /\ \/ Bootstrap(q) /\ a = Row(q, "workspace_owner", None)
             \/ Join(q) /\ a = Row(q, Body[Target(q)].grant, Target(q))
    BY <1>1, NewMembers
  <2>2. a.by = q /\ a.user = Body[q].who /\ a.scope = Body[q].scope
    BY <2>1 DEF Row
  <2>3. b.by \in Requests /\ Here(b.by) /\ Here(q) /\ ~Over(q)
    BY <1>1, <2>1 DEF TypesInv, AuthorInv, Busy, Here, Over
  <2>4. q \notin before[b.by]
    BY <2>3 DEF PastInv
  <2>5. before'[b.by] = before[b.by] /\ before'[q] = before[q]
    BY <2>3, ApartStays
  <2>6. CASE Bootstrap(q)
    <3>1. stage[q] = "bootstrap"
      BY <2>6 DEF Bootstrap
    <3>2. b.by \notin before[q]
      BY <1>1, <2>2, <3>1 DEF FoundInv
    <3>. QED  BY <2>2, <2>4, <2>5, <3>2 DEF Apart
  <2>7. CASE Join(q) /\ a = Row(q, Body[Target(q)].grant, Target(q))
    <3>1. stage[q] = "join" /\ Body[q].op = "accept"
      BY <2>7 DEF Join, TenancyInv, Fits
    <3>2. a.user = b.user => b.by \notin before[q]
      BY <1>1, <2>2, <3>1 DEF FoundInv
    <3>3. a.invite # None
      BY <2>7, <3>1, Targets DEF Row, About
    <3>. QED  BY <2>2, <2>4, <2>5, <3>2, <3>3 DEF Apart
  <2>. QED  BY <2>1, <2>6, <2>7
<1>2. ASSUME NEW a \in members, NEW b \in members
      PROVE  /\ before'[a.by] = before[a.by]
             /\ Apart(a.by, b.by)' <=> Apart(a.by, b.by)
  <2>1. a.by \in Requests /\ b.by \in Requests /\ Here(a.by) /\ Here(b.by)
    BY DEF TypesInv, AuthorInv
  <2>. QED  BY <2>1, ApartStays
<1>3. ASSUME NEW a \in members', NEW b \in members', a # b, a.scope = b.scope
      PROVE  /\ a.user = b.user => ~Apart(a.by, b.by)'
             /\ a.invite = None => b.by \notin before'[a.by]
  <2>1. CASE a \in members /\ b \in members
    BY <1>2, <1>3, <2>1 DEF OnlyRacesDuplicate
  <2>2. CASE a \notin members
    <3>1. b \in members
      BY <1>3, <2>2, NewMembers
    <3>. QED  BY <1>1, <1>3, <2>2, <3>1
  <2>3. CASE b \notin members /\ a \in members
    BY <1>1, <1>3, <2>3
  <2>. QED  BY <2>1, <2>2, <2>3
<1>4. ASSUME NEW m \in orgMembers, m.by # None PROVE m.by \in Requests /\ Here(m.by)
  <2>1. /\ m.by \in Requests
        /\ \/ stage[m.by] \in {"default", "assign"} \/ post[m.by] # "none"
           \/ answer[m.by] \in {"ok", "error"}
    BY <1>4 DEF AuthorInv, TypesInv
  <2>2. answer[m.by] \in {"ok", "error"} => stage[m.by] = "done"
    BY <2>1, BodyTypes DEF TypesInv, Answers
  <2>. QED  BY <2>1, <2>2 DEF TenancyInv, JoinedInv, Here
<1>5. ASSUME NEW a \in orgMembers', a \notin orgMembers, NEW b \in orgMembers,
             a.org = b.org, a.user = b.user
      PROVE  a.by # None /\ b.by # None /\ ~Apart(a.by, b.by)' /\ ~Apart(b.by, a.by)'
  <2>1. PICK q \in Requests :
          /\ a = Membership(q) /\ ~Over(q)
          /\ \/ CreateOwner(q) /\ stage[q] = "owner"
             \/ AddMember(q) /\ post[q] = "checked"
    BY <1>5, NewOrgMembers
  <2>2. a.by = q /\ a.user = Body[q].who /\ a.org = Body[q].scope /\ q # None
    BY <2>1, BodyTypes DEF Membership
  <2>3. b.by \notin before[q] \union {None}
    BY <1>5, <2>1, <2>2 DEF FoundInv
  <2>4. Here(q)
    BY <2>1 DEF TenancyInv, JoinedInv, Here
  <2>5. b.by \in Requests /\ Here(b.by)
    BY <1>4, <2>3
  <2>6. q \notin before[b.by]
    BY <2>1, <2>5 DEF PastInv
  <2>7. before'[b.by] = before[b.by] /\ before'[q] = before[q]
    BY <2>4, <2>5, ApartStays
  <2>. QED  BY <2>2, <2>3, <2>6, <2>7 DEF Apart
<1>6. ASSUME NEW a \in orgMembers', NEW b \in orgMembers', a # b, a.user = b.user,
             a.org = b.org
      PROVE  a.by # None /\ b.by # None /\ ~Apart(a.by, b.by)'
  <2>1. CASE a \in orgMembers /\ b \in orgMembers
    <3>1. a.by # None /\ b.by # None /\ ~Apart(a.by, b.by)
      BY <1>6, <2>1 DEF OnlyRacesDuplicate
    <3>. QED  BY <1>4, <2>1, <3>1, ApartStays
  <2>2. CASE a \notin orgMembers
    <3>1. b \in orgMembers
      BY <1>6, <2>2, NewOrgMembers
    <3>. QED  BY <1>5, <1>6, <2>2, <3>1
  <2>3. CASE b \notin orgMembers /\ a \in orgMembers
    BY <1>5, <1>6, <2>3
  <2>. QED  BY <2>1, <2>2, <2>3
<1>7. ASSUME NEW i \in Requests, invites'[i] = "PENDING", invites[i] # "PENDING"
      PROVE  /\ stage[i] = "insert" /\ CreateInvitation(i)
             /\ \A j \in Requests : invites'[j] # invites[j] => j = i
  <2>1. CreateInvitation(i)
    BY <1>7, NewStatus
  <2>. QED  BY <2>1 DEF CreateInvitation, TenancyInv, RowsInv
<1>8. ASSUME NEW i \in Requests, NEW j \in Requests, i # j,
             invites'[i] = "PENDING", invites[i] # "PENDING", invites'[j] = "PENDING",
             Body[i].scope = Body[j].scope, Body[i].email = Body[j].email
      PROVE  ~Apart(i, j)' /\ ~Apart(j, i)'
  <2>1. stage[i] = "insert" /\ invites[j] = "PENDING"
    BY <1>7, <1>8
  <2>2. j \notin before[i]
    BY <1>8, <2>1 DEF FoundInv
  <2>3. Here(i) /\ ~Over(i) /\ Here(j)
    BY <2>1, ConstantsOK DEF Here, Over, TenancyInv, RowsInv, Statuses
  <2>4. i \notin before[j]
    BY <2>3 DEF PastInv
  <2>5. before'[i] = before[i] /\ before'[j] = before[j]
    BY <2>3, ApartStays
  <2>. QED  BY <2>2, <2>4, <2>5 DEF Apart
<1>9. ASSUME NEW i \in Requests, NEW j \in Requests, i # j,
             invites'[i] = "PENDING", invites'[j] = "PENDING",
             Body[i].scope = Body[j].scope, Body[i].email = Body[j].email
      PROVE  ~Apart(i, j)'
  <2>1. CASE invites[i] = "PENDING" /\ invites[j] = "PENDING"
    <3>1. ~Apart(i, j)
      BY <1>9, <2>1 DEF OnlyRacesDuplicate
    <3>2. Here(i) /\ Here(j)
      BY <2>1, ConstantsOK DEF Here, TenancyInv, RowsInv, Statuses
    <3>. QED  BY <3>1, <3>2, ApartStays
  <2>. QED  BY <1>8, <1>9, <2>1
<1>. QED  BY <1>3, <1>6, <1>9 DEF OnlyRacesDuplicate

------------------------------------------------------------------------------
(* What is answered holds from then on.                                    *)

\* What those who were told "ok" may rely on.
Kept(q) ==
  /\ Body[q].op = "invite" => invites[q] # None
  /\ Body[q].op \in {"revoke", "accept"} => Settled(Target(q))
  /\ Body[q].op = "accept" =>
       \/ IsMember(Body[q].who, Body[q].scope)
       \/ Body[q].scope \in Workspaces /\ RowsOf(Body[q].who, Body[q].scope) # {}
       \/ q \in unsynced
  /\ Body[q].op = "org" =>
       /\ IsMember(Body[q].who, Body[q].scope)
       /\ spaces[Default[Body[q].scope]] = Body[q].scope
       /\ <<Body[q].who, Body[q].scope>> \in grants
  /\ Body[q].op = "context" => IsMember(Body[q].who, Body[q].org)

\* Whom no organization had when he came.
Unknown(q) ==
  \A m \in orgMembers : m.user = Body[q].who => m.by \notin before[q] \union {None}

AnswerInv ==
  \A q \in Requests : /\ answer[q] = "ok" => Kept(q)
                      /\ answer[q] = "ORG_REQUIRED" => Unknown(q)

LEMMA AnswerInit ==
  ASSUME Init
  PROVE  AnswerInv
<1>1. ASSUME NEW q \in Requests, answer[q] # None
      PROVE  answer[q] = "ok" /\ Body[q].op = "invite" /\ invites[q] = "PENDING"
  BY <1>1, ConstantsOK DEF Init
<1>2. None \notin Answers /\ None # "PENDING"
  BY ConstantsOK DEF Statuses
<1>3. ASSUME NEW q \in Requests, answer[q] \in Answers PROVE answer[q] = "ok" /\ Kept(q)
  BY <1>1, <1>2, <1>3 DEF Kept
<1>. QED  BY <1>3 DEF AnswerInv, Answers

\* What was kept stays.
LEMMA KeptStays ==
  ASSUME TenancyInv, TypesInv, [TenancyNext]_tvars, Steady, NEW q \in Requests, Kept(q)
  PROVE  Kept(q)'
<1>1. IsMember(Body[q].who, Body[q].scope) => IsMember(Body[q].who, Body[q].scope)'
  BY MembersStay
<1>2. IsMember(Body[q].who, Body[q].org) => IsMember(Body[q].who, Body[q].org)'
  BY MembersStay
<1>3. RowsOf(Body[q].who, Body[q].scope) # {} =>
        (RowsOf(Body[q].who, Body[q].scope))' # {}
  BY MembersStay
<1>4. Body[q].op \in {"revoke", "accept"} => Settled(Target(q))'
  BY Targets DEF Kept, Steady, Target, About
<1>5. Body[q].op = "org" => spaces'[Default[Body[q].scope]] = Body[q].scope
  BY IdsAreFresh, SpaceStays DEF Kept
<1>6. /\ invites[q] # None => invites'[q] # None
      /\ unsynced \subseteq unsynced' /\ grants \subseteq grants'
  BY DEF Steady
<1>. QED  BY <1>1, <1>2, <1>3, <1>4, <1>5, <1>6 DEF Kept

\* Whoever is told "ok" has what he asked for.
LEMMA SettleKeeps ==
  ASSUME TenancyInv, TypesInv, WorkInv, [TenancyNext]_tvars, Steady,
         NEW q \in Requests, Settle(q), stage'[q] = "done", answer'[q] = "ok"
  PROVE  Kept(q)'
<1>1. stage[q] = "settle" /\ Body[q].op \in {"accept", "revoke"}
  BY DEF Settle, TenancyInv, Fits
<1>2. /\ stage \in [Requests -> Stages] /\ Target(q) \in Requests
      /\ invites \in [Requests -> Statuses \union {None}]
      /\ Body[q].by \in {"code", "token"} /\ Body[q].scope \in Orgs \union Workspaces
  BY <1>1, Targets, BodyTypes DEF TenancyInv, RowsInv, About, Scopes
<1>3. invites'[Target(q)] \in {"REVOKED", "ACCEPTED"}
  BY <1>2 DEF Settle
<1>4. Settled(Target(q))'
  BY <1>3, ConstantsOK DEF Settled, Statuses, Target
<1>5. ASSUME Body[q].op = "accept"
      PROVE  \/ IsMember(Body[q].who, Body[q].scope)'
             \/ /\ Body[q].scope \in Workspaces
                /\ (RowsOf(Body[q].who, Body[q].scope))' # {}
  <2>1. Joined(q)
    BY <1>1, <1>5 DEF WorkInv, Accepts
  <2>2. ~(Body[q].by = "token" /\ Body[q].scope \in Orgs)
    BY <1>2, <1>5 DEF Settle, Goto, Answer, TenancyInv, TypesInv
  <2>. QED  BY <1>2, <2>1, <2>2, MembersStay DEF Joined
<1>. QED  BY <1>1, <1>4, <1>5 DEF Kept

LEMMA AnswerKeeps ==
  ASSUME TenancyInv, TypesInv, WorkInv, [TenancyNext]_tvars, Steady,
         NEW q \in Requests, Answered(q) \/ TimesOut(q), stage'[q] = "done",
         answer'[q] = "ok"
  PROVE  Kept(q)'
<1>1. stage[q] = "waiting" /\ Body[q].op = "accept"
  BY DEF Answered, TimesOut, TenancyInv, Fits
<1>2. /\ stage \in [Requests -> Stages] /\ answer \in [Requests -> Answers \union {None}]
      /\ Target(q) \in Requests /\ Body[q].by \in {"code", "token"}
  BY <1>1, Targets, BodyTypes DEF TenancyInv, TypesInv, About
<1>3. Body[q].by = "token" /\ (post[q] = "ok" \/ q \in unsynced')
  BY <1>2 DEF Answered, TimesOut, Unanswered, Goto, Answer
<1>4. Settled(Target(q))
  BY <1>1, <1>3 DEF WorkInv, Accepts
<1>5. Settled(Target(q))'
  BY <1>2, <1>4 DEF Steady, Target
<1>6. post[q] = "ok" => IsMember(Body[q].who, Body[q].scope)'
  BY MembersStay DEF WorkInv, Posts
<1>. QED  BY <1>1, <1>3, <1>5, <1>6 DEF Kept

LEMMA OthersKeep ==
  ASSUME TenancyInv, TypesInv, WorkInv, [TenancyNext]_tvars, Steady,
         NEW q \in Requests,
         \/ List(q) \/ CreateInvitation(q) \/ (Fetch(q) /\ Body[q].op = "look")
         \/ Register(q) \/ Login(q) \/ IssueToken(q) \/ AssignRole(q)
         \/ CreateWorkspace(q)
  PROVE  Kept(q)'
<1>1. CASE CreateInvitation(q)
  <2>1. Body[q].op = "invite" /\ invites'[q] = "PENDING"
    BY <1>1 DEF CreateInvitation, TenancyInv, RowsInv, Fits
  <2>. QED  BY <2>1, ConstantsOK DEF Kept, Statuses
<1>2. CASE IssueToken(q)
  <2>1. Body[q].op = "context" /\ IsMember(Body[q].who, Body[q].org)
    BY <1>2 DEF IssueToken, TenancyInv, Fits, WorkInv, Owns
  <2>2. IsMember(Body[q].who, Body[q].org)'
    BY <2>1, MembersStay
  <2>. QED  BY <2>1, <2>2 DEF Kept
<1>3. CASE AssignRole(q)
  <2>1. /\ Body[q].op = "org" /\ IsMember(Body[q].who, Body[q].scope)
        /\ spaces[Default[Body[q].scope]] = Body[q].scope
    BY <1>3 DEF AssignRole, TenancyInv, Fits, WorkInv, Owns
  <2>2. IsMember(Body[q].who, Body[q].scope)'
    BY <2>1, MembersStay
  <2>3. spaces' = spaces /\ <<Body[q].who, Body[q].scope>> \in grants'
    BY <1>3 DEF AssignRole
  <2>. QED  BY <2>1, <2>2, <2>3 DEF Kept
<1>4. CASE \/ List(q) \/ (Fetch(q) /\ Body[q].op = "look") \/ Register(q) \/ Login(q)
           \/ CreateWorkspace(q)
  <2>1. Body[q].op \in {"list", "look", "register", "login", "workspace"}
    BY <1>4 DEF List, Register, Login, CreateWorkspace, TenancyInv, Fits
  <2>. QED  BY <2>1 DEF Kept
<1>. QED  BY <1>1, <1>2, <1>3, <1>4

LEMMA AnswerInvStep ==
  ASSUME TenancyInv, TypesInv, WorkInv, PastInv, AnswerInv, [TenancyNext]_tvars, Steady
  PROVE  AnswerInv'
<1>0. answer \in [Requests -> Answers \union {None}] /\ stage \in [Requests -> Stages]
  BY DEF TypesInv, TenancyInv
<1>1. ASSUME NEW q \in Requests, answer'[q] \in Answers
      PROVE  stage'[q] = "done" /\ (answer'[q] = answer[q] \/ Route(q))
  <2>1. TypesInv'
    BY TypesStep
  <2>2. stage'[q] = "done"
    BY <1>1, <2>1, BodyTypes DEF TypesInv
  <2>. QED  BY <1>0, <2>2, Routed DEF Still
<1>2. ASSUME NEW q \in Requests, answer'[q] = "ok" PROVE Kept(q)'
  <2>1. CASE answer[q] = "ok"
    BY <2>1, KeptStays DEF AnswerInv
  <2>2. CASE Succeeds(q) /\ stage'[q] = "done"
    BY <1>2, <2>2, SettleKeeps, AnswerKeeps, OthersKeep DEF Succeeds
  <2>. QED  BY <1>1, <1>2, <2>1, <2>2 DEF Route, Answers
<1>3. ASSUME NEW q \in Requests, answer'[q] = "ORG_REQUIRED", NEW m \in orgMembers',
             m.user = Body[q].who
      PROVE  m.by \notin before'[q] \union {None}
  <2>1. CASE Login(q) /\ answer[q] # "ORG_REQUIRED"
    <3>1. /\ stage[q] = "login" /\ orgMembers' = orgMembers /\ before' = before
          /\ \A n \in orgMembers : n.user # Body[q].who
      BY <1>0, <1>3, <2>1 DEF Login, Answer, tenants, other, ghosts
    <3>. QED  BY <1>3, <3>1
  <2>2. CASE answer[q] = "ORG_REQUIRED"
    <3>1. stage[q] = "done"
      BY <2>2, BodyTypes DEF TypesInv, Answers
    <3>2. before'[q] = before[q]
      BY <3>1, PastStep DEF Arrive
    <3>3. CASE m \in orgMembers
      BY <1>3, <2>2, <3>2, <3>3 DEF AnswerInv, Unknown
    <3>4. CASE m \notin orgMembers
      <4>1. PICK p \in Requests : m.by = p /\ ~Over(p)
        BY <3>4, NewOrgMembers DEF Membership
      <4>. QED  BY <3>2, <4>1, BodyTypes DEF PastInv
    <3>. QED  BY <3>3, <3>4
  <2>. QED  BY <1>1, <1>3, <2>1, <2>2 DEF Route, Answers
<1>4. ASSUME NEW q \in Requests, answer'[q] = "ORG_REQUIRED" PROVE Unknown(q)'
  BY <1>3, <1>4 DEF Unknown
<1>. QED  BY <1>2, <1>4 DEF AnswerInv

\* What the run checks follows.
LEMMA AnswersFollow ==
  ASSUME TenancyInv, TypesInv, WorkInv, AuthorInv, AnswerInv
  PROVE  AnswersHold
<1>1. ASSUME NEW q \in Requests, answer[q] = "ok" PROVE Kept(q)
  BY <1>1 DEF AnswerInv
<1>2. ASSUME NEW q \in Requests, answer[q] = "ORG_REQUIRED" PROVE Unknown(q)
  BY <1>2 DEF AnswerInv
<1>3. ASSUME NEW q \in Requests, answer[q] = "refused", stage[q] = "done"
      PROVE  /\ invites[q] = None
             /\ \A m \in members : m.by = q => m.invite = None
             /\ \A m \in orgMembers : m.by # q
  <2>1. invites[q] = None
    BY <1>3 DEF AuthorInv
  <2>2. \A m \in members : m.by = q => m.invite = None
    BY <1>3 DEF AuthorInv
  <2>3. post[q] = "none"
    BY <1>3 DEF WorkInv, Posts
  <2>4. \A m \in orgMembers : m.by # q
    BY <1>3, <2>3, BodyTypes DEF AuthorInv
  <2>. QED  BY <2>1, <2>2, <2>4
<1>4. ASSUME NEW q \in Requests, Kept(q)
      PROVE  LET b == Body[q] IN
         /\ b.op = "invite" => invites[q] # None
         /\ b.op = "revoke" => invites[b.invite] # "PENDING"
         /\ b.op = "accept" => /\ invites[b.invite] # "PENDING"
                               /\ \/ IsMember(b.who, b.scope)
                                  \/ /\ b.scope \in Workspaces
                                     /\ RowsOf(b.who, b.scope) # {}
                                  \/ q \in unsynced
         /\ b.op = "org" => /\ IsMember(b.who, b.scope)
                            /\ spaces[Default[b.scope]] = b.scope
                            /\ <<b.who, b.scope>> \in grants
         /\ b.op = "context" => IsMember(b.who, b.org)
  BY <1>4 DEF Kept, Settled, Target
<1>. QED  BY <1>1, <1>2, <1>3, <1>4 DEF AnswersHold, Unknown

------------------------------------------------------------------------------
(* Accepting is whole.                                                     *)

\* What came, or is to come, of q's accepting i.
Made(q, i) == \E m \in RowsOf(Body[q].who, Body[i].scope) : m.by = q /\ m.invite = i

Kin(q, i) ==
  /\ Accepter(q, i)
  /\ IF Body[i].scope \in Workspaces
     THEN Through(q) /\ Made(q, i)
     ELSE \/ Through(q) /\ IsMember(Body[q].who, Body[i].scope)
          \/ /\ Body[q].by = "token"
             /\ \/ stage[q] \in {"post", "waiting"} \/ q \in unsynced
                \/ answer[q] = "error"

AcceptedInv ==
  \A i \in Requests : invites[i] = "ACCEPTED" => \E q \in Requests : Kin(q, i)

\* An invitation and those who accept it are for one scope and one address.
LEMMA SameScope ==
  ASSUME TenancyInv, WorkInv, NEW q \in Requests, Body[q].op = "accept"
  PROVE  /\ Target(q) \in Requests /\ Body[q].scope = Body[Target(q)].scope
         /\ stage[q] = "settle" => Lower[Body[q].email] = Invitee(Target(q))
<1>1. Target(q) \in Requests
  BY Targets DEF About
<1>2. Body[q].scope = Body[Target(q)].scope
  BY ConstantsOK DEF Target
<1>3. stage[q] = "settle" => Lower[Body[q].email] = Invitee(Target(q))
  BY DEF WorkInv, Accepts
<1>. QED  BY <1>1, <1>2, <1>3

\* A request that is still to tell the tenant service goes on until the caller
\* is a member there, or it has given up.
LEMMA TellingStep ==
  ASSUME TenancyInv, TypesInv, WorkInv, [TenancyNext]_tvars, Steady,
         NEW q \in Requests, Body[q].op = "accept", Body[q].by = "token",
         stage[q] \in {"post", "waiting"} \/ q \in unsynced \/ answer[q] = "error"
  PROVE  \/ Through(q)' /\ IsMember(Body[q].who, Body[q].scope)'
         \/ stage'[q] \in {"post", "waiting"} \/ q \in unsynced'
         \/ answer'[q] = "error"
<1>0. answer \in [Requests -> Answers \union {None}] /\ stage \in [Requests -> Stages]
  BY DEF TypesInv, TenancyInv
<1>1. CASE Still(q) \/ q \in unsynced
  BY <1>0, <1>1 DEF Still, Steady
<1>2. CASE answer[q] = "error"
  <2>1. stage[q] = "done"
    BY <1>2, BodyTypes DEF TypesInv, Answers
  <2>. QED  BY <1>0, <1>2, <2>1 DEF Steady
<1>3. CASE stage[q] = "post" /\ Route(q)
  BY <1>0, <1>3 DEF Route
<1>4. CASE stage[q] = "waiting" /\ Route(q)
  <2>1. CASE Answered(q) \/ TimesOut(q)
    <3>1. (post[q] = "ok" /\ answer'[q] = "ok") \/ q \in unsynced'
      BY <1>0, <1>4, <2>1 DEF Answered, TimesOut, Unanswered, Answer
    <3>2. post[q] = "ok" => IsMember(Body[q].who, Body[q].scope)'
      BY MembersStay DEF WorkInv, Posts
    <3>. QED  BY <3>1, <3>2 DEF Through
  <2>. QED  BY <1>0, <1>4, <2>1 DEF Route
<1>. QED  BY <1>0, <1>1, <1>2, <1>3, <1>4, Routed

LEMMA KinStep ==
  ASSUME TenancyInv, TypesInv, WorkInv, [TenancyNext]_tvars, Steady,
         NEW i \in Requests, NEW q \in Requests, Kin(q, i)
  PROVE  Kin(q, i)'
<1>1. Accepter(q, i) /\ Accepter(q, i)' /\ Body[q].op = "accept"
  BY DEF Kin, Accepter, Accepting, Target, Invitee
<1>2. /\ Made(q, i) => Made(q, i)'
      /\ IsMember(Body[q].who, Body[i].scope) => IsMember(Body[q].who, Body[i].scope)'
  BY DEF Steady, Made, RowsOf, IsMember
<1>3. Through(q) => Through(q)'
  <2>1. Through(q) => stage[q] = "done"
    BY BodyTypes DEF Through, TypesInv, Answers
  <2>. QED  BY <2>1 DEF Steady, Through
<1>4. CASE Body[i].scope \in Workspaces
        \/ (Through(q) /\ IsMember(Body[q].who, Body[i].scope))
  BY <1>1, <1>2, <1>3, <1>4 DEF Kin
<1>5. CASE Body[i].scope \notin Workspaces
           /\ ~(Through(q) /\ IsMember(Body[q].who, Body[i].scope))
  <2>1. /\ Body[q].by = "token"
        /\ stage[q] \in {"post", "waiting"} \/ q \in unsynced \/ answer[q] = "error"
    BY <1>5 DEF Kin
  <2>2. \/ Through(q)' /\ IsMember(Body[q].who, Body[q].scope)'
        \/ stage'[q] \in {"post", "waiting"} \/ q \in unsynced'
        \/ answer'[q] = "error"
    BY <1>1, <2>1, TellingStep
  <2>3. Body[q].scope = Body[i].scope
    BY <1>1, SameScope DEF Accepter, Accepting
  <2>4. IsMember(Body[q].who, Body[q].scope)' => IsMember(Body[q].who, Body[i].scope)'
    BY <2>3 DEF IsMember
  <2>. QED  BY <1>1, <1>5, <2>1, <2>2, <2>4 DEF Kin
<1>. QED  BY <1>4, <1>5

LEMMA AcceptedStep ==
  ASSUME TenancyInv, TypesInv, WorkInv, AcceptedInv, [TenancyNext]_tvars, Steady
  PROVE  AcceptedInv'
<1>. SUFFICES ASSUME NEW i \in Requests, invites'[i] = "ACCEPTED"
              PROVE  \E q \in Requests : Kin(q, i)'
  BY DEF AcceptedInv
<1>1. CASE invites[i] = "ACCEPTED"
  BY <1>1, KinStep DEF AcceptedInv
<1>2. CASE invites[i] # "ACCEPTED"
  <2>1. PICK q \in Requests : Target(q) = i /\ Settle(q) /\ Body[q].op = "accept"
    BY <1>2, NewStatus
  <2>2. stage[q] = "settle" /\ stage \in [Requests -> Stages]
    BY <2>1 DEF Settle, TenancyInv
  <2>3. Body[q].scope = Body[i].scope /\ Accepter(q, i)'
    BY <2>1, <2>2, SameScope DEF Accepter, Accepting, Target, Invitee
  <2>4. Joined(q) /\ Body[q].by \in {"code", "token"} /\ Body[q].scope \in Orgs \union Workspaces
    BY <2>1, <2>2, BodyTypes DEF WorkInv, Accepts, Scopes
  <2>5. stage'[q] = "post" \/ Through(q)'
    BY <2>1, <2>2 DEF Settle, Goto, Answer, Committed, Through, TypesInv
  <2>6. stage'[q] = "post" => Body[q].by = "token" /\ Body[q].scope \in Orgs
    BY <2>1, <2>2 DEF Settle, Goto, Answer, Committed
  <2>7. CASE Body[i].scope \in Workspaces
    <3>1. Body[q].scope \notin Orgs /\ Through(q)'
      BY <2>3, <2>7, <2>5, <2>6, ConstantsOK
    <3>2. Made(q, i)
      BY <2>1, <2>3, <2>4, <3>1 DEF Joined, Made
    <3>3. Made(q, i)'
      BY <3>2 DEF Steady, Made, RowsOf
    <3>. QED  BY <2>3, <2>7, <3>1, <3>3 DEF Kin
  <2>8. CASE Body[i].scope \notin Workspaces /\ Body[q].by = "code"
    <3>1. IsMember(Body[q].who, Body[q].scope)
      BY <2>3, <2>4, <2>8 DEF Joined
    <3>2. IsMember(Body[q].who, Body[i].scope)'
      BY <2>3, <3>1 DEF Steady, IsMember
    <3>3. Through(q)'
      BY <2>8, <2>5, <2>6
    <3>. QED  BY <2>3, <2>8, <3>2, <3>3 DEF Kin
  <2>9. CASE Body[i].scope \notin Workspaces /\ Body[q].by = "token"
    <3>1. stage'[q] = "post" \/ answer'[q] = "error"
      BY <2>1, <2>2, <2>3, <2>4, <2>9 DEF Settle, Goto, Answer, TypesInv
    <3>. QED  BY <2>3, <2>9, <3>1 DEF Kin
  <2>. QED  BY <2>4, <2>7, <2>8, <2>9
<1>. QED  BY <1>1, <1>2

LEMMA AcceptedFollows ==
  ASSUME TypesInv, WorkInv, AuthorInv, AcceptedInv
  PROVE  AcceptanceIsWhole
<1>2. ASSUME NEW m \in members, m.invite # None, invites[m.invite] = "PENDING"
      PROVE  Busy(m.by) \/ answer[m.by] = "error"
  BY <1>2 DEF AuthorInv, Settled, Busy
<1>. QED  BY <1>2 DEF AcceptedInv, Kin, Made, AcceptanceIsWhole

------------------------------------------------------------------------------
(* The theorems.                                                           *)

WholeInv ==
  /\ TypesInv /\ WorkInv /\ AuthorInv /\ PastInv /\ FoundInv
  /\ OnlyRacesDuplicate /\ AnswerInv

LEMMA WholeStep ==
  ASSUME TenancyInv, WholeInv, [TenancyNext]_tvars
  PROVE  WholeInv' /\ Steady
<1>1. Steady
  BY StepsSteady DEF WholeInv, TypesInv
<1>. QED
  BY <1>1, TypesStep, WorkStep, AuthorStep, PastStep, FoundStep, DuplicatesStep,
     AnswerInvStep DEF WholeInv

LEMMA WholeInvariant == TenancySpec => [](TenancyInv /\ WholeInv)
<1>1. Init => WholeInv
  BY TypesInit, WorkInit, PastInit, DuplicatesInit, AnswerInit DEF WholeInv
<1>2. TenancyInv /\ WholeInv /\ [TenancyNext]_tvars => WholeInv'
  BY WholeStep
<1>. QED  BY <1>1, <1>2, TenancyInvariant, PTL DEF TenancySpec

\* Types, and what the stages go with: an answer is what makes a request done,
\* a membership names an organization that is there, and a workspace belongs to
\* one or to none.
THEOREM TypeCorrect == TenancySpec => []TypeOK
<1>1. TenancyInv /\ WholeInv => TypeOK
  BY DEF TenancyInv, RowsInv, WholeInv, TypesInv, PastInv, TypeOK, Letters
<1>. QED  BY <1>1, WholeInvariant, PTL

\* "ok" says that everything has happened, whatever the other requests of
\* either service do meanwhile and afterwards, and a refusal that nothing has:
\* no handler leaves a row behind and then turns its caller away.
THEOREM AnswersAreKept == TenancySpec => []AnswersHold
<1>1. TenancyInv /\ WholeInv => AnswersHold
  BY AnswersFollow DEF WholeInv
<1>. QED  BY <1>1, WholeInvariant, PTL

\* The lookups before the inserts keep out every duplicate that two requests
\* one after the other could make.  Where duplicates are, their authors
\* overlapped.
THEOREM DuplicatesAreRaces == TenancySpec => []OnlyRacesDuplicate
<1>1. WholeInv => OnlyRacesDuplicate
  BY DEF WholeInv
<1>. QED  BY <1>1, WholeInvariant, PTL

\* An ACCEPTED invitation was accepted under the address it was sent to, and
\* whoever did so is a member, or his request is still to tell the tenant
\* service or gave up; and a membership leaves its invitation pending only while
\* its author is at work, or failed.  Whose address it is, is nobody's concern:
\* the requests' bodies are any.
THEOREM AcceptancesAreWhole == TenancySpec => []AcceptanceIsWhole
<1>1. ASSUME Init PROVE AcceptedInv
  <2>1. \A i \in Requests : invites[i] \in {"PENDING", None}
    BY <1>1 DEF Init
  <2>2. None # "ACCEPTED"
    BY ConstantsOK DEF Statuses
  <2>. QED  BY <2>1, <2>2 DEF AcceptedInv
<1>2. TenancyInv /\ WholeInv /\ AcceptedInv /\ [TenancyNext]_tvars => AcceptedInv'
  BY AcceptedStep, WholeStep DEF WholeInv
<1>3. WholeInv /\ AcceptedInv => AcceptanceIsWhole
  BY AcceptedFollows DEF WholeInv
<1>. QED  BY <1>1, <1>2, <1>3, WholeInvariant, PTL DEF TenancySpec
==============================================================================
