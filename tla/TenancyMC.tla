------------------------------ MODULE TenancyMC ------------------------------
EXTENDS Tenancy, FiniteSetsExt
CONSTANTS ann, bob, AnnMail, annmail, bobmail, o1, o2, w1, w2,
  oldW, oldO,             \* standing invitations of bob
  invW, invW2, invO, invCase, listW, listO, byCode, byCode2, byToken, orgCode, orgCode2, orgToken,
  revW, revO, lookW, found, space, ctx, reg, login

Ask(op, who, mail, scope, org, inv, by, r) ==
  [op |-> op, who |-> who, email |-> mail, scope |-> scope, org |-> org,
   invite |-> inv, by |-> by, role |-> r, grant |-> "infra_architect"]

\* byCode2 and orgCode2 are accepted by ann, in bob's name.
MCBody ==
  [q \in Requests |->
     CASE q = oldW -> Ask("invite", ann, bobmail, w1, None, None, "code", None)
       [] q = oldO -> Ask("invite", ann, bobmail, o1, None, None, "code", "org_owner")
       [] q = invW -> Ask("invite", ann, bobmail, w1, None, None, "code", None)
       [] q = invW2 -> Ask("invite", bob, bobmail, w2, None, None, "code", None)
       [] q = invO -> Ask("invite", ann, bobmail, o1, None, None, "code", "org_owner")
       [] q = invCase -> Ask("invite", ann, annmail, w1, None, None, "code", "workspace_owner")
       [] q = listW -> Ask("list", ann, annmail, w1, None, None, "code", None)
       [] q = listO -> Ask("list", bob, bobmail, o1, None, None, "code", None)
       [] q = byCode -> Ask("accept", bob, bobmail, w1, None, oldW, "code", None)
       [] q = byCode2 -> Ask("accept", ann, bobmail, w1, None, oldW, "code", None)
       [] q = byToken -> Ask("accept", bob, bobmail, w1, None, oldW, "token", None)
       [] q = orgCode -> Ask("accept", bob, bobmail, o1, None, oldO, "code", None)
       [] q = orgCode2 -> Ask("accept", ann, bobmail, o1, None, oldO, "code", None)
       [] q = orgToken -> Ask("accept", bob, bobmail, o1, None, oldO, "token", None)
       [] q = revW -> Ask("revoke", ann, annmail, w1, None, oldW, "code", None)
       [] q = revO -> Ask("revoke", ann, annmail, o1, None, oldO, "code", "org_owner")
       [] q = lookW -> Ask("look", bob, bobmail, w1, None, oldW, "token", None)
       [] q = found -> Ask("org", bob, bobmail, o2, None, None, "code", None)
       [] q = space -> Ask("workspace", ann, annmail, w2, o2, None, "code", None)
       [] q = ctx -> Ask("context", bob, bobmail, w1, o1, None, "code", None)
       [] q = reg -> Ask("register", bob, bobmail, w1, None, None, "code", None)
       [] q = login -> Ask("login", bob, bobmail, w1, None, None, "code", None)]

MCLower == [e \in Emails |-> IF e = bobmail THEN bob ELSE ann]
MCDefault == [o \in Orgs |-> IF o = o1 THEN w1 ELSE w2]
MCFounder == [o \in Orgs |-> IF o = o1 THEN ann ELSE None]

\* The same invitations accepted twice, and meddled with in the meantime.
Triples ==
  {{byCode, byCode2, revW}, {byCode, byToken, revW}, {byCode, byToken, lookW},
   {byCode, invW, revW}, {byToken, listW, invW}, {orgCode, orgCode2, login},
   {orgToken, listO, login}, {orgCode, orgToken, revO}, {orgCode, revO, ctx}}

\* Whatever has to do with one workspace, one organization, or the tenant
\* service alone.
Pairs ==
  UNION {kSubset(2, S) :
    S \in {{invW, invCase, listW, byCode, byCode2, byToken, revW, lookW},
           {invO, listO, orgCode, orgCode2, orgToken, revO, ctx, login},
           {invW2, found, space, reg, ctx, login}}}

MCBatches == Pairs \union Triples

Spec == TenancySpec
FairSpec == TenancySpec /\ RequestsRun
==============================================================================
