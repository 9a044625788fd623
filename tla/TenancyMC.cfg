SPECIFICATION FairSpec
CONSTANTS
  ann = ann
  bob = bob
  AnnMail = AnnMail
  annmail = annmail
  bobmail = bobmail
  o1 = o1
  o2 = o2
  w1 = w1
  w2 = w2
  oldW = oldW
  oldO = oldO
  invW = invW
  invW2 = invW2
  invO = invO
  invCase = invCase
  listW = listW
  listO = listO
  byCode = byCode
  byCode2 = byCode2
  byToken = byToken
  orgCode = orgCode
  orgCode2 = orgCode2
  orgToken = orgToken
  revW = revW
  revO = revO
  lookW = lookW
  found = found
  space = space
  ctx = ctx
  reg = reg
  login = login
  None = None
  Users = {ann, bob}
  Emails = {annmail, bobmail, AnnMail}
  Orgs = {o1, o2}
  Workspaces = {w1, w2}
  Standing = {oldW, oldO}
  Requests = {oldW, oldO, invW, invW2, invO, invCase, listW, listO, byCode, byCode2, byToken, orgCode, orgCode2, orgToken, revW, revO, lookW, found, space, ctx, reg, login}
  Body <- MCBody
  Lower <- MCLower
  Default <- MCDefault
  Founder <- MCFounder
  Batches <- MCBatches
  MaxFaults = 1
INVARIANT TypeOK AcceptanceIsWhole AnswersHold OnlyRacesDuplicate JoinsWereOpen
PROPERTY SettledStays RequestsEnd
CHECK_DEADLOCK FALSE
