SPECIFICATION StoreSpec
CONSTANTS
  r1 = r1
  r2 = r2
  r3 = r3
  o1 = o1
  o2 = o2
  a = a
  b = b
  e1 = e1
  e2 = e2
  t1 = t1
  t2 = t2
  d1 = d1
  d2 = d2
  g1 = g1
  u1 = u1
  u2 = u2
  NoOrg = NoOrg
  NoUrl = NoUrl
  NoExt = NoExt
  NoNum = NoNum
  NoClose = NoClose
  Keep = Keep
  NoItem = NoItem
  Runs <- MCRuns
  Loop <- MCLoop
  SourceOf <- MCSourceOf
  OrgOf <- MCOrgOf
  Orgs <- MCOrgs
  Page <- MCPageDates
  Tables <- MCTables
  Within <- MCWithin
  Dying <- MCDying
  MaxRows = 6
  MarksPerRow = 1
  Marking <- MCMarking
INVARIANT NoTwinsAcrossRuns
CHECK_DEADLOCK FALSE
