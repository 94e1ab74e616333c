\* Batches of two of up to four transactions, two of them for one search, which may run
\* twice; two ETL runs that overlap, and a statement that fails.
SPECIFICATION FairSpec
CONSTANTS
  acme = acme
  beta = beta
  ana = ana
  root = root
  buy = buy
  t1 = t1
  t2 = t2
  t3 = t3
  s1 = s1
  s2 = s2
  x1 = x1
  x2 = x2
  Null = Null
  Orgs = {acme, beta}
  FirstOrgs = {acme}
  Users = {ana, root}
  Txs = {buy, t1, t2, t3}
  Searches = {s1}
  Exports = {x1, x2}
  Home <- MCHome
  Author <- MCAuthor
  OrgOf <- MCOrgOf
  Amount <- MCAmount
  Ref <- MCRef
  Day <- MCDay
  Runs <- MCRuns
  Hourly <- MCHourly
  BatchSize = 2
  MaxCount = 1
  MaxRuns = 2
  MaxFaults = 1
INVARIANTS
  TypeOK
  CountedOnce
  DashboardsMatchLedger
  ReportsCoverSpending
PROPERTIES
  EverythingIsCounted
CHECK_DEADLOCK FALSE
