\* SEARCH_WORKERS=1: one worker, two searches of one organisation that cannot pay both.
SPECIFICATION FairSpec
CONSTANTS
  acme = acme
  s1 = s1
  s2 = s2
  w1 = w1
  w2 = w2
  None = None
  Orgs <- MCOrgs
  Searches = {s1, s2}
  Workers = {w1}
  OrgOf <- MCOrgOf
  Mode <- MCMode
  Matches <- MCMatches
  MaxResults <- MCMaxResults
  HardLimit = 3
  MaxStructuredCredits = 1
  Funds = 2
  MaxFaults = 1
INVARIANTS
  TypeOK
  RunWithinEstimate
  FaultFreeAccounts
  LeadDeliveredOnce
PROPERTIES
  SettledIsFinal
