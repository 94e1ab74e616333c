\* One worker, one semantic search, one failure.
SPECIFICATION Spec
CONSTANTS
  acme = acme
  s1 = s1
  s2 = s2
  w1 = w1
  w2 = w2
  None = None
  Orgs <- MCOrgs
  Searches = {s2}
  Workers = {w1}
  OrgOf <- MCOrgOf
  Mode <- MCMode
  Matches <- MCMatches
  MaxResults <- MCNoMaxResults
  HardLimit = 3
  MaxStructuredCredits = 2
  Funds = 4
  MaxFaults = 1
INVARIANTS
  DonePaysForLeads
