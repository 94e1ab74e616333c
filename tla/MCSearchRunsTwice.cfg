\* Two workers, as the server starts by default, and nothing fails.
SPECIFICATION Spec
CONSTANTS
  acme = acme
  s1 = s1
  s2 = s2
  w1 = w1
  w2 = w2
  None = None
  Orgs <- MCOrgs
  Searches = {s1}
  Workers = {w1, w2}
  OrgOf <- MCOrgOf
  Mode <- MCMode
  Matches <- MCMatches
  MaxResults <- MCNoMaxResults
  HardLimit = 3
  MaxStructuredCredits = 2
  Funds = 4
  MaxFaults = 0
PROPERTIES
  SettledIsFinal
