\* Two exports, one of a lead that cannot be found; the balance covers the leads but
\* not all their retries; one call fails or the process ends.
SPECIFICATION FairSpec
CONSTANTS
  acme = acme
  e1 = e1
  e2 = e2
  None = None
  Orgs <- MCOrgs
  Exports = {e1, e2}
  OrgOf <- MCOrgOf
  CNPJs <- MCCNPJs
  Known <- MCKnown
  MaxAttempts = 2
  Funds = 3
  MaxFaults = 1
INVARIANTS
  TypeOK
  ChargedOnlyWhenDelivered
  DoneIsComplete
  RunsAreBounded
PROPERTIES
  EveryAttemptEnds
CHECK_DEADLOCK FALSE
