\* One export of two leads; the CRM refuses one of them once.
SPECIFICATION Spec
CONSTANTS
  acme = acme
  e1 = e1
  e2 = e2
  None = None
  Orgs <- MCOrgs
  Exports = {e1}
  OrgOf <- MCOrgOf
  CNPJs <- MCCNPJs
  Known <- MCKnown
  MaxAttempts = 3
  Funds = 6
  MaxFaults = 0
INVARIANTS
  LeadChargedOnce
CHECK_DEADLOCK FALSE
