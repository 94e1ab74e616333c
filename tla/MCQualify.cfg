\* Four requests over two connections and one slot; the balance of acme covers two of
\* its three requests; one rate limit is tried again.
SPECIFICATION FairSpec
CONSTANTS
  acme = acme
  beta = beta
  q1 = q1
  q2 = q2
  q3 = q3
  k1 = k1
  shop = shop
  ghost = ghost
  None = None
  Orgs = {acme, beta}
  Requests = {q1, q2, q3, k1}
  Kind <- MCKind
  OrgOf <- MCOrgOf
  CompanyOf <- MCCompanyOf
  Known = {shop}
  Ledgers <- MCLedgers
  Cost = 10
  Funds = 20
  Slots = 1
  PoolSize = 2
  MaxRetries = 2
INVARIANTS
  TypeOK
  RowsMatchDebits
  ChargeHasAnswer
  LateRequestsAreFree
  StuckOnlyWhenPoolIsHeld
PROPERTIES
  EveryRequestEnds
CHECK_DEADLOCK FALSE
