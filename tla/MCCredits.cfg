\* Two organisations, two connections: charges of one organisation compete for its
\* row while the other organisation, with or without a row, is served beside it.
SPECIFICATION FairSpec
CONSTANTS
  acme = acme
  borsari = borsari
  c1 = c1
  c2 = c2
  Orgs <- MCOrgs
  Conns <- MCConns
  Prices <- MCPrices
  Purchases <- MCPurchases
  MaxInt = 3
  MaxBought = 4
  None = None
INVARIANTS
  TypeOK
  BalanceNonNegative
  BalanceMatchesLedger
  CheckedBalanceIsCurrent
PROPERTIES
  LedgerSpec
  ChargeEnds
