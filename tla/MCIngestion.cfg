\* Batches of two rows; two crashes or failed reads or writes; two attempts at the embedding service.
SPECIFICATION FairSpec
CONSTANTS
  b1 = b1
  b2 = b2
  c1 = c1
  c2 = c2
  x = x
  y = y
  old = old
  new = new
  ana = ana
  bob = bob
  Blank = Blank
  None = None
  Kind <- MCKind
  Rows <- MCRows
  Late = {5}
  Bases = {b1, b2}
  Cnpjs = {c1, c2}
  BatchSize = 2
  EmbedBatch = 2
  MaxAttempts = 2
  MaxFaults = 2
INVARIANTS
  TypeOK
  ResumedImportIsComplete
  NothingIsMissing
  PartnersWithinFaults
PROPERTIES
  EveryImportEnds
