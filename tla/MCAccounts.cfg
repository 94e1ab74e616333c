SPECIFICATION Spec
CONSTANTS
  vantaggio = vantaggio
  acme = acme
  beta = beta
  root = root
  ana = ana
  bob = bob
  eve = eve
  i1 = i1
  p1 = p1
  p2 = p2
  None = None
  Orgs = {vantaggio, acme, beta}
  Home = vantaggio
  Emails = {root, ana, bob, eve}
  Root = root
  Staff = {ana, bob}
  Employer <- MCEmployer
  Invites = {i1}
  Procs = {p1, p2}
  MaxTokens = 3
  MaxStarts = 4
  MaxFaults = 1
  Visited = {acme}
SYMMETRY Symmetry
INVARIANTS
  TypeOK
  RotationKeepsOneToken
  LogoutEndsSessions
  InvitationsMatchUsers
  RemovalsAreLogged
CHECK_DEADLOCK FALSE
