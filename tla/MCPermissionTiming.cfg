SPECIFICATION TimedSpec
CONSTANTS
  alice = alice  p1 = p1  p2 = p2  c1 = c1  c2 = c2  r1 = r1  l1 = l1  l2 = l2
  Users = {alice}
  RoleIds = {r1}
  PermIds = {p1, p2}
  Codes = {c1, c2}
  CodeOf <- MCCodeOf
  TokenRole <- MCTokenRole
  SystemRoles = {r1}
  SeedPerms = {p1}
  SeedGrants <- MCSeedGrants
  SeedAssignments <- MCSeedAssignments
  Loaders = {l1, l2}
  Admins = {a1}
  TTL = 2
  PartialFill = FALSE
  MaxLoad = 1
INVARIANTS TypeOK CacheStaleness
PROPERTY DecisionsAreRecent
SYMMETRY MCSymmetry
