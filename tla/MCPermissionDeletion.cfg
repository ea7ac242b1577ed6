SPECIFICATION CauseSpec
CONSTANTS
  sam = sam  r1 = r1  p1 = p1  c1 = c1  a1 = a1  a2 = a2
  Users = {sam}
  RoleIds = {r1}
  PermIds = {p1}
  Codes = {c1}
  CodeOf <- MCCodeOf
  TokenRole <- MCTokenRole
  SystemRoles = {r1}
  SeedPerms = {p1}
  SeedGrants <- MCSeedGrants
  SeedAssignments <- MCSeedAssignments
  Loaders = {l1}
  Admins = {a1, a2}
  TTL = 1
  PartialFill = FALSE
SYMMETRY MCSymmetry
INVARIANT DeletionInvalidates
