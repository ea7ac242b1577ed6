SPECIFICATION Spec
CONSTANTS
  rosa = rosa  r1 = r1  p1 = p1  c1 = c1
  Users = {rosa}
  RoleIds = {r1}
  PermIds = {p1}
  Codes = {c1}
  CodeOf <- MCCodeOf
  TokenRole <- MCTokenRole
  SystemRoles = {r1}
  SeedPerms = {p1}
  SeedGrants <- MCSeedGrants
  SeedAssignments <- MCSeedAssignments
  Loaders = {l1}
  Admins = {a1}
  TTL = 2
  PartialFill = FALSE
PROPERTY FallbackOnlyUnassigned
