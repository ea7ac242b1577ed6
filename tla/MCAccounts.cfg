CONSTANTS
  Handlers = {h1, h2}
  ana1 = ana1
  ana2 = ana2
  gAna = gAna
  base = base
  nothing = nothing
  BlankId = BlankId
  NoEmail = NoEmail
  Emails = {ana1, ana2, NoEmail}
  GoogleIds = {gAna, BlankId}
  NoGoogle = NoGoogle
  EmailOwner <- MCEmailOwner
  LocalPart <- MCLocalPart
  Crowds <- MCCrowds
SPECIFICATION FairSpec
INVARIANTS
  TypeOK
  SameAccount
  ConflictOnlyWhenOvertaken
PROPERTIES
  RoleWithAccount
  ActsAtOnce
  EveryRequestEnds
