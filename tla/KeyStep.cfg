CONSTANTS
  ann = ann
  bob = bob
  Emails = {ann, bob}
  Admin = Admin
  Invalid = Invalid
  MaxKeys = 3
SPECIFICATION FairSpec
INVARIANTS
  OneKeyPerTeammate
  NobodyStranded
PROPERTIES
  OneTimeKeySpec
  EveryClickEnds
