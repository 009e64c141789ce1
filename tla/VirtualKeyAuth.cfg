CONSTANTS
  Nodes = {n1}
  Requests = {r1, r2}
  Prefixes = {k1}
  good = good
  twin = twin
  bad = bad
  Secrets = {good, twin, bad}
  IssuedSecret <- MCIssuedSecret
  Hash <- MCHash
  CacheTTL = 2
  NegTTL = 2
  MaxVerify = 1
  NoKey = NoKey
SPECIFICATION FairSpec
INVARIANTS
  RevocationLag
  DenialLag
PROPERTIES
  OnlyVouchedSecrets
  GateSpec
  EveryCallAnswered
  RevocationTakesEffect
