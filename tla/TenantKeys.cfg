SPECIFICATION Spec
CONSTANTS
  acme = acme
  globex = globex
  va = va
  vg = vg
  openai = openai
  google = google
  r1 = r1
  r2 = r2
  Tenants = {acme, globex}
  Providers = {openai, google}
  Prefixes = {va, vg}
  Holder <- MCHolder
  AllowedProviders <- MCAllowed
  Requests = {r1}
  BypassRLS = TRUE
  MaxKeys = 3
  Nobody = nobody
INVARIANTS
  UpstreamKeyIsOwn
  RotationIsRespected
