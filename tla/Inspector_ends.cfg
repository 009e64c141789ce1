CONSTANTS
  acme = acme
  draft = draft
  globex = globex
  bare = bare
  off = off
  typo = typo
  empty = empty
  credential = credential
  vague = vague
  s1 = s1
  s2 = s2
  Listed = 2
  Calls = {c1, c2}
  Policies = {acme, globex, bare, off, typo}
  Scopes = {acme, globex, bare, off, typo}
  Texts = {empty, credential, vague}
  Shapes = {s1}
  Addresses = {a1}
  Requests <- MCEveryKind
  Policy <- MCPolicy
  Text <- MCText
  JudgeSays <- MCJudgeSays
  Empty = empty
  MaxInflight = 1
  MaxCompiled = 0
  Temperature = 0
  None = None
SPECIFICATION FairSpec
INVARIANT PermitsBalance
PROPERTY EveryInspectionEnds
