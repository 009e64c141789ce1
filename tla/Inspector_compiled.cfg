CONSTANTS
  acme = acme
  draft = draft
  globex = globex
  bare = bare
  off = off
  typo = typo
  empty = empty
  credential = credential
  vague = vague
  s1 = s1
  s2 = s2
  Listed = 1
  Calls = {c1, c2}
  Policies = {acme, globex}
  Scopes = {acme, globex}
  Texts = {empty, vague}
  Shapes = {s1}
  Addresses = {a1, a2}
  Requests <- MCTenants
  Policy <- MCPolicy
  Text <- MCText
  JudgeSays <- MCJudgeSays
  Empty = empty
  MaxInflight = 2
  MaxCompiled = 1
  Temperature = 0
  None = None
SPECIFICATION Spec
INVARIANT CategoriesAreOwn
