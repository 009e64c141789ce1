CONSTANTS
  acme = acme
  draft = draft
  globex = globex
  bare = bare
  off = off
  typo = typo
  empty = empty
  credential = credential
  vague = vague
  s1 = s1
  s2 = s2
  Listed = 2
  Calls = {c1, c2}
  Policies = {acme, draft, globex}
  Scopes = {acme, globex}
  Texts = {empty, credential, vague}
  Shapes = {s1, s2}
  Addresses = {a1, a2}
  Requests <- MCTelling
  Policy <- MCPolicy
  Text <- MCText
  JudgeSays <- MCJudgeSays
  Empty = empty
  MaxInflight = 2
  MaxCompiled = 1
  Temperature = 0
  None = None
SPECIFICATION Spec
SYMMETRY Symmetry
INVARIANTS
  TypeOK
  BuiltinBlockIsFinal
  NoAllowWithoutJudge
  BlindBlockNotCached
  AnswerIsInScope
