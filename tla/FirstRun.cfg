SPECIFICATION Spec
CONSTANTS
  serve = serve
  admin = admin
  one = one
  two = two
  c1 = c1
  c2 = c2
  Procs = {serve, admin}
  Calls = {c1, c2}
  Forms = {one, two}
  Slug <- MCSlug
  Email <- MCSlug
  Makers = {serve}
  Operator = operator
  Nobody = nobody
INVARIANTS
  DataStaysReadable
  SessionsStayValid
PROPERTY SetupCloses
