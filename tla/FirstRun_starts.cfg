SPECIFICATION FairSpec
CONSTANTS
  serve = serve
  admin = admin
  one = one
  c1 = c1
  Procs = {serve, admin}
  Calls = {c1}
  Forms = {one}
  Slug <- MCSlug
  Email <- MCSlug
  Makers = {serve, admin}
  Operator = operator
  Nobody = nobody
PROPERTY StartsUnlessFilesKeepItDown
