\* Two browsers, two accounts, deletions and ids that come back.
CONSTANTS
  p1 = p1  p2 = p2  e1 = e1  e2 = e2  x1 = x1  x0 = x0  o1 = o1  o2 = o2  c1 = c1
  Null = Null
  Blank = x0
  MaxUser = 2
  MaxService = 1
  MaxCa = 1
  Emails = {e1, e2}
  Secrets = {x1, x0}
  Subjects = {o1, o2}
  Certs = {c1}
  Clients = {p1, p2}
SPECIFICATION Spec
SYMMETRY Symmetry
CONSTRAINT Focus
INVARIANTS NoOrphans PasswordSticks ListedIsDownloadable
PROPERTIES SetupOnce LinkedForGood ServicesWithinRights
