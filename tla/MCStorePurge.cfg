\* Two requests, a purge of a superseded version and a revocation, at the same time.
CONSTANTS
  s1 = s1  s2 = s2  ca1 = ca1  ca2 = ca2  p1 = p1  p2 = p2  w = w
  MaxCertId = 1
  MaxMaterial = 2
  Subjects = {s1}
  CAs = {ca1}
  Null = Null
  Clients = {p1, p2}
  Watcher = w
  Untils = {1}
  Ops = {"create", "revoke", "purge", "watch"}
  Choices = {"renew"}
  MaxVersion = 2
SPECIFICATION Spec
SYMMETRY Symmetry
PROPERTY RevokedHistoryKept
