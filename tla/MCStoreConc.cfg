\* Two requests beside the watcher.
CONSTANTS
  s1 = s1  s2 = s2  ca1 = ca1  ca2 = ca2  p1 = p1  p2 = p2  w = w
  MaxCertId = 1
  MaxMaterial = 2
  Subjects = {s1}
  CAs = {ca1}
  Null = Null
  Clients = {p1, p2}
  Watcher = w
  Untils = {1}
  Ops = {"create", "import", "update", "revoke", "delete", "purge", "watch"}
  Choices = {"renew"}
  MaxVersion = 2
SPECIFICATION Spec
SYMMETRY Symmetry
VIEW ConcView
INVARIANTS HistoryBelowCurrent OriginSeparated NoLostNotice
PROPERTY ImplementsLedger
