\* Two requests at a time, cut off by restarts.
CONSTANTS
  s1 = s1  s2 = s2  ca1 = ca1  ca2 = ca2  p1 = p1  p2 = p2  w = w
  MaxCertId = 2
  MaxMaterial = 2
  Subjects = {s1, s2}
  CAs = {ca1}
  Null = Null
  Clients = {p1, p2}
  Watcher = w
  Untils = {1}
  Ops = {"create", "import", "update", "delete", "restart"}
  Choices = {"notify"}
  MaxVersion = 3
SPECIFICATION Spec
SYMMETRY Symmetry
VIEW OverlapView
INVARIANTS SerialColumnTruthful KnownAfterRotation SubjectMatches ImportedLeavesDistinct
