\* Internal, imported and ACME certificates under one id, beside the watcher.
CONSTANTS
  s1 = s1  s2 = s2  ca1 = ca1  ca2 = ca2  p1 = p1  p2 = p2  w = w
  MaxCertId = 1
  MaxMaterial = 3
  Subjects = {s1}
  CAs = {ca1, ca2}
  Null = Null
  Clients = {p1}
  Watcher = w
  Untils = {1, 2}
  Ops = {"create", "acme", "provider", "import", "update", "delete", "watch"}
  Choices = {"renew"}
  MaxVersion = 2
SPECIFICATION Spec
SYMMETRY Symmetry
VIEW AcmeView
INVARIANTS CaTruthful PublicMaterialKept
