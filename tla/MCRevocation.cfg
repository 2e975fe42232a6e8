\* Two requests, beside renewals, deletions and restarts at every call.
CONSTANTS
  s1 = s1  p1 = p1  p2 = p2
  MaxCertId = 2
  MaxMaterial = 2
  Subjects = {s1}
  AnySubject = s1
  CAs <- MCCAs
  Null = Null
  Clients = {p1, p2}
  MaxNumber = 2
  MaxGen = 1
SPECIFICATION Spec
SYMMETRY Alike
VIEW View
INVARIANTS CrlSound PublishedStays
