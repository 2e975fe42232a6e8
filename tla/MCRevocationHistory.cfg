\* Renewal to another CA, then revocation.
CONSTANTS
  s1 = s1  p1 = p1  p2 = p2
  MaxCertId = 1
  MaxMaterial = 2
  Subjects = {s1}
  AnySubject = s1
  CAs <- MCCAs
  Null = Null
  Clients = {p1}
  MaxNumber = 2
  MaxGen = 1
SPECIFICATION Spec
INVARIANT SupersededSerialsPublished
