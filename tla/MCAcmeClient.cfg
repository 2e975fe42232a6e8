\* Two requests on one certificate, with kills and a CA that fails.
CONSTANTS
  p1 = p1  p2 = p2  d1 = d1  d2 = d2
  Null = Null
  Clients = {p1, p2}
  Directories = {d1, d2}
  MaxOrder = 2
  MaxCert = 1
  MaxRemote = 2
  MaxAccount = 2
  MaxUntil = 2
SPECIFICATION Spec
SYMMETRY Symmetry
CONSTRAINT Focus
INVARIANTS ValidMeansStored AccountMatches
PROPERTIES ValidStays 
