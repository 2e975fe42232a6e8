\* Two requests at a time on one account.
CONSTANTS
  p1 = p1  p2 = p2  k1 = k1  k2 = k2
  Null = Null
  MaxAccount = 1
  MaxOrder = 1
  MaxCert = 1
  Idents = 2
  Keys = {k1, k2}
  Clients = {p1, p2}
  RateLimit = 1
SPECIFICATION Spec
INVARIANTS IssuedAuthorised
PROPERTY AccountFinal
SYMMETRY Interchangeable
