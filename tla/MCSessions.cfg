\* A browser with two requests in parallel, kills, and the move to an encrypted database.
CONSTANTS
  p1 = p1  p2 = p2  r1 = r1
  Null = Null
  MaxKey = 2
  Rows = {r1}
  TTL = 6  Threshold = 4  Grace = 3  Leeway = 1  Latency = 1
  MaxTime = 9
  MaxToken = 3
  Clients = {p1, p2}
SPECIFICATION Spec
SYMMETRY Symmetry
CONSTRAINT Focus
INVARIANTS DataKept KeyStable ReplacedTokenDies LogoutFinal ServiceRevocationBites
PROPERTY ActiveKept
