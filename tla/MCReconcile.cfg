\* Two certificates of one name, replaced and revoked under a pass.
CONSTANTS
  Null = Null
  CertIds = {1, 2}
  Untils = {1, 2}
  Layout <- SplitLayout
  MaxMat = 3
  MaxFail = 2
SPECIFICATION Spec
INVARIANTS DeployedIsCurrent ServiceIsCurrent LoadedTogether
PROPERTY Settles
