SPECIFICATION Spec
CONSTANTS
    ca1 = ca1
    ca2 = ca2
    f1 = f1
    CAs <- MCCAs
    Foreign <- MCForeign
    MaxFaults = 3
    MaxChanges = 3
INVARIANTS
    Tracked
    AppliesTheBundle
PROPERTY
    Converges
