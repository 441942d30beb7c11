SPECIFICATION Spec
CONSTANTS
    n1 = n1
    n2 = n2
    Node = {n1, n2}
    None = None
    Overridden = {n1}
    StartNodes <- MCStart
    MaxActs = 3
    MaxElsewhere = 1
INVARIANT
    OverridesStartSaved
