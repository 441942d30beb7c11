SPECIFICATION FairSpec
CONSTANTS
    n1 = n1
    n2 = n2
    Node = {n1, n2}
    None = None
    Overridden = {}
    StartNodes <- MCStart
    MaxActs = 3
    MaxElsewhere = 1
INVARIANTS
    TypeOK
    AdminOnly
    ChartOfSelected
    SelectedIsListed
PROPERTIES
    NothingFromBefore
    Converges
