SPECIFICATION FairSpec
CONSTANTS
    RuleSet <- MCRules
    DefaultInterval = 3
    CollectTimeout = 10
    UploadTimeout = 10
    MaxLate = 2
    Horizon = 13
INVARIANTS
    TypeOK
    OfflineExplained
PROPERTY
    IntervalLearned
