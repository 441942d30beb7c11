\* One node: threshold and hold edits, reboots, silences, a crash, and a commit
\* whose answer is lost.
CONSTANTS
    Sec = 1
    NoRules = NoRules
    NoSample = NoSample
    NoCPU = NoCPU
    Node = {n1}
    Healthy = {n1}
    RuleSet <- HoldRules
    DefaultRules <- Loose
    Usage <- KnownUsage
    Boot = {1, 2}
    Skew = {0}
    Outcomes = {"ok", "lost"}
    Retention = 10
    ClockStep = {2, 7}
    MaxClock = 10
    MaxSamples = 4
    MaxEdits = 2
    MaxCrashes = 1
    MaxLost = 1
    ListLimit = 2
SPECIFICATION Spec
INVARIANTS AckDurable
PROPERTIES HoldUnbroken ClearedByEvidence
