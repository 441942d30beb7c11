\* Two nodes with full memory and disks, failing writes and passes, two edits,
\* a crash, short retention; the writes of one node need never commit.
CONSTANTS
    Sec = 1
    NoRules = NoRules
    NoSample = NoSample
    NoCPU = NoCPU
    Node = {n1, n2}
    Healthy = {n1}
    RuleSet <- FleetRules
    DefaultRules <- Calm
    Usage <- FullUsage
    Boot = {1}
    Skew = {0}
    Outcomes = {"ok", "error"}
    Retention = 6
    ClockStep = {7}
    MaxClock = 15
    MaxSamples = 1
    MaxEdits = 2
    MaxCrashes = 1
    MaxLost = 0
    ListLimit = 2
SPECIFICATION FairSpec
INVARIANTS TypeOK MemoryAgrees NewestAlertAgrees ActiveAlertsExact
PROPERTIES SilenceIsRaised AlertLogImplemented
