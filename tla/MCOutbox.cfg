\* Two alerts on one channel that may be disabled, a fault, a crash; time does
\* not end.
CONSTANTS
    Channel = {"webhook"}
    MaxAttempts = 2
    BatchSize = 2
    SendTimeout = 1
    TaskLimit = 2
    Retention = 0
    MaxAlerts = 2
    MaxEdits = 1
    MaxFaults = 1
    MaxCrashes = 1
    Now = 4
    MaxCount = 2
SPECIFICATION FairSpec
INVARIANTS TypeOK NothingDropped DuplicatesExplained
PROPERTIES MailboxImplemented DisabledSoonSilent EventuallySettled
