\* Two channels that do not answer, no faults and no crashes.
CONSTANTS
    Channel = {"telegram", "webhook"}
    MaxAttempts = 2
    BatchSize = 3
    SendTimeout = 1
    TaskLimit = 3
    Retention = 1
    MaxAlerts = 2
    MaxEdits = 0
    MaxFaults = 0
    MaxCrashes = 0
    Now = 8
    MaxCount = 3
SPECIFICATION Spec
INVARIANTS AtMostMaxAttempts
