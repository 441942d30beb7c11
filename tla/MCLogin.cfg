\* Three addresses, four tokens; both tables can be filled.
CONSTANTS
    Ip = {a, b, c}
    Token = {s1, s2, s3, s4}
    MaxTries = 3
    MaxAttempts = 2
    MaxSessions = 2
    Window = 3
    Life = 4
    MaxVerify = 1
SPECIFICATION FairSpec
INVARIANTS TypeOK TablesBounded GuessesLimited SessionExact
PROPERTIES LockoutEnds
