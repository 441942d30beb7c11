\* Writes succeed, fail, or commit without an answer; two crashes.
CONSTANTS
    Node = {n1, n2}
    Token = {t1, t2, t3, t4}
    None = None
    Outcomes = {"ok", "error", "lost"}
    MaxCrashes = 2
    MaxLost = 2
SYMMETRY Symmetry
SPECIFICATION Spec
INVARIANTS TypeOK IndexExact RevokedIsRefused NoOrphanSamples IssuedIsAccepted
CHECK_DEADLOCK FALSE
