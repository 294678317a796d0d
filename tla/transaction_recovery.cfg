SPECIFICATION MCFairSpec
CONSTANTS
    Procs = {p1, p2}
    Tx = {t1, t2}
    None = None
    Nodes = 2
    MaxEdits = 0
INVARIANTS NeverRefused
PROPERTIES RecoveryEnds
