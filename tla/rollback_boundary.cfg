SPECIFICATION BSpec
CONSTANTS
    Procs = {p1}
    Tx = {t1}
    None = None
    Nodes = 2
    MaxEdits = 0
INVARIANTS SkipsOnlyAfterCheck
