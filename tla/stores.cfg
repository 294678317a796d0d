SPECIFICATION PartsSpec
CONSTANTS
    outer = outer
    middle = middle
    inner = inner
    Paths = {outer, middle, inner}
    Under <- Chain
    Procs = {p1, p2}
    None = None
    MaxChanges = 2
    Callers = {c1, c2}
    Keys = {k1, k2}
    Values = {v1, v2}
    Absent = Absent
    Nobody = Nobody
    Threads = {t1, t2, t3, t4}
    Names = {a, b}
    NoName = NoName
SYMMETRY Symmetry
INVARIANTS NoConflict Exclusive NotStranded
PROPERTY ImplementsRegister
