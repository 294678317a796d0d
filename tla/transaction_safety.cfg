SPECIFICATION MCSpec
CONSTANTS
    Procs = {p1, p2}
    Tx = {t1, t2}
    None = None
    Nodes = 2
    MaxEdits = 2
SYMMETRY Symmetry
PROPERTIES ImplementsAtomic
INVARIANTS DestinationWhole KeptSurvives Discoverable ReportIsTrue
