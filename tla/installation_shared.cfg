SPECIFICATION SharedSpec
CONSTANTS
    None = None
    Nothing = "nothing"
    Resources <- SharedResources
    Claims <- SharedClaims
    Site <- SharedSite
    Contents <- SharedContents
    Installs = {"team", "tools"}
    Bundle <- SharedBundle
    Generations = {"team1", "tools1", "tools2"}
    Rendering <- SharedRendering
    Body <- SharedBody
    Needs <- SharedNeeds
    Stable <- SharedStable
    Procs = {p, q}
    Kinds = {"apply", "sync"}
    Policies = {"takeover"}
    Replaces = {FALSE}
    Found = {"nothing"}
    MaxFaults = 1
    MaxEdits = 0
INVARIANTS NoLockCycle
PROPERTIES OwnersOnly
SYMMETRY ProcSymmetry
