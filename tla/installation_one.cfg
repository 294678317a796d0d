SPECIFICATION OneSpec
CONSTANTS
    None = None
    Nothing = "nothing"
    Resources <- OneResources
    Claims <- OneClaims
    Site <- OneSite
    Contents <- MCContents
    Installs = {"team", "solo"}
    Bundle <- OneBundle
    Generations = {"g1", "g2", "s1", "s2"}
    Rendering <- OneRendering
    Body <- OneBody
    Needs <- OneNeeds
    Stable <- OneStable
    Procs = {p}
    Kinds = {"apply", "sync", "recover"}
    Policies = {"conflict", "adopt", "takeover"}
    Replaces = {FALSE, TRUE}
    Found = {"nothing", "user"}
    MaxFaults = 2
    MaxEdits = 1
INVARIANTS Discoverable ReportsAreTrue ReferencesHold
PROPERTIES BaselinesKept EditsKept CompletesCurrent
