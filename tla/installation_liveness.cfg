SPECIFICATION LiveSpec
CONSTANTS
    None = None
    Nothing = "nothing"
    Resources <- MCResources
    Claims <- MCClaims
    Site <- MCSite
    Contents <- MCContents
    Installs = {i}
    Bundle <- MCBundle
    Generations = {"g1", "g2"}
    Rendering <- MCRendering
    Body <- MCBody
    Needs <- MCNeeds
    Stable <- MCStable
    Procs = {p}
    Kinds = {"sync"}
    Policies = {"takeover"}
    Replaces = {FALSE}
    Found = {"nothing"}
    MaxFaults = 2
    MaxEdits = 0
PROPERTIES Settles
