SPECIFICATION ApartSpec
CONSTANTS
    None = None
    Nothing = "nothing"
    Resources <- ApartResources
    Claims <- ApartClaims
    Site <- ApartSite
    Contents <- ApartContents
    Installs = {"claude", "codex"}
    Bundle <- ApartBundle
    Generations = {"claude1", "codex1"}
    Rendering <- ApartRendering
    Body <- ApartBody
    Needs <- ApartNeeds
    Stable <- ApartStable
    Procs = {p}
    Kinds = {"sync"}
    Policies = {"conflict"}
    Replaces = {FALSE}
    Found = {"nothing"}
    MaxFaults = 0
    MaxEdits = 0
INVARIANTS ReferencesHold
