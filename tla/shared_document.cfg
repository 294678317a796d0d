SPECIFICATION Spec
CONSTANTS
    Formats = {"text", "json", "container", "whole"}
    Bundles = {"x", "y"}
    Wishes <- Versions
    CallModes <- Calls
    Documents <- Files
    MaxEdits = 1
    EditWith <- Edit
    Observed <- Holds
    Intact <- AsOwned
    Foreign <- Others
    Readable <- CanRead
    Restores <- AsBefore
    UserDocuments <- Typed
    Portable <- Names
    Flyrail <- FlyrailSections
    Retired = Retired
    Refused = Refused
    None = None
    Unknown = Unknown
INVARIANTS Restored CanLeave
PROPERTIES OthersKept PublishedIsThere ForeignKept
CHECK_DEADLOCK FALSE
