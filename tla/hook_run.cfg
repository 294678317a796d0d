SPECIFICATION Spec
CONSTANTS
    KnownHosts <- HostsOfAll
    StreamHosts <- Streams
    Commands <- Rendered
    Calls <- CallsOf
    Written <- Replies
    StdinDeadline = 1
    EventDeadline = 2
    MaxLag = 1
    None = None
    ReadCall <- Read
    FitForWire <- Fits
    InputOf <- InputIn
    WithInput <- Replaced
    Accept <- Accepted
    TooMuch <- ContextsOver
    Overflows <- TooLong
    ToolOf <- ToolIn
    Answering <- Answers
    NothingDone <- Silent
    SeenBy <- Sees
    NothingChanged <- Unchanged
    SameToTheLibrary <- Same
INVARIANTS EffectsReachTheHost NothingLeftRunning ProtocolAgrees
PROPERTIES Answered
CHECK_DEADLOCK FALSE
