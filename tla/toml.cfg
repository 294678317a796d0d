SPECIFICATION Spec
CONSTANTS
    Refused = Refused
    None = None
    Notes = {"# n", "# m"}
    Lines <- MCLines
    NamedBy <- MCNames
    Paths <- MCPaths
    Arrays <- MCArrays
    Indexes = {0, 1}
    Values <- MCValues
    MaxSize = 4
    MaxText = 30
    NewNotes = {"# n"}
    Opening <- MCOpen
    RootValue <- MCNativeRoot
    ValueThere <- MCNative
    SyntaxThere <- MCSyntax
    OwnedThere <- MCOwnedSyntax
    EmptyThere <- MCEmptySyntax
    LayoutThere <- MCLayout
    PrefixThere <- MCPrefix
    PutThere <- MCPut
    InsertThere <- MCInsert
    MoveThere <- MCRelocate
    DeleteThere <- MCDelete
INVARIANTS OthersKept NotesKept Returned
PROPERTY OpensAsWritten
CHECK_DEADLOCK FALSE
