SPECIFICATION PartsSpec
CONSTANTS
    None = None
    Unreadable = Unreadable
    Fold <- FoldName
    Forbidden <- UnsafeOnes
    ManifestPath <- ManifestName
    Jobs <- AllJobs
    Blocks <- AllBlocks
    MaxClock = 2
    Manifest <- ReadManifest
    ReadsOf <- NeedsOf
    Build <- BuildFrom
    Unpack <- UnpackFrom
    InMemory <- LoadedAtOnce
    Unportable <- Names
    Portable <- FoldedParts
    Identifiers <- Ids
    Alphabet <- Letters
    NotALine <- NoLines
    TransactionIds <- Transactions
    Digests <- Sums
    Whitespace <- Spaces
    Parsed <- Layouts
    HeaderKeys <- HeaderNames
    HexTexts <- HexWritten
    Payloads <- Canonical
    StoredRecords <- Kept
    MaxEdits = 1
    Encoded <- Write
    ReadState <- Decoded
    ReadByReference <- DecodedByReference
    PlacesOf <- PlacesIn
    EditsAt <- ChangesAt
    Excused <- KnownDifference
    Undecided = Undecided
    Invalid = Invalid
    Bundles <- AllBundles
    Batches <- AllBatches
    Route <- RouteOf
    RenderFor <- RenderOne
    RenderBatch <- RenderAll
    Offered <- PortableFamilies
    Served <- Serves
    Relocatable <- Absolute
    Renderable <- Requirable
INVARIANTS ServedAsAuthored CapabilitiesTrue NeverInvalid LoadsOneMoment CalmLoadsAgree OnlyAsWritten CodecsAgree
CHECK_DEADLOCK FALSE
