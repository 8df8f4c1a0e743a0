SPECIFICATION FairSpec
CONSTANTS
    Projects <- MCProjects
    PiecesOf <- MCPiecesOf
    Bytes <- MCBytes
    Nothing = "-"
    MaxChunks = 3
    MaxZIPBytes = 3
    MaxHeaderLine = 3
    MaxHeaderBytes = 8
    MaxResponse = 40
    MaxSegment = 3
    Code <- MCCode
    ShutterWords = {"Rollo"}
    OutletWords = {"Dose"}
    DownWords = {"zu"}
    UpWords = {"auf"}
    PanicWords = {"panic"}
    PresenceWords = {"presence", "Away"}
    NoInput = NoInput
    MaxVisibleChannels = 12
    MaxChannelText = 9
    MaxToolActions = 2
    MaxToolCandidates = 2
    MaxLocationDepth = 2
    MaxFile = 45
    ArchivesOf <- MCArchivesOf
    FilesOf <- MCFilesOf
    MaxZIPEntries = 3
    MaxEntryBytes = 1
    Devices <- MCDevices
    Actions = {"raise"}
    Modules = {64}
    MaxOperations = 1
INVARIANTS
    AnswersAreTrue
    GoodResponsesAreRead
    OnlyTheDefectIsRemoved
    PlansRunInOrder
    LoadedWasThere
    PiecesInPlace
    NoSharedInput
    EveryInputOperable
    OrderIrrelevant
    RefusedOnlyForConflicts
    FloorsInOrder
PROPERTIES
    ImplementsDownload
    DownloadEnds
