SPECIFICATION Spec
CONSTANTS
    Versions <- TwoVersions
    Size <- Sizes
    DRetries = 1
    MaxOverwrites = 2
    NoTag = NoTag
    Cut = Cut
    FileSizes <- Lengths
    BufferSize = 2
    URetries = 1
    MaxSessions = 2
    MaxEdits = 1
    Nothing = Nothing
    Workers <- TwoWorkers
    ArchiveSizes <- SomeSizes
    DefaultSize = 4
    Megabyte = 1
    MaximumParts = 2
    WRetries = 1
    MaxData = 5
    PartSize = 2
    MaxRevision = 1
    NoArchive = NoArchive
INVARIANTS
    TypeOK
    DownloadWhole
    StoredIsFile
    CompleteHasAll
    ArchiveIsGiven
PROPERTIES
    EveryTransferEnds
CHECK_DEADLOCK FALSE
