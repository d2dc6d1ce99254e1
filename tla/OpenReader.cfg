SPECIFICATION FairSpec
CONSTANTS
    Name <- AuditedNames
    DirName <- mcDirName
    BaseOf <- mcBaseOf
    ManifestName <- nM
    AuditOf <- mcAuditOf
    OtherFlag = {"utf8"}
    OtherMethod = {"lzma"}
    Sentinel16 = 4
    Sentinel32 = 5
    Half = 8
    SigBlockMinSize = 2
    AxmlMinLen = 2
    MaxEntryCap = 4
    MaxByteLen = 7
    Files <- AllFiles
INVARIANTS
    TypeOK
    HeadersAccounted
    DuplicatesFlagged
    ConflictsFlagged
    ManifestIsLastReadable
    ReportComplete
    CleanMeansOneReading
    CleanNamesSafe
    CleanManifest
PROPERTIES
    IssuesOnlyGrow
    ImplementsVerdict
    Termination
