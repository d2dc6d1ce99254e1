SPECIFICATION Spec
CONSTANTS
    Name <- TableNames
    DirName <- mcDirName
    BaseOf <- mcBaseOf
    ManifestName <- nM
    AuditOf <- mcAuditOf
    OtherFlag = {"utf8"}
    OtherMethod = {"lzma"}
    Sentinel16 = 4
    Sentinel32 = 5
    Half = 8
    SigBlockMinSize = 2
    AxmlMinLen = 2
    MaxEntryCap = 4
    MaxByteLen = 7
    Files <- StreamFiles
INVARIANTS
    StreamingEntryIsClean
