SPECIFICATION FairSpec
CONSTANTS
    Name = {"a", "a/", "m"}
    DirName = {"a/"}
    BaseOf <- mcBaseOf
    ManifestName = "m"
    AuditOf <- mcAuditOf
    OtherFlag = {"utf8"}
    OtherMethod = {"lzma"}
    Sentinel16 = 3
    Sentinel32 = 10
    Half = 16
    SigBlockMinSize = 2
    AxmlMinLen = 2
    MaxEntryCap = 4
    MaxByteLen = 12
    Alignment = 2
    PoolHeaderLen = 3
    OffsetLen = 1
    ElementLen = 4
    DataLens = {1, 9}
INVARIANTS
    TypeOK
    ChunksTile
    ReadsInChunk
    StringsJudged
    MisalignmentTold
PROPERTIES
    Returns
