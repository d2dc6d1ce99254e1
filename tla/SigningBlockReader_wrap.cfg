SPECIFICATION Spec
CONSTANTS
    Name = {"a", "a/", "m"}
    DirName = {"a/"}
    BaseOf <- mcBaseOf
    ManifestName = "m"
    AuditOf <- mcAuditOf
    OtherFlag = {"utf8"}
    OtherMethod = {"lzma"}
    Sentinel16 = 4
    Sentinel32 = 5
    Half = 32
    SigBlockMagicLen = 1
    SigBlockSizeLen = 2
    BlockIDLen = 1
    SigBlockMinSize = 5
    AxmlMinLen = 2
    MaxEntryCap = 4
    MaxByteLen = 12
    FileSizes = {7, 12}
INVARIANTS
    BlockEndsAtDirectory
