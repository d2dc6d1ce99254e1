SPECIFICATION FairSpec
CONSTANTS
    Name = {"a", "a/", "m"}
    DirName = {"a/"}
    BaseOf <- mcBaseOf
    ManifestName = "m"
    AuditOf <- mcAuditOf
    OtherFlag = {"utf8"}
    OtherMethod = {"lzma"}
    Sentinel16 = 3
    Sentinel32 = 5
    Half = 16
    SigBlockMinSize = 2
    AxmlMinLen = 2
    MaxEntryCap = 4
    MaxByteLen = 7
    EOCDFixedSize = 3
    EOCDSigLen = 2
    LocatorSize = 2
    Tails <- SmallTails
INVARIANTS
    TypeOK
    LastFittingTaken
    WellFormedFound
    ReadsInside
PROPERTIES
    ImplementsReader
    Returns
