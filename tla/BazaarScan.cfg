SPECIFICATION FairSpec
CONSTANTS
    apk = apk
    split = split
    note = note
    Name = {apk, split, note}
    Apk = {apk, split}
    MaxSamples = 3
    Setups <- Settings
    Samples <- Batches
INVARIANTS
    TypeOK
    Accounted
    ExitTold
    SampleContained
    ReportsKept
PROPERTIES
    EndsUnlessHeld
