SPECIFICATION Spec
CONSTANTS
    apk = apk
    split = split
    note = note
    Name = {apk, split, note}
    Apk = {apk, split}
    MaxSamples = 2
    Setups <- Settings
    Samples <- Batches
INVARIANTS
    MalformationsTold
