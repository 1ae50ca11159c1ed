CONSTANTS
    Images <- MCImages
    Slots = {s1}
    PageSize = 2
    MaxDataSeg = 2
    LoadAddress = 4
    SaveFiles <- MCSaveFiles
    Digests <- MCDigests
    CheckedNames <- MCChecked
    MaxDigests = 3
    Followed <- MCFollowed
    SymbolNames <- MCSymbolNames
    MaxSymbols = 3
    MaxBuckets = 3
    HashSize = 256
SPECIFICATION UnwindStartup
INVARIANT
    UnwindReadsImage
