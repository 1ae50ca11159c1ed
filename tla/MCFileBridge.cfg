SPECIFICATION BridgeSpec
CONSTANTS
    t1 = t1
    t2 = t2
    Threads <- MCThreads
    Listed <- MCListed
    Bionic <- MCBionic
    Unlisted <- MCUnlisted
    ENOENT = 2
    UseSceLibc = TRUE
    Readers <- MCThreads
    Names = {"533927.mp3", "533927.tmp"}
    BuiltIn = {"StereoMadness.mp3"}
    MaxWrites = 3
    MaxOpens = 3
    Objects = {o1, o2}
INVARIANTS
    ErrnoServes
    FilesAsOnAndroid
    SeedsFresh
    ObjectsServed
