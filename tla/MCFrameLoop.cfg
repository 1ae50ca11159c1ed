SPECIFICATION ServicesSpec
CONSTANTS
    Buttons <- MCButtons
    Place <- MCPlace
    Spots <- MCSpots
    Origin = "origin"
    MaxReport = 2
    Contents <- MCContents
    Typings <- MCTypings
    MaxInitial = 3
    Shaders = {"vertex", "fragment"}
    Sources = {"lens", "shockwave"}
    Shockwave = "shockwave"
    MaxBrought = 2
    Songs = {"song"}
    Effects = {"menuLoop"}
    Length <- MCLength
    Half = 8
    Offsets <- MCOffsets
INVARIANTS
    InputInv
    PositionsFresh
    FieldAsConfirmed
    ShadersRun
    SongsPlay
