SPECIFICATION Spec
CONSTANTS
    Axes <- mcAxes
    Vertical = "z"
    Coordinates <- mcCoordinates
    Origins <- mcOrigins
    Travel <- mcTravel
    Fixture <- mcFixture
    Stock <- mcStock
    SafeZ = 0
    Clearance = 0
    ArcTolerance = 1
    Bends <- mcBends
    Inch = 2
    Limit = 7
    MaxLines = 3
    ProgramLines = {"t1", "f1", "f2", "g20"}
    WordValues = {"1", "2", "G54"}
    Meaning <- mcMeaning
    MaxLength = 3
    MaxValues = 2
    FrameHeaderSize = 2
    MaxFrameSize = 8
    ChunkSize = 4
    InitialCapacity = 4
    MaxFrames = 3
    PayloadSizes = {0, 1, 2, 3, 4, 5, 6, 7, 8, 9}
    RentSize <- mcRentSize
    Feeds = {1, 2}
    MaxEdits = 1
    MaxBadReads = 1
    Operations = {"a", "b", "c"}
    Unlisted = "x"
    Lengths = {1, 2}
    MaxRoughPassPreview = 3
    InchFactor = 2
    Shelves <- mcShelves
    MaxTopK = 2
    Radii = {1, 2, 3, 4, 6, 9}
    Cuts = {0, 1, 2, 3}
    Rates = {0, 1, 2, 4}
    ToolNames = {"t1", "t2"}
    MaxListed = 2
INVARIANT ChordingIsConservative
CHECK_DEADLOCK FALSE
