\* The parts of the client, one at a time, and the questions to its library.  The
\* circle of longitudes has 16 units; a part takes 20 tiles, a pack 14.
SPECIFICATION Spec
CONSTANTS
    Half = 8
    MinZoom = 1
    MaxZoom = 3
    TerrainZoom = 2
    PartMapTiles = 20
    PartTerrainTiles = 6
    MaxGridParts = 16
    SplitDepth = 2
    MaxNesting = 5
    PackLimit = 14
    Questions <- LibraryQuestions
    Services = {"places", "pois"}
    Rasters = {"osm", "opentopo"}
    AbsoluteUrls = {"https://other"}
    Unit = 4
    PathHighways = {"path", "track"}
    CoordUnit = 10
    HeightUnit = 4
    WaypointCorridor = 1
    WidestTolerance = 4
    Tile = 4
    CardWidth = 7
    CardHeight = 5
    Padding = 1
    MaxTileZoom = 3
    Labels = {"95", "diesel"}
    BandCount = 3
    MinRange = 2
    MaxRange = 20
    DefaultRange = 8
    MaxReserve = 50
    DefaultReserve = 25
    Callers = {"map", "legend"}
    Keys = {"backend", "direct"}
    World <- Places
    GridStep = 2
    Pole = 8
    ResultLimit = 2
    MaxAreas = 2
    SmallestRadius = 1
    LargestRadius = 3
    Centres <- Around
    Radii = {1, 2, 9}
    MaxHeights = 4
    ChunkSize = 2
    Concurrency = 2
    Lengths = {3, 6, 8}
    HeightAt <- Ground
    Queries = {"ford", "pass"}
    PlaceSearches = {1, 2, 3}
    Interval = 2
    MaxCached = 1
    LastTime = 5
    MaxEdits = 3
    MaxRuns = 4
    MaxAsked = 2
    Generations = {1, 2}
    MaxUploads = 1
    MaxSearches = 4
    AroundSpots = {"a", "b"}
    Kinds = {"fuel", "water"}
    MaxMoves = 2
    MaxAround = 3
    Geometries = {0, 1, 2, 3}
    Lines = {1, 2}
    MaxMatches = 4
    MaxMessages = 3
    Retained = 2
    Issues <- Complaints
    Priorities = {1, 2}
    Hooks = {"a", "b"}
    MaxOpenings = 3
    CursorSpots = {1, 2}
    MaxSettles = 2
    Files = {"f"}
    Shared = {"s"}
    HistoryLimit = 1
    MaxRevs = 3
    MaxTasks = 2
    MaxChanges = 3
    MaxRestarts = 1
    MaxKeys = 3
    MaxPoints = 2
    Catalogue <- Iberia
    Cells <- Grids
    City = "town"
    Installed = {"ar", "pt"}
    MaxWork = 1
CHECK_DEADLOCK FALSE
INVARIANTS
    PartsTile
    DoneIsDownloaded
    RiderWarned
    TrackKeepsShape
    RoundTrip
    DrawnWhole
    FailsClosed
    AnswerComplete
    MeasuredIsMeasured
    RouteIsCurrent
    ShowsLatest
    AnnotationFits
    OfflineIsQuiet
    SharedOnce
    ServicesSpared
    DraftKept
    EstimateFits
PROPERTIES
    SharedWaits
