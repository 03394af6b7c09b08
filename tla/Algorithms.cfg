SPECIFICATION AlgoSpec
CONSTANTS
    ClusterM = 3
    Abbreviations <- MCAbbreviations
    Numbers = {"10", "11511", "5th"}
    Ordinals = {"5th"}
    Postcodes = {"11511"}
    Openers = {"rue"}
    StreetWords = {"street"}
    Keywords = {"road"}
    Cities = {"cairo", "zamalek", "paris"}
    Codes = {"EG"}
    EndsInCity <- MCEndsInCity
    RescoreWindow = 3
    MinPrefix = 2
    MaxPrefix = 3
    TopK = 2
    Articles <- MCArticles
    TypeWords <- MCTypeWords
    ChunkBits = 5
    WindowKm = 3
    LevelBits = 2
    TileIdBits = 2
    IndexBits = 3
    Endpoints <- MCEndpoints
    Matrix = "matrix"
    Element = "element"
    DefaultWeight = 1000
    DefaultElement = 100
    Sizes = {0, 1, 2, 5}
    HouseQuestions <- MCHouse
    SnapQuestions <- MCSnap
    PointQuestions <- MCPoint
    SpeedQuestions <- MCSpeed
    TileQuestions <- MCTile
    PaintQuestions <- MCPaint
    ShapeQuestions <- MCShape
    AddressQuestions <- MCAddress
    OrdinalQuestions <- MCOrdinal
    SuggestQuestions <- MCSuggest
    MergeQuestions <- MCMerge
    RankQuestions <- MCRank
    PriceQuestions <- MCPrice
    ScrollQuestions <- MCScroll
    FirstQuestions <- MCFirst
INVARIANTS TrafficRight PagesRight ScalesRight LookupsRight
CHECK_DEADLOCK FALSE
