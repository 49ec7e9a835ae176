SPECIFICATION FairSpec
CONSTANTS
    p = p
    q = q
    s = s
    j1 = j1
    j2 = j2
    j3 = j3
    a1 = a1
    a2 = a2
    t1 = t1
    t2 = t2
    Null = Null
    Poster = {p}
    Searcher = {s}
    Job = {j1}
    App = {a1}
    Title = {t1}
    FieldOrder <- ThreeFields
    Ads <- NoAds
    Enum <- MCEnum
    RowOrder <- MCRowOrder
    MaxPuts = 4
    MaxReads = 1
    MaxVCs = 2
    MaxLaunches <- PosterTwice
    MaxDrops <- PosterOnce
INVARIANT FieldsInOrder MissingFieldExplained LonePosterSafe
PROPERTY JobsFollowLifecycle BoardProgress
CHECK_DEADLOCK FALSE
