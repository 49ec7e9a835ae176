SPECIFICATION Spec
CONSTANTS
    p = p
    q = q
    s = s
    j1 = j1
    j2 = j2
    j3 = j3
    a1 = a1
    a2 = a2
    t1 = t1
    t2 = t2
    Null = Null
    Poster = {p}
    Searcher = {s}
    Job = {j1, j2}
    App = {a1, a2}
    Title = {t1, t2}
    FieldOrder <- ThreeFields
    Ads <- FullBoard
    Enum <- MCEnum
    RowOrder <- MCRowOrder
    MaxPuts = 4
    MaxReads = 1
    MaxVCs = 2
    MaxLaunches <- Once
    MaxDrops <- Never
INVARIANT BoardTypeOK IndexFaultExplained
PROPERTY OnlyDeclinedDisappear
CHECK_DEADLOCK FALSE
