SPECIFICATION Spec
CONSTANTS
    Key = {k1}
    TempKey = {t1}
    Lookup = {l1, l2}
    Edit = {e1, e2}
    Lifetime = 2
    MaxTime = 3
    File = {f, g}
    Pattern <- OneFile
    Contents <- OneOrAll
    Regexp = {r, s}
    Worker = {w1, w2}
    Requests = 1
    MaxRows = 2
    MaxEdits = 3
    MaxFailures = 1
    Request = {q1, q2}
    Block <- Nested
    MaxRanges = 3
    Day = 1
    Days = 2
    Weeks = 2
    Months = 1
    DaysPerWeek = 2
    DaysPerMonth = 4
    LastTick = 12
    Interval = 2
    MaxPerTick = 2
    LastTime = 5
    Letter = {a, b}
    MaxLength = 4
INVARIANTS
    TypeOK
    StalenessBounded
    CacheFollowsEdits
    TempKeyDiesWithJob
    NoOrphan
    ValueFollows
    OneRangePerAddress
    ThinnedNotTorn
    NothingForgotten
    ColumnIsDistance
PROPERTY
    ParsedInTheEnd
CHECK_DEADLOCK FALSE
