SPECIFICATION StorySpec
CONSTANTS
    p1 = p1
    v1 = v1
    v2 = v2
    n1 = n1
    n2 = n2
    d1 = d1
    w1 = w1
    b1 = b1
    e1 = e1
    e2 = e2
    i1 = i1
    i2 = i2
    s1 = s1
    s2 = s2
    c1 = c1
    c2 = c2
    NoValue = NoValue
    Pairs = {p1}
    Instruments = {i1, i2}
    Symbols = {s1, s2}
    SymbolOf <- MCSymbolOf
    Benchmarks = {b1}
    Definitions = {e1, e2}
    Venues = {w1}
    Values = {v1, v2}
    Ids = {d1}
    Names = {n1, n2}
    Captures = {c1, c2}
    MaxTime = 2
    MaxFixtures = 1
    MaxVersions = 2
    MaxPoints = 1
    MaxEvents = 3
    MaxCaptures = 2
SYMMETRY MCSymmetry
CONSTRAINT OneStory
INVARIANTS
    SeriesReplay
    ReadsSucceedAndAgree
PROPERTIES
    PastStaysKnown
    CapturesAreSound
