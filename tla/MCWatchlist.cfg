SPECIFICATION Spec
CONSTANTS
    c1 = c1
    c2 = c2
    e1 = e1
    e2 = e2
    Client = {c1, c2}
    Entry = {e1, e2}
    None = None
    MaxEntries = 2
    RevisionLimit = 2
    MaxChanges = 2
    MaxTime = 2
    MaxRestores = 1
SYMMETRY Symmetry
INVARIANTS
    AnswersAreTrue
PROPERTIES
    EditsAreAtomic
