\* A keyword query after the store was sorted.
SPECIFICATION Spec
CONSTANTS
    Lines <- SomeLines
    Malformed = Malformed
    Files = {f1, f2}
    Contents <- SomeContents
    Names <- SomeNames
    Alnum <- SomeAlnum
    Separators <- SomeSeparators
    MAX_TERM_LEN = 3
    QUERY_MAX = 6
    Keywords <- SomeKeywords
    CommandLines <- SomeCommandLines
    InitCapacity = 4
    MaxFailures = 0
SYMMETRY FileSymmetry
INVARIANT HitsContainKeywords
CHECK_DEADLOCK FALSE
