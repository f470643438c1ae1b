\* Two files of up to two lines, in any order, with repeated and malformed lines
\* and an allocation that fails.
SPECIFICATION Spec
CONSTANTS
    Lines <- SomeLines
    Malformed = Malformed
    Files = {f1, f2}
    Contents <- SomeContents
    Names <- SomeNames
    Alnum <- SomeAlnum
    Separators <- SomeSeparators
    MAX_TERM_LEN = 3
    QUERY_MAX = 6
    Keywords <- SomeKeywords
    CommandLines <- SomeCommandLines
    InitCapacity = 1
    MaxFailures = 1
SYMMETRY FileSymmetry
INVARIANTS
    TypeOK
    StoreIsDirectory
    IndexAnswersQuery
    SortIsCausal
    AnswerIsCausal
    StatsCountNodes
    ClustersAreNodes
    EdgesGenerateOrder
\* The tool ends.
CHECK_DEADLOCK FALSE
