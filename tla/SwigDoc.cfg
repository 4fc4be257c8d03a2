SPECIFICATION Spec
CONSTANTS
    Corpora <- MCCorpora
    Explored <- MCExplored
    HeaderNames <- MCHeaderNames
    MakeNames <- MCMakeNames
    HeaderOf <- MCHeaderOf
    OperatorNames <- MCOperatorNames
    MaxCalls = 2
INVARIANTS
    ObjectsWellFormed
    CachesCoherent
    IndexHoldsPrefix
    AbortsOnlyIfUnusable
    AllAccountedFor
    EntriesRight
PROPERTIES
    AnswersStable
    GeneratorEnds
CHECK_DEADLOCK FALSE
