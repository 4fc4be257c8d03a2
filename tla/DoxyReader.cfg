SPECIFICATION Spec
CONSTANTS
    Documents <- MCDocuments
INVARIANTS
    DescriptionInOrder
    RoundTrip
    LiteralRaisesOnMixed
CHECK_DEADLOCK FALSE
