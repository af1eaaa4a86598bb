SPECIFICATION FormSpec
CONSTANTS
    FieldNames <- SomeNames
    Encodings <- SomeEncodings
    Boundaries <- SomeBoundaries
    MaxFields = 2
    Sizes = {0, 1, 2, 3, 4}
    Texts <- SomeTexts
INVARIANTS
    FieldsComeBack
    LookupIsFirst
PROPERTIES
    IterationAdvances
\* An iteration that has ended does nothing more.
CHECK_DEADLOCK FALSE
