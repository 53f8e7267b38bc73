CONSTANTS
    Letters = {"a", "b"}
    MaxLen = 5
SPECIFICATION Spec
INVARIANT
    TypeOK
    ParseMatchesSpec
CHECK_DEADLOCK FALSE
