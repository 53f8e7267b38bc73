CONSTANTS
    Letters = {"a", "b"}
    MaxLen = 5
SPECIFICATION Spec
PROPERTY
    LabelsMerged
CHECK_DEADLOCK FALSE
