CONSTANTS
    LabelTexts <- MCLabelTexts
    Malformed = "malformed"
    EditTargets = {}
    MaxEnv = 0
    RVMod = 2
    NextRV <- MCNextRV
SPECIFICATION Spec
INVARIANT
    IdempotentPass
