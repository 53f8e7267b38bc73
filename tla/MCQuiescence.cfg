CONSTANTS
    LabelTexts <- MCLabelTexts
    Malformed = "malformed"
    EditTargets = {"webhook", "subscription"}
    MaxEnv = 1
    RVMod = 3
    NextRV <- MCNextRV
SPECIFICATION Spec
PROPERTIES
    Quiescence
