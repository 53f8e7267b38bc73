CONSTANTS
    LabelTexts <- MCLabelTexts
    Malformed = "malformed"
    EditTargets = {"nginxCM"}
    MaxEnv = 1
    RVMod = 3
    NextRV <- MCNextRV
SPECIFICATION Spec
PROPERTY
    Quiescence
