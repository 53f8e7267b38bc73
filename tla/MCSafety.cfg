CONSTANTS
    LabelTexts <- MCLabelTexts
    Malformed = "malformed"
    EditTargets = {"webhook", "monCM", "subscription", "nginxCM"}
    MaxEnv = 1
    RVMod = 3
    NextRV <- MCNextRV
SPECIFICATION Spec
INVARIANTS
    TypeOK
    IdempotentExceptTemplates
    LabelsFollowConfig
PROPERTIES
    CABundleNeverCleared
    WriteOnceKept
