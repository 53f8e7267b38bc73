CONSTANTS
    LabelTexts <- MCLabelTexts
    Malformed = "malformed"
    EditTargets = {"webhook", "subscription"}
    MaxEnv = 2
    RVMod = 4
SPECIFICATION Spec
CONSTRAINT RVBounded
INVARIANTS
    IInv
    QInv
    LInv
