SPECIFICATION VaultSpec
CONSTANTS
    Vaults = {v1, v2}
    Texts <- MCTexts
    Strong <- MCStrong
    Weak <- MCWeak
    Similar <- MCSimilar
    Published <- MCPublished
    NoText = NoText
    MaxStored = 2
    MaxDismissed = 1
    OneAtWork = TRUE
SYMMETRY VaultSymmetry
INVARIANT
    FalsePositiveForgotten
