SPECIFICATION IntakeSpec
CONSTANTS
    Keys = {u1, u2, u3}
    NoKey = NoKey
    MaxRequests = 2
    Window = 2
    MaxKeys = 2
    MaxTime = 3
    Vaults = {v1, v2}
    Texts <- MCTexts
    Strong <- MCStrong
    Weak <- MCWeak
    Similar <- MCSimilar
    Published <- MCPublished
    NoText = NoText
    MaxStored = 2
    MaxDismissed = 1
    OneAtWork = TRUE
    c1 = c1
    c2 = c2
    k1 = k1
    k2 = k2
    Clients <- MCClients
    KeyOf <- MCKeyOf
    Docs <- MCDocs
    Usable <- MCUsable
    Size <- MCSize
    Signed <- MCSigned
    MaxRules <- OneEngine
SYMMETRY VaultSymmetry
INVARIANTS
    LimiterTypeOK
    WindowRate
    RetryAfterExact
    VaultTypeOK
    UniqueHashes
    ExportsOwnDetections
    ContaminationBounded
    OnlyVerified
    CacheWhole
PROPERTIES
    CheckThenAcquire
    EvictionFollowsTails
    ImportComplete
    RefusalHarmless
