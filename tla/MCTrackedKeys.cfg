SPECIFICATION LimiterSpec
CONSTANTS
    Keys = {k1, k2, k3}
    NoKey = NoKey
    MaxRequests = 2
    Window = 2
    MaxKeys = 2
    MaxTime = 4
SYMMETRY KeySymmetry
INVARIANT TrackedBounded
