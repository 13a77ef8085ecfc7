SPECIFICATION FairSpec
CONSTANTS
    r1 = r1
    r2 = r2
    r3 = r3
    Requests = {r1, r2, r3}
    Texts <- MCTexts
    Names <- MCNames
    Bodies <- MCBodies
    Setups <- MCSetups
    Exempt <- MCExempt
    Blocklisted <- MCBlocklisted
    Opinions <- MCOpinions
    MaxLessons = 1
    None = None
CHECK_DEADLOCK FALSE
INVARIANTS
    JudgedBeforePassed
    CacheBounded
    StatsBalance
PROPERTIES
    RequestsEnd
