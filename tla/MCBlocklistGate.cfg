SPECIFICATION Spec
CONSTANTS
    r1 = r1
    r2 = r2
    r3 = r3
    Requests = {r1}
    Texts <- MCTexts
    Names <- MCNames
    Bodies <- MCBodies
    Setups <- MCBlockSetups
    Exempt <- MCExempt
    Blocklisted <- MCBlocklisted
    Opinions <- MCOpinions
    MaxLessons = 0
    None = None
CHECK_DEADLOCK FALSE
INVARIANTS
    BlocklistHolds
