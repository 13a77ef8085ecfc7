SPECIFICATION FairSpec
CONSTANTS
    Scans = {s1, s2}
    Inputs <- MCInputs
    Allowed = {"listed"}
    Blocked = {"listed"}
    Detectors <- MCDetectors
    Outcome <- MCOutcome
    Threshold <- MCThreshold
    Bonus = 5
    ActionFor <- MCActionFor
    Options <- MCOptions
    Installed <- MCInstalled
    MaxChanges = 1
INVARIANTS TypeOK NothingLeftBehind
PROPERTIES Refines ScansEnd
CHECK_DEADLOCK FALSE
