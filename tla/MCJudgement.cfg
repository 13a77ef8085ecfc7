SPECIFICATION JudgementSpec
CONSTANTS
    Benches <- MCBenches
    Vocabulary <- MCVocabulary
    Needles <- MCNeedles
    Synonyms <- MCSynonyms
    MaxTokens = 4
    Spans <- MCSpans
    Length = 5
    WordsToMark <- MCWordsToMark
    Watermark <- MCWatermark
    Token <- MCToken
    Least = 2
    PersonalPlaceholder <- MCPersonalPlaceholder
    Placeholder <- MCPlaceholder
    Categories <- MCCategories
    Prompts <- MCPrompts
    MaxCost = 2
    MaxBatch = 2
    Budget = 3
    Duration = 3
    MaxRuns = 2
    Kept = 1
    Callers = {a1, a2}
    d1 = d1
    d2 = d2
    TunedDetectors <- MCTunedDetectors
    None = None
    Untuned = Untuned
    Configured = 70
    Assumed = 50
    MaxAdjustment = 1
    RaiseBy = 2
    LowerBy = 1
    MinFeedback = 2
    ProvenAt = 1
    MaxFeedback <- MCMaxFeedback
    Threads = {t1, t2}
    SourcePairs = {p1}
    NoPair = NoPair
    Confidences = {30, 62, 80}
    Base = 70
    NearDelta = 15
    HardenDelta = 10
    Scale = 10
    Alpha = 3
    Trigger = 4
    MinSamples = 3
    Cooldown = 2
    MaxDelay = 1
CHECK_DEADLOCK FALSE
INVARIANTS
    AlignmentExact
    NoWholeMatchRemains
    MarksSurvive
    NormalizeSettles
    ReportTrue
    TunerTypeOK
    TunedOnEvidence
    FatigueTypeOK
    CampaignNeeded
PROPERTIES
    
    CampaignEnds
    TuningSettles
    EarlyRestoreBounded
    QuietPairReleased
    CampaignHardened
