SPECIFICATION Analysis
CONSTANTS
    Benches <- MCRedactions
    Vocabulary <- MCVocabulary
    Needles <- MCNeedles
    Synonyms <- MCSynonyms
    MaxTokens = 4
    Spans <- MCSpans
    Length = 5
    WordsToMark <- MCWordsToMark
    Watermark <- MCWatermark
    Token <- MCToken
    Least = 2
    PersonalPlaceholder <- MCPersonalPlaceholder
    Placeholder <- MCPlaceholder
    Categories <- MCCategories
    Prompts <- MCPrompts
    MaxCost = 2
    MaxBatch = 2
    Budget = 3
    Duration = 3
    MaxRuns = 2
    Kept = 1
CHECK_DEADLOCK FALSE
INVARIANT SanitizedSpansGone
