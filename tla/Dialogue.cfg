SPECIFICATION Spec
CONSTANTS
    None = None
    old = old
    new = new
    Silence <- MCSilence
    Messages <- MCMessages
    Questions <- MCQuestions
    WeatherDays = {9}
    Candidates <- MCCandidates
    MaxRounds = 3
INVARIANTS
    ConsentWasGiven
PROPERTIES
    UnsaidStays
    KeptDaysStay
    FailsOnlyReplying
