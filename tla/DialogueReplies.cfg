SPECIFICATION Spec
CONSTANTS
    None = None
    old = old
    new = new
    Silence <- MCSilence
    Messages <- MCMessages
    Questions <- MCQuestions
    WeatherDays = {9}
    Candidates <- MCCandidates
    MaxRounds = 4
PROPERTIES RepliesKeepFacts
