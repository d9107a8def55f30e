SPECIFICATION AnswerSpec
CONSTANTS
    Questions <- MCQuestions
    WebResults <- MCWebResults
    MaxRetries = 3
    StepLimit = 25
INVARIANTS
    AnswerTypeOK
    OnlyJudgedUsed
    SourcesAreBasis
    RunBounded
CHECK_DEADLOCK FALSE
