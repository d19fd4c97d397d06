CONSTANTS
    Letters = {"a"}
    MaxPassword = 3
    MaxLine = 3
    MaxAsks = 2
SPECIFICATION FairSpec
INVARIANT AnswersOwnQuestion
INVARIANT NoPasswordOnScreen
INVARIANT EchoRestored
PROPERTY QuestionEnds
CHECK_DEADLOCK FALSE
