\* Two steps, polls of at most three answers, arrays of at most two.
SPECIFICATION Spec
CONSTANTS
    None = None
    Env <- MCEnv
    Fold <- MCFold
    Pattern <- MCPattern
    Tests <- MCTests
    Answers <- MCAnswers
    DefaultAttempts = 3
    Ready <- Resolvable
    Equal <- Same
    Judge <- StepOutcome
    JudgeAll <- AllNamed
INVARIANTS BodyReadsPaths QuantifiersInspect CapturesAreOfTheAnswerTaken PollStopsForCause
CHECK_DEADLOCK FALSE
