CONSTANTS
    MaxQueries = 4
    Asking <- MCAsking
SPECIFICATION BSpec
INVARIANTS BTypeOK EachOnce OvertakesOnlyInHand AnswersFollowQueries
PROPERTIES AcceptedIsExecuted
CHECK_DEADLOCK FALSE
