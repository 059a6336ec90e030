SPECIFICATION MCSpec
INVARIANTS GraphAnswers DpAnswers ArrayAnswers ListAnswers
CHECK_DEADLOCK FALSE
