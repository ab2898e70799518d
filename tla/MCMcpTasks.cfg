SPECIFICATION FairSpec
CONSTANTS
    Task = {t1, t2, t3}
    NoTask = NoTask
    TTL = {1}
    MAX_TASKS = 2
    MAX_CONCURRENT_TASKS = 1
    Grace = 1
    MaxTime = 2
CHECK_DEADLOCK FALSE
INVARIANTS SlotsAreExact AbandonedIsCancelled AnswersAreFinal
PROPERTIES RequestsAnswered SlotsReturn
