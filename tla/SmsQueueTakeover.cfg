CONSTANTS
    j1 = j1
    j2 = j2
    j3 = j3
    w1 = w1
    w2 = w2
    Jobs = {j1}
    Workers = {w1, w2}
    NoWorker = NoWorker
    NoJob = NoJob
    Op <- TwoSends
    Priority <- Urgency
    RunJobs <- Campaign
    MaxAttempts = 2
    Concurrency = 1
SPECIFICATION FairSpec
INVARIANTS
    SendOnce
    HonestOutcome
    RetryBudget
PROPERTIES
    CallbacksInOrder
    Delivers
    JobsSettle
    OutcomesProjected
