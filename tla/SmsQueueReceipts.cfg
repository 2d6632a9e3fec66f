CONSTANTS
    j1 = j1
    j2 = j2
    j3 = j3
    w1 = w1
    w2 = w2
    Jobs = {j1, j2, j3}
    Workers = {w1}
    NoWorker = NoWorker
    NoJob = NoJob
    Op <- SendAndPoll
    Priority <- Urgency
    RunJobs <- Campaign
    MaxAttempts = 1
    Concurrency = 1
SPECIFICATION Spec
SYMMETRY PollSymmetry
CONSTRAINT PollsInTime
VIEW LiveView
INVARIANTS
    
    
    PayloadErased
PROPERTIES
    TerminalIsFinal
