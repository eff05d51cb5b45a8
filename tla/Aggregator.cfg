SPECIFICATION OrderedSpec
CONSTANTS
    Items = {1, 2, 3}
    Workers = {w1}
    Stoppers = {1, 2}
    BatchSize = 2
    ChannelBufferSize = 1
    MaxFailures = 1
INVARIANTS
    FifoOrder
    SafeStopFlushes
    TimerGuardsBatch
    LossHasCause
PROPERTIES
    StopReturns
    ImplementsPipe
CHECK_DEADLOCK FALSE
