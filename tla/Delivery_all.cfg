SPECIFICATION MCSpec
CONSTANTS
    Drainers = {d1, d2}
    Queue = q
    Senders = {d1, d2, q}
    Records = {1, 2, 4, 5, 6}
    Audited = {1, 2}
    Logged = {4, 5, 6}
    SizeOf <- MCSizeOf
    MaxAttempts <- MCMaxAttempts
    Header = 1
    MaxRequestBytes = 3
    MaxFaults = 2
    BatchSize = 2
    Crashed = Crashed
    Free = Free
    MaxQueuedRecords = 1
    MaxQueuedBytes = 3
    MaxBatchRecords = 2
    Scopes = {"a1", "a2", "b1"}
    CollectorOf <- MCCollectorOf
    Labels = {"x", "y"}
    Values = {1}
    Objects = {1, 2, 3}
    MaxSamples = 2
    MaxCalls = 3
    Nil = Nil
CHECK_DEADLOCK FALSE
INVARIANTS OnceWithoutFaults LogsAccounted
PROPERTIES ImplementsAtLeastOnce QueuesDrain ImplementsScopedRecorder
