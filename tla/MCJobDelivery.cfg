SPECIFICATION Spec
CONSTANTS
    j1 = j1  j2 = j2  j3 = j3  w1 = w1  w2 = w2
    NoJob = NoJob  NoOwner = NoOwner
    JobIds = {j1, j2, j3}
    Workers = {w1, w2}
    Queues <- MCQueues
    Target <- MCTarget
    Size <- MCSize
    Policy <- MCPolicy
    MaxReservationScan = 1
    MaxInstant = 3
    Deadline = 1
    MaxOwner = 5
    MaxStaged = 1
    MaxRevision = 1
SYMMETRY MCSymmetry
CHECK_DEADLOCK FALSE
INVARIANTS DeliveredOnce TablesSound
PROPERTIES StaleOwnerMutatesNothing ImplementsContract
