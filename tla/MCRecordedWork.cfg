SPECIFICATION FairSpec
CONSTANTS
    w1 = w1 w2 = w2 k1 = k1 k2 = k2 d1 = d1 d2 = d2 o1 = o1 o2 = o2 o3 = o3
    Absent = Absent None = None
    Size <- MCSize
    Inbound = TRUE
    Workers = {w1, w2}
    Keys = {k1, k2}
    Digests = {d1, d2}
    Results = {1, 2}
    Owners = {o1, o2, o3}
    Loads <- MCLoads
    Busy = 1
    Deadline = 1
    Lease = 2
    Ttl = 1
    MaxEntries = 2
    MaxBytes = 1
INVARIANTS WorkExclusive AnswersEffective
PROPERTIES OrphanedLeaseRecovered AnswerIsRecorded
