SPECIFICATION Spec
CONSTANTS
    i1 = i1  i2 = i2  k1 = k1  c1 = c1
    Invocations = {i1, i2}
    Keys = {k1}
    Checkpoints = {c1}
    Objects = {1, 2}
    Values = {1}
    Size <- MCSize
    MaxOperations = 2
    MaxObjects = 1
    MaxBucketBytes = 2
    MaxRevision = 2
    Absent = Absent  Unknown = Unknown
SYMMETRY MCSymmetry
INVARIANTS SnapshotReads BucketBounded
PROPERTIES ImplementsSerialStore
