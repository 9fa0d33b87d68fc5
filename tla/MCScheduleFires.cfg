SPECIFICATION Spec
CONSTANTS
    w1 = w1  w2 = w2
    NoFire = NoFire  NoOwner = NoOwner  NoCursor = NoCursor
    Workers = {w1, w2}
    Policies <- ChangingPolicies
    MaxReservationScan = 1024
    MaxInstant = 3
SYMMETRY MCSymmetry
INVARIANTS EveryOccurrenceAccounted
PROPERTIES OccurrenceOnce
