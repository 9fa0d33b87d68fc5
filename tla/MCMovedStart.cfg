SPECIFICATION Spec
CONSTANTS
    w1 = w1  w2 = w2
    NoFire = NoFire  NoOwner = NoOwner  NoCursor = NoCursor
    Workers = {w1}
    Policies <- MovedStart
    MaxReservationScan = 1024
    MaxInstant = 6
INVARIANTS EveryOccurrenceAccounted
