SPECIFICATION Spec
CONSTANTS
    Absent = Absent
    Namespaces = {"session", "reference"}
    Keys = {1, 2}
    Values = {1, 2}
    Policy <- MCPolicy
    KeyBytes <- MCKeyBytes
    ValueBytes <- MCValueBytes
    EntryOverhead = 1
    MaxTotalEntries = 3
    MaxTotalBytes = 9
    MaxSweep = 1
    MaxLag = 1
    MaxInstant = 2
INVARIANTS BudgetsExact HitsAreFresh
PROPERTIES EvictsLeastRecent
