SPECIFICATION OpeningSpec
CONSTANTS
  h1 = h1
  h2 = h2
  Openers = {h1, h2}
  Files <- MCFiles
  Budget <- MCBudget
  Growths = {0, 1, 2}
  APPLICATION_ID = 7
  MAX_SCHEMA_ATTEMPTS = 4
  MaxCommits = 2
INVARIANTS
  OpenedStoreHolds
  SoundStoreNotRejected
PROPERTIES
  FileIsRespected
