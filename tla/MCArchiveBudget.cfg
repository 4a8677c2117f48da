SPECIFICATION BudgetSpec
CONSTANTS
  Paths = {"game.apk", "split.apk", "nested.apk"}
  Counts = {0, 1, 2, 3, 5}
  Sizes = {0, 1, 3, 4, 6}
  MaxEntry = 4
  MaxTotal = 7
  MaxEntries = 4
  Chunk = 2
  Probe = 3
  EntryRecord = 1
INVARIANTS
  WithinLimits
  HandedIsPaid
