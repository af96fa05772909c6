\* One session whose only message is read before and after its cache write is split.
SPECIFICATION LedgerSpec
CONSTANTS
  s1 = s1
  s2 = s2
  m1 = m1
  m2 = m2
  fast = fast
  full = full
  a1 = a1
  None = None
  Sessions = {s1, s2}
  Messages = {m1, m2}
  Agents = {a1}
  Models = {fast, full}
  Scripts <- Reshaped
  Stamps <- Dates
  Edited <- OutputOfFull
  NewRates <- UsableOrNot
  DayLength = 2
  Cutoffs = {3, 4}
  MaxRowsPerRun = 100
  MaxEdits = 2
  main = main
  x = x
  y = y
  z = z
  Subs = {x, y, z}
  MaxChanges = 2
  Slugs = {1, 2}
  Hexes = {h}
  Cap = 2
  MaxActs = 3
  Writable <- LinesFor
  Mains = {1, 2}
  Spawned = {3}
  Spoken = {1, 2, 3, 4}
  Garbled = Garbled
  MaxTime = 3
  Handed <- Readings
  Upgraded <- NewOrUpgraded
  MaxWrites = 3
  Limits = {0, 1, 3}
INVARIANTS
  ReproducesMessages
