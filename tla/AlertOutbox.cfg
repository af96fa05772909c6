\* The outbox: one rule, two subjects, two targets, three disturbances.
\* The process: two transcripts, a silence of three polls.
SPECIFICATION ServerSpec
CONSTANTS
  r1 = r1
  s1 = s1
  s2 = s2
  t1 = t1
  t2 = t2
  None = None
  Rules = {r1}
  Subjects = {s1, s2}
  Targets = {t1, t2}
  Files <- MovedOrStopped
  Boots <- MovedOrStopped
  MaxAttempts = 3
  RetryDelay <- Doubling
  RetryAfter = 2
  Window = 1
  MaxPerMinute = 1
  BatchSize = 2
  EventsPerPass = 1
  MaxDisturb = 3
  Transcripts = {"t", "u"}
  RelogPasses = 3
INVARIANTS
  ToldOnce
  WindowKept
  ClosedQuietly
  OperatorTold
PROPERTIES
  NoHistoryFlood
  AllTold
