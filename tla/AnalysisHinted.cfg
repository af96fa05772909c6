SPECIFICATION AnalysisSpec
CONSTANTS
  s1 = s1
  s2 = s2
  g1 = g1
  g2 = g2
  r1 = r1
  r2 = r2
  None = None
  Roots = {r1}
  Sessions = {s1, s2}
  Slugs = {g1, g2}
  SlugOf <- OneSlugEach
  Prices = {1, 2}
  EmptyAt = {}
  RefusedAt <- RefusedUntilRepriced
  MaxAttempts = 2
  BackoffCap = 2
  ReplayCap = 1
  MaxVersion = 2
  MaxDisturb = 2
  main = main
  a1 = a1
  b1 = b1
  big = big
  small = small
  free = free
  odd = odd
  MaxMoves = 5
  Projects = {1, 2}
  Versions <- Grown
  Rate <- Dollars
INVARIANTS
  HintIsSpeedOnly
CHECK_DEADLOCK FALSE
