SPECIFICATION Spec
CONSTANTS
  s1 = s1
  s2 = s2
  g1 = g1
  g2 = g2
  r1 = r1
  r2 = r2
  None = None
  Roots = {r1}
  Sessions = {s1, s2}
  Slugs = {g1, g2}
  SlugOf <- OneSlugEach
  Prices = {1, 2}
  EmptyAt = {}
  RefusedAt <- RefusedUntilRepriced
  MaxAttempts = 2
  BackoffCap = 2
  ReplayCap = 1
  MaxVersion = 2
  MaxDisturb = 2
INVARIANTS
  NothingMissed
