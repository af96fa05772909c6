\* Two sessions, pages of one, two instants, four stamps, one restore.
SPECIFICATION Spec
CONSTANTS
  Sessions = {"a", "b"}
  Rank <- MCRank
  Limit = 1
  MaxTime = 2
  MaxSeq = 4
  MaxRestores = 1
PROPERTIES  ToldAtLast
