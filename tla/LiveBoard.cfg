\* The board: two agents, two statuses, three frames, one fault. The cache: two
\* files, a cache of two entries. The installer: two processes, three runs, one
\* edit by the file's owner, in one millisecond.
SPECIFICATION ReadersSpec
CONSTANTS
  Agents = {a, b}
  Statuses = {working, completed}
  Absent = Absent
  Ingested = Ingested
  MaxFrames = 3
  MaxFaults = 1
  None = None
  Files = {a, b}
  Newline = Newline
  Lead = Lead
  Trail = Trail
  Wide = Wide
  Bad = Bad
  x = x
  y = y
  OverlapBytes = 2
  MaxFileBytes = 6
  MaxCacheBytes = 16
  MaxCacheEntries = 2
  MaxChanges = 2
  MaxClock = 1
  Events = {"Stop", "Other"}
  Wired = {"Stop"}
  Options = {"p1", "p2"}
  Foreign = {"f"}
  Ambiguous = {"x"}
  Runs = {a, b}
  BackupNames = 2
  MaxRuns = 3
  MaxEdits = 1
  Milliseconds = {1}
INVARIANTS
  BoardCurrent
  NoticeTruthful
  Recoverable
PROPERTIES
  ReadsTheFile
  LeftAsAsked
SYMMETRY Alike
CHECK_DEADLOCK FALSE
