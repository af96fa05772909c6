SPECIFICATION StoredSpec
CONSTANTS
  lead = lead
  sub = sub
  NoSession = NoSession
  Agents = {lead, sub}
  Mains = {lead}
  SessionOf <- OneSession
  Threshold = 1
  LastRecord = 2
  MaxClock = 3
  MaxReceipts = 2
  None = None
  Processes = {p1, p2}
  Builds <- ThreeBuilds
  Legacies <- Left
  Asks <- Rates
  MaxBoots = 2
  MaxEdits = 2
  MaxIngests = 1
INVARIANTS
  StopHeard
  UnknownMeansSilent
  AnchorsAgree
  UpgradedAsFresh
PROPERTIES
  EndingsStick
  HonestAtLast
CHECK_DEADLOCK FALSE
