SPECIFICATION FairSpec
CONSTANTS
    Streams = {s1, s2}
    NoStream = NoStream
    Capacity = 2
    MaxBacklog = 2
    MaxFrames = 4
    MaxFaults = 2
    MaxRestarts = 1
INVARIANTS
    BacklogBounded
PROPERTIES
    KeepsFeed
    PeersServed
