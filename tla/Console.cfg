\* A ring of three entries that fills up while a client is sent the history.
SPECIFICATION FairSpec
CONSTANTS
    RingMax = 3
    InitMaxAttempts = 3
    MaxPollAttempts = 2
    LoopLevels = {0, 2}
    MaxEntries = 10
    MaxPieces = 3
INVARIANTS ConsoleTypeOK OneMessagePerEntry ReplayInOrder ClientMissesOnlyEvicted
PROPERTIES EntriesPassTheFilter SetupNeverHangs
