\* Polls and back-offs that span the wrap of the clock.
SPECIFICATION FairSpec
CONSTANTS
    MillisRange = 9
    PollInterval = 2
    BackoffInterval = 3
    MaxPollAttempts = 2
INVARIANT WifiTypeOK
PROPERTIES AttemptsPaced KeepsTrying SettlesConnected
