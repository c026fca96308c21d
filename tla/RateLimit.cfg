\* Three devices contend for two entries while the clock wraps.
SPECIFICATION Spec
CONSTANTS
    MillisRange = 10
    MaxDevices = 2
    Commanded = {1, 2, 3}
    Interval = 2
    MaxPerInterval = 2
    StaleAfter = 3
INVARIANTS RateLimitTypeOK BurstBounded RefusedForCause
