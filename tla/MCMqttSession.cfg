\* Two devices, a network that comes and goes.
SPECIFICATION Spec
CONSTANTS
    MaxDevices = 2
    MaxEntities = 1
    DeviceIds = {1, 2}
    EntityIds = {0}
    Metadata = {"cover", "number"}
    ZeroMetadata = "binary_sensor"
    MillisRange = 3
    StatusInterval = 1
    AnonymousAllowed = TRUE
    MaxStale = 3
    Announcements <- MCAnnouncements
INVARIANTS SessionTypeOK SessionSubscribed StatusCorrectedInTime
