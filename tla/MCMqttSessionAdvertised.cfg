\* An entity announced while there is no session: expected to fail.
SPECIFICATION FairSpec
CONSTANTS
    MaxDevices = 2
    MaxEntities = 1
    DeviceIds = {1, 2}
    EntityIds = {0}
    Metadata = {"cover", "number"}
    ZeroMetadata = "binary_sensor"
    MillisRange = 3
    StatusInterval = 1
    AnonymousAllowed = TRUE
    MaxStale = 3
    Announcements <- MCOneAnnouncement
PROPERTY DiscoveredIsAdvertised
