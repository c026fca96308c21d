\* Three nodes contend for a table of two, so it fills, shifts and wraps.
SPECIFICATION FairSpec
CONSTANTS
    MaxDevices = 2
    MaxEntities = 1
    DeviceIds = {1, 2, 3}
    EntityIds = {0, 1}
    Metadata = {"cover", "number", "sensor"}
    ZeroMetadata = "binary_sensor"
    MillisRange = 6
    NodeTimeout = 1
    CheckInterval = 1
    MaxSilence = 6
    Announcements <- MCAnnouncements
INVARIANTS GatewayTypeOK LastSeenNeverOlder SilentDevicesLeaveInTime
PROPERTIES SilentDeviceIsRemoved OnlySilentDevicesRemoved ImplementsDirectory
