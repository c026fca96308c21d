\* A first message that is a value message: expected to fail.
SPECIFICATION Spec
CONSTANTS
    MaxDevices = 2
    MaxEntities = 1
    DeviceIds = {1, 2, 3}
    EntityIds = {0, 1}
    Metadata = {"cover", "number", "sensor"}
    ZeroMetadata = "binary_sensor"
    MillisRange = 7
    NodeTimeout = 1
    CheckInterval = 1
    MaxSilence = 7
    Announcements <- MCAnnouncements
PROPERTY FirstContactIsDiscovered
