\* Two devices in two slots, so that every removal of the first moves the second;
\* both tasks send.
SPECIFICATION Spec
CONSTANTS
    MillisRange = 1
    MaxDevices = 2
    MaxEntities = 2
    DeviceIds = {1, 2}
    EntityIds = {0, 255}
    Metadata = {"cover", "number"}
    ZeroMetadata = "binary_sensor"
    Announcements <- MCAnnouncements
    Requests <- MCRequests
    Packets = {answer}
    NoPacket = noise
INVARIANTS ReadersFindWholeSlots NobodyVanishes RegisteredEntityFound
INVARIANTS OwnPacketOnAir NotBothRobbed
PROPERTIES ConvertedAsAnnounced ImplementsCalls
