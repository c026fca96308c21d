\* Two nodes with five entities, over bytes of four values.
SPECIFICATION Spec
CONSTANTS
    ByteRange = 4
    MaxPrecision = 1
    MillisRange = 1
    MaxDevices = 2
    MaxEntities = 2
    DeviceIds = {1, 2}
    EntityIds = {0, 1, 2}
    Metadata <- MCMetadata
    ZeroMetadata <- ZeroItem
    Entities <- MCEntities
    Numbers <- MCNumbers
    Commands <- MCCommands
INVARIANTS LinkTypeOK RegisteredAsAnnounced ShownAsReported AppliedAsCommanded
