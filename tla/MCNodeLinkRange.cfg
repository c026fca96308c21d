\* A negative number within its range: expected to fail.
SPECIFICATION Spec
CONSTANTS
    ByteRange = 4
    MaxPrecision = 1
    MillisRange = 1
    MaxDevices = 1
    MaxEntities = 2
    DeviceIds = {1}
    EntityIds = {0, 1, 2}
    Metadata <- MCSignedMetadata
    ZeroMetadata <- ZeroItem
    Entities <- MCSignedEntities
    Numbers <- MCSignedNumbers
    Commands <- MCSignedCommands
INVARIANT InRangeCommandSent
