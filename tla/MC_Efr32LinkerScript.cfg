CONSTANTS
    DeviceTable <- MCDeviceTable
    DeviceNames <- MCDeviceNames
SPECIFICATION Spec
INVARIANTS
    MemoryMapSound
    Efr32NoMissingPlaceholder
CHECK_DEADLOCK FALSE
