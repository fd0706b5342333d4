CONSTANTS
    DeviceTable <- Stm32DeviceTable
    DeviceNames <- MCDeviceNames
SPECIFICATION StepSpec
INVARIANT Stm32ScriptOnSuccess
CHECK_DEADLOCK FALSE
