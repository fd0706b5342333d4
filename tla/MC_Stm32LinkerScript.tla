------------------------- MODULE MC_Stm32LinkerScript -------------------------
EXTENDS Stm32LinkerScript

\* The two parts of the table, and one the build might name that it lacks.
MCDeviceNames == DOMAIN Stm32DeviceTable \cup {"STM32L073RZ"}
=============================================================================
