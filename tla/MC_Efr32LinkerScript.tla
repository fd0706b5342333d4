------------------------- MODULE MC_Efr32LinkerScript -------------------------
EXTENDS Efr32LinkerScript

(***************************************************************************)
(* The table's one row, and rows of the shape a row for another EFR32xG2x  *)
(* part would have (xG21, xG22, xG23): 8 KiB pages, 256, 512, 768 or 1024  *)
(* KiB of flash at 0x08000000, and 1, 3 or 5 pages for NVM3.  The build    *)
(* may also name a part the table does not hold.                          *)
(***************************************************************************)
\* Names for the rows: flash size in KiB and NVM3 pages.
OtherParts ==
    "F256N1" :> <<256, 1>> @@ "F256N3" :> <<256, 3>> @@ "F256N5" :> <<256, 5>> @@
    "F512N1" :> <<512, 1>> @@ "F512N3" :> <<512, 3>> @@ "F512N5" :> <<512, 5>> @@
    "F768N1" :> <<768, 1>> @@ "F768N3" :> <<768, 3>> @@ "F768N5" :> <<768, 5>> @@
    "F1024N1" :> <<1024, 1>> @@ "F1024N3" :> <<1024, 3>> @@ "F1024N5" :> <<1024, 5>>

OtherRows ==
    [name \in DOMAIN OtherParts |->
        [TARGET_DEVICE |-> name,
         FLASH_MEMORY_BASE |-> 134217728,
         FLASH_MEMORY_SIZE |-> OtherParts[name][1] * 1024,
         FLASH_PAGE_SIZE |-> 8 * 1024,
         RAM_MEMORY_SIZE |-> 64 * 1024,
         NVM3_PAGE_ALLOCATION |-> OtherParts[name][2]]]

MCDeviceTable == Efr32DeviceTable @@ OtherRows

MCDeviceNames == DOMAIN MCDeviceTable \cup {"EFR32MG21A010F1024IM32"}
=============================================================================
