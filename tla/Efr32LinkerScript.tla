-------------------------- MODULE Efr32LinkerScript --------------------------
(***************************************************************************)
(* src/platforms/silicon-labs/efr32xg2x/tools/linker-script-gen.py: the    *)
(* generic generator with the EFR32xG2x table, template placeholders and   *)
(* the flash partition main derives: the top pages of flash, NVM3's pages  *)
(* plus one page of tokens and keys, become the NVM region and the rest    *)
(* the FLASH region the image is linked into.                              *)
(***************************************************************************)
EXTENDS Integers, TLC

CONSTANTS DeviceTable, DeviceNames

VARIABLES lpc, device, toFile, outFile, stdout, script, status, raised

\* deviceParameterTable
Efr32DeviceTable ==
    "EFR32MG24B220F1536IM48" :>
        [TARGET_DEVICE |-> "EFR32MG24B220F1536IM48",
         FLASH_MEMORY_BASE |-> 134217728,            \* 0x08000000
         FLASH_MEMORY_SIZE |-> 1536 * 1024,
         FLASH_PAGE_SIZE |-> 8 * 1024,
         RAM_MEMORY_SIZE |-> 256 * 1024,
         NVM3_PAGE_ALLOCATION |-> 5]

\* The ${...} placeholders of linkerTemplateString.
Efr32TemplateKeys ==
    {"TARGET_DEVICE", "FLASH_IMAGE_BASE", "FLASH_IMAGE_SIZE",
     "FLASH_NVM_BASE", "FLASH_NVM_SIZE", "RAM_MEMORY_SIZE"}

\* A variant of Efr32Derive that forgets to store the NVM base.
Efr32DeriveNoNvmBase(p) ==
    LET nvmSize == p.FLASH_PAGE_SIZE * (1 + p.NVM3_PAGE_ALLOCATION)
    IN  [FLASH_IMAGE_SIZE |-> p.FLASH_MEMORY_SIZE - nvmSize,
         FLASH_IMAGE_BASE |-> p.FLASH_MEMORY_BASE,
         FLASH_NVM_SIZE |-> nvmSize] @@ p

\* A variant of Efr32Derive that leaves the image the whole flash.
Efr32DeriveWholeImage(p) ==
    LET top     == p.FLASH_MEMORY_BASE + p.FLASH_MEMORY_SIZE
        nvmSize == p.FLASH_PAGE_SIZE * (1 + p.NVM3_PAGE_ALLOCATION)
    IN  [FLASH_IMAGE_SIZE |-> p.FLASH_MEMORY_SIZE,
         FLASH_IMAGE_BASE |-> p.FLASH_MEMORY_BASE,
         FLASH_NVM_SIZE |-> nvmSize,
         FLASH_NVM_BASE |-> top - nvmSize] @@ p

\* main's derived parameters, stored into the entry before substitution.
Efr32Derive(p) ==
    LET top     == p.FLASH_MEMORY_BASE + p.FLASH_MEMORY_SIZE
        nvmSize == p.FLASH_PAGE_SIZE * (1 + p.NVM3_PAGE_ALLOCATION)
    IN  [FLASH_IMAGE_SIZE |-> p.FLASH_MEMORY_SIZE - nvmSize,
         FLASH_IMAGE_BASE |-> p.FLASH_MEMORY_BASE,
         FLASH_NVM_SIZE |-> nvmSize,
         FLASH_NVM_BASE |-> top - nvmSize] @@ p

Gen == INSTANCE LinkerScriptGen
           WITH TemplateKeys <- Efr32TemplateKeys, Derive <- Efr32Derive

Spec == Gen!GenSpec

-----------------------------------------------------------------------------
(***************************************************************************)
(* The memory map of every script written: FLASH starts at the base of the *)
(* device's flash and ends where NVM starts, NVM ends at the top of flash, *)
(* so the two regions tile the flash with no overlap; the image region is  *)
(* not empty; NVM starts on a page boundary and holds the NVM3 pages plus  *)
(* the token page the comment in main reserves.                            *)
(***************************************************************************)
MemoryMapSound ==
    \A s \in script :
        LET dev  == DeviceTable[device]
            page == dev.FLASH_PAGE_SIZE
        IN  /\ s.FLASH_IMAGE_BASE = dev.FLASH_MEMORY_BASE
            /\ s.FLASH_IMAGE_BASE + s.FLASH_IMAGE_SIZE = s.FLASH_NVM_BASE
            /\ s.FLASH_NVM_BASE + s.FLASH_NVM_SIZE
                 = dev.FLASH_MEMORY_BASE + dev.FLASH_MEMORY_SIZE
            /\ s.FLASH_IMAGE_SIZE > 0
            /\ s.FLASH_NVM_BASE % page = 0
            /\ s.FLASH_NVM_SIZE >= (dev.NVM3_PAGE_ALLOCATION + 1) * page

\* Every device of the table gets its script: main stores every value the
\* template's placeholders name before substitute runs.
Efr32NoMissingPlaceholder == Gen!NoMissingPlaceholder

=============================================================================
