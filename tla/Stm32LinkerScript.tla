-------------------------- MODULE Stm32LinkerScript --------------------------
(***************************************************************************)
(* src/platforms/st-micro/stm32l0xx/tools/linker-script-gen.py: the        *)
(* generic generator with the STM32L0xx table and template placeholders;   *)
(* main substitutes the table entry as it is.  The table's values are the  *)
(* texts the linker reads ("128K", "0x20005000").                          *)
(***************************************************************************)
EXTENDS Naturals, TLC

CONSTANTS DeviceTable, DeviceNames

VARIABLES lpc, device, toFile, outFile, stdout, script, status, raised

\* deviceParameterTable
Stm32DeviceTable ==
    "STM32L010RB" :> [TARGET_DEVICE |-> "STM32L010RB", FLASH_SIZE |-> "128K",
                      RAM_SIZE |-> "20K", RAM_ADDR_TOP |-> "0x20005000",
                      RAM_RESERVED |-> "0x1000"]
 @@ "STM32L072CZ" :> [TARGET_DEVICE |-> "STM32L072CZ", FLASH_SIZE |-> "192K",
                      RAM_SIZE |-> "20K", RAM_ADDR_TOP |-> "0x20005000",
                      RAM_RESERVED |-> "0x1000"]

\* The ${...} placeholders of linkerTemplateString.
Stm32TemplateKeys ==
    {"TARGET_DEVICE", "RAM_ADDR_TOP", "RAM_RESERVED", "FLASH_SIZE", "RAM_SIZE"}

\* main(params, out) hands deviceParameterTable[params.device] to substitute.
Stm32Derive(p) == p

Gen == INSTANCE LinkerScriptGen
           WITH TemplateKeys <- Stm32TemplateKeys, Derive <- Stm32Derive

Spec == Gen!GenSpec

\* The behaviours without Ctrl-C: the exits that the Exception handler
\* makes.
StepSpec == Gen!GenInit /\ [][Gen!GenStep]_Gen!genVars

(***************************************************************************)
(* A build step that ends with status 0 has produced its linker script.    *)
(* The handler at the end of the file turns the KeyError of an unknown     *)
(* --device into exit(), status 0, with the output file left empty.        *)
(***************************************************************************)
Stm32ScriptOnSuccess == Gen!ScriptOnSuccess
=============================================================================
