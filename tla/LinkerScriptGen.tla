--------------------------- MODULE LinkerScriptGen ---------------------------
(***************************************************************************)
(* The shape shared by the two linker-script generators,                   *)
(* src/platforms/st-micro/stm32l0xx/tools/linker-script-gen.py and         *)
(* src/platforms/silicon-labs/efr32xg2x/tools/linker-script-gen.py: the    *)
(* command line gives a device name and, optionally, an output file; the   *)
(* output file is opened for writing (which creates it empty) before main  *)
(* runs; main looks the device up in deviceParameterTable, adds what it    *)
(* derives from the entry, substitutes the result into the template and    *)
(* writes the script.  The top-level handler prints any Exception and      *)
(* calls exit(), status 0, as it does for KeyboardInterrupt.               *)
(*                                                                         *)
(* The script text is modelled by what string.Template.substitute does     *)
(* with it: each placeholder is replaced by the mapping's value for it,    *)
(* and a placeholder with no value raises KeyError.  So a written script   *)
(* is the function from the template's placeholders to their values.      *)
(***************************************************************************)
EXTENDS Naturals, TLC

CONSTANTS
    DeviceTable,    \* deviceParameterTable: device name -> parameter dict
    TemplateKeys,   \* the placeholders of linkerTemplateString
    DeviceNames,    \* the --device values the build may pass
    Derive(_)       \* the table entry as main hands it to substitute

VARIABLES
    lpc,            \* "args", "open", "main", "exited"
    device,         \* params.device
    toFile,         \* params.output is given
    outFile,        \* "absent", "empty" once opened, "script" once written
    stdout,         \* "nothing", or "script" once written to sys.stdout
    script,         \* {} or {the script written}
    status,         \* the exit status once lpc = "exited"
    raised          \* the exception the handler caught, or "none"

genVars == <<lpc, device, toFile, outFile, stdout, script, status, raised>>

\* linkerTemplate.substitute(p)
Script(p) == [key \in TemplateKeys |-> p[key]]

GenInit ==
    /\ lpc = "args"
    /\ device = "none"
    /\ toFile = FALSE
    /\ outFile = "absent"
    /\ stdout = "nothing"
    /\ script = {}
    /\ status = 0
    /\ raised = "none"

\* print(e); exit()
HandlerExit(exc) ==
    /\ lpc' = "exited"
    /\ status' = 0
    /\ raised' = exc

\* parseCommandLine: --device and --output have defaults, so only an
\* unknown option or a malformed command line makes argparse exit with 2.
ParseCommandLine ==
    /\ lpc = "args"
    /\ \/ \E d \in DeviceNames, f \in BOOLEAN :
             /\ device' = d
             /\ toFile' = f
             /\ lpc' = IF f THEN "open" ELSE "main"
             /\ UNCHANGED <<status, raised>>
       \/ /\ lpc' = "exited"
          /\ status' = 2
          /\ UNCHANGED <<device, toFile, raised>>
    /\ UNCHANGED <<outFile, stdout, script>>

\* with open(params.output, "w") as f: creates the file empty, or OSError.
OpenOutput ==
    /\ lpc = "open"
    /\ \/ /\ outFile' = "empty"
          /\ lpc' = "main"
          /\ UNCHANGED <<status, raised>>
       \/ /\ HandlerExit("OSError")
          /\ UNCHANGED outFile
    /\ UNCHANGED <<device, toFile, stdout, script>>

\* main(params, out): the table lookup, the derived parameters, the
\* substitution and the write; the with block closes the file.
RunMain ==
    /\ lpc = "main"
    /\ \/ /\ device \notin DOMAIN DeviceTable
          /\ HandlerExit("KeyError")
          /\ UNCHANGED <<outFile, stdout, script>>
       \/ /\ device \in DOMAIN DeviceTable
          /\ LET p == Derive(DeviceTable[device])
             IN  IF TemplateKeys \subseteq DOMAIN p
                 THEN /\ script' = {Script(p)}
                      /\ IF toFile THEN outFile' = "script" /\ UNCHANGED stdout
                                   ELSE stdout' = "script" /\ UNCHANGED outFile
                      /\ lpc' = "exited"
                      /\ UNCHANGED <<status, raised>>
                 ELSE /\ HandlerExit("KeyError")
                      /\ UNCHANGED <<outFile, stdout, script>>
    /\ UNCHANGED <<device, toFile>>

\* Ctrl-C before the process ends.
Interrupt ==
    /\ lpc # "exited"
    /\ HandlerExit("KeyboardInterrupt")
    /\ UNCHANGED <<device, toFile, outFile, stdout, script>>

\* The steps the program takes by itself; Ctrl-C comes from outside.
GenStep == ParseCommandLine \/ OpenOutput \/ RunMain

GenNext == GenStep \/ Interrupt

GenSpec == GenInit /\ [][GenNext]_genVars

-----------------------------------------------------------------------------
GenTypeOK ==
    /\ lpc \in {"args", "open", "main", "exited"}
    /\ status \in {0, 2}
    /\ raised \in {"none", "OSError", "KeyError", "KeyboardInterrupt"}
    /\ outFile \in {"absent", "empty", "script"}
    /\ (script # {}) = (outFile = "script" \/ stdout = "script")

(***************************************************************************)
(* Every device of the table gets its script: substitute never meets a     *)
(* placeholder that the entry, with what main derives from it, has no      *)
(* value for.  A KeyError is only ever the lookup of an unknown device.    *)
(***************************************************************************)
NoMissingPlaceholder ==
    raised = "KeyError" => device \notin DOMAIN DeviceTable

(***************************************************************************)
(* A build step that ends with status 0 has produced its linker script:    *)
(* the handler's exit() after an unknown --device leaves an empty output   *)
(* file (or nothing on stdout) and reports success.                        *)
(***************************************************************************)
ScriptOnSuccess ==
    (lpc = "exited" /\ status = 0) => script # {}
=============================================================================
