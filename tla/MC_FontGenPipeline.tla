------------------------- MODULE MC_FontGenPipeline -------------------------
(***************************************************************************)
(* The 10 x 3 cell of MC_BdfParser; glyphs 0x20 and 0x41 that fill the     *)
(* cell, sit against its right edge or are skipped; advance widths equal   *)
(* to the cell (monospaced layout), narrower in the same byte class        *)
(* (proportional layout) and a byte class narrower (indexed layout).       *)
(* 0x42 is requested but never defined, so the space substitution runs.    *)
(***************************************************************************)
EXTENDS FontGenPipeline, MC_BdfParser

MCCodePointList == <<32, 65, 66>>

PipeBoxes == {<<10, 3, 0, -1>>, <<3, 1, 7, 0>>, <<3, 1, -1, 0>>}

MCPipeBlocks == BlocksOf({32, 65}, {10, 9, 4}, PipeBoxes, {TRUE})
=============================================================================
