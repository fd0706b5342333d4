------------------------------ MODULE BdfFont ------------------------------
(***************************************************************************)
(* What parseFontBDF promises, in the terms of spec sections 4.1 and 7:    *)
(* the font bounding box fixes the cell; then the glyph blocks of the file *)
(* are taken in order, and each one either is skipped (a negative x        *)
(* offset) or, in one step, puts its glyph under its codepoint, replacing  *)
(* any earlier glyph there; at ENDFONT the font is complete, and any       *)
(* malformed input ends the run with no font.  A glyph is its advance      *)
(* width and its pixels in the cell.  Whether the font is monospaced is    *)
(* left out: see FontFollowsSpec in BdfParser.                             *)
(***************************************************************************)
EXTENDS BdfBlocks, TLC

CONSTANTS
    FontBoxes,     \* FONTBOUNDINGBOX arguments <<w, h, x, y>> a file may give
    GlyphBlocks    \* the glyph blocks a file may hold

VARIABLES
    cell,          \* NoCell, or the cell's width, height and baseline
    glyphs,        \* codepoint -> glyph
    phase,         \* "header", "body", "done" or "error"
    read           \* the glyph blocks of the file taken so far, in order

fontVars == <<cell, glyphs, phase, read>>

NoCell == [width |-> 0, height |-> 0, baseline |-> 0]

NoGlyphs == <<>>

FontInit ==
    /\ cell = NoCell
    /\ glyphs = NoGlyphs
    /\ phase = "header"
    /\ read = <<>>

SetCell ==
    /\ phase = "header"
    /\ \E fb \in FontBoxes :
          cell' = [width |-> fb[1], height |-> fb[2], baseline |-> -fb[4]]
    /\ phase' = "body"
    /\ UNCHANGED <<glyphs, read>>

\* The next block of the file puts its glyph in the font.
AddGlyph ==
    /\ phase = "body"
    /\ \E blk \in GlyphBlocks :
          /\ IsKept(blk)
          /\ read' = Append(read, blk)
          /\ glyphs' = (Decl(blk, "ENCODING")[1] :> Glyph(cell, blk)) @@ glyphs
    /\ UNCHANGED <<cell, phase>>

\* The next block of the file has a negative x offset: it adds nothing.
SkipGlyph ==
    /\ phase = "body"
    /\ \E blk \in GlyphBlocks :
          /\ Decl(blk, "BBX") # <<>> /\ Decl(blk, "BBX")[3] < 0
          /\ read' = Append(read, blk)
    /\ UNCHANGED <<cell, glyphs, phase>>

Finish ==
    /\ phase = "body"
    /\ phase' = "done"
    /\ UNCHANGED <<cell, glyphs, read>>

Fail ==
    /\ phase \in {"header", "body"}
    /\ phase' = "error"
    /\ glyphs' = NoGlyphs
    /\ read' = <<>>
    /\ UNCHANGED cell

FontNext == SetCell \/ AddGlyph \/ SkipGlyph \/ Finish \/ Fail

FontSpec == FontInit /\ [][FontNext]_fontVars
=============================================================================
