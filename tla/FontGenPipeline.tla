-------------------------- MODULE FontGenPipeline --------------------------
(***************************************************************************)
(* One font through src/displays/common/tools/gmos-display-fontgen.py:     *)
(* parseFontBDF builds fontDef, then formatStandardAsciiCode hands it to   *)
(* formatFontData.  The parser is BdfParser itself; the encoder is an      *)
(* instance of FontEncoder started on the parsed fontDef.  The only        *)
(* channel between them is fontDef, including the fontMonospaced flag the  *)
(* glyph parser clears as a side effect and the encoder uses to pick the   *)
(* layout.                                                                 *)
(***************************************************************************)
EXTENDS BdfParser

CONSTANT CodePointList

VARIABLES font, epc, k, i, charData, charWidth, charIndex, omitCharIndex,
          dataOut, widthsOut, indexOut, layout, fault

parserVars == <<pc, fontDef, charLines, ci, char, blocks>>
encVars == <<font, epc, k, i, charData, charWidth, charIndex, omitCharIndex,
             dataOut, widthsOut, indexOut, layout, fault>>
allVars == <<parserVars, encVars>>

Enc == INSTANCE FontEncoder WITH Fonts <- {}

PipeInit == Init /\ Enc!EncInit

\* main() parses the font, then calls formatStandardAsciiCode(fontDef).
StartEncoding ==
    /\ pc = "done"
    /\ Enc!Call(fontDef)
    /\ UNCHANGED parserVars

PipeNext ==
    \/ epc = "idle" /\ Next /\ UNCHANGED encVars
    \/ StartEncoding
    \/ Enc!EncNext /\ UNCHANGED parserVars

PipeSpec == PipeInit /\ [][PipeNext]_allVars

\* One thread that never waits, reading a finite file: while a step is
\* possible one is taken.
PipeFairSpec == PipeSpec /\ WF_allVars(PipeNext)

-----------------------------------------------------------------------------
\* The last kept block of the file with codepoint cp.
KeptSource(cp) ==
    LET ns == {n \in 1..Len(blocks) :
                 IsKept(blocks[n]) /\ Decl(blocks[n], "ENCODING")[1] = cp}
    IN  blocks[CHOOSE n \in ns : \A m \in ns : m <= n]

HasKeptGlyph(cp) ==
    \E n \in 1..Len(blocks) :
        IsKept(blocks[n]) /\ Decl(blocks[n], "ENCODING")[1] = cp

\* Pixel (r, c) of the glyph the display library reads back for entry n.
DecodedPixel(n, r, c) ==
    LET nb == Enc!ByteWidth(Enc!DecodedWidth(n))
    IN  PackedPixel(SubSeq(Enc!DecodedGlyph(n), r * nb + 1, (r + 1) * nb), c)

(***************************************************************************)
(* From the BDF file to what the display library draws: when both passes   *)
(* complete, every requested codepoint that has a kept glyph in the file   *)
(* is read back with that glyph's advance width and, over that width, with *)
(* that glyph's pixels placed in the cell; a codepoint with none is read   *)
(* back with the pixels of the space glyph.  This is about the monospaced  *)
(* flag the glyph parser clears as a side effect and the layout the        *)
(* encoder derives from it, the skip and overwrite rules, and the row      *)
(* packing and trimming of both passes.                                    *)
(***************************************************************************)
FontRoundTrip ==
    epc = "done" =>
        \A n \in 1..Len(CodePointList) :
            LET cp  == CodePointList[n]
                src == IF HasKeptGlyph(cp) THEN KeptSource(cp) ELSE KeptSource(Enc!Space)
                w   == Enc!DecodedWidth(n)
            IN  /\ HasKeptGlyph(cp) => w = Decl(src, "DWIDTH")[1]
                /\ \A r \in 0..fontDef.fontHeight - 1, c \in 0..w - 1 :
                      DecodedPixel(n, r, c) = RefPixel(src, r, c)

(***************************************************************************)
(* Every run of the two passes ends: the parser's loops each consume a     *)
(* line, a glyph block or a cell row per iteration, and the encoder's      *)
(* loops a codepoint or a row, so the parse either raises or reaches       *)
(* ENDFONT and formatFontData then either raises or returns its text.      *)
(***************************************************************************)
PipelineEnds == <>(pc = "error" \/ epc \in {"done", "error"})
=============================================================================
