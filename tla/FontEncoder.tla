---------------------------- MODULE FontEncoder ----------------------------
(***************************************************************************)
(* formatFontData of src/displays/common/tools/gmos-display-fontgen.py,    *)
(* called by formatStandardAsciiCode with the codepoints 0x20..0x7E: for   *)
(* each codepoint it appends the running byte count to the index, the      *)
(* advance width to the width table, substitutes the space glyph for a     *)
(* missing one, and copies each cell row trimmed to the bytes of the       *)
(* advance width.  At the end the layout is chosen: monospaced (data       *)
(* only), proportional (data and widths) or indexed (data, widths, index). *)
(*                                                                         *)
(* The text of the C arrays is left out: an emitted array is modelled by   *)
(* the sequence of numbers it lists.  Python's KeyError and IndexError end *)
(* the run; fault records which one.                                       *)
(***************************************************************************)
EXTENDS Integers, Sequences, TLC

CONSTANTS
    CodePointList,  \* the codepoints to emit, in order
    Fonts           \* the fontDefs parseFontBDF may hand over

Space == 32

VARIABLES
    font,           \* the fontDef being formatted
    epc,            \* "idle" (before the call), "char" (top of the codepoint
                    \* loop), "rows", "done" or "error"
    k,              \* index in CodePointList of the current codepoint
    i,              \* row of the current glyph
    charData,       \* the glyph bytes chosen for the current codepoint
    charWidth,      \* its advance width
    charIndex,      \* bytes emitted so far
    omitCharIndex,
    dataOut,        \* the numbers of charDataBlock
    widthsOut,      \* the numbers of charWidthsBlock
    indexOut,       \* the numbers of charIndexBlock
    layout,         \* the template substituted at the end
    fault           \* the exception that ended the run, or "none"

encVars == <<font, epc, k, i, charData, charWidth, charIndex, omitCharIndex,
             dataOut, widthsOut, indexOut, layout, fault>>

\* ((w - 1) // 8) + 1, Python's floor division: 0 for w = 0.
ByteWidth(w) == ((w - 1) \div 8) + 1

\* The large-font test: the advance width needs as many bytes per row as
\* the cell width does.
SameByteClassOffByOne(cw, fw) == cw \div 8 = fw \div 8
SameByteClass(cw, fw) == (cw - 1) \div 8 = (fw - 1) \div 8

\* formatStandardAsciiCode(fontDef) calls formatFontData with the codepoints
\* 0x20..0x7E; the locals take their values at the top of the function.
Call(f) ==
    /\ epc = "idle"
    /\ epc' = "char"
    /\ font' = f
    /\ k' = 1
    /\ i' = 0
    /\ charData' = <<>>
    /\ charWidth' = 0
    /\ charIndex' = 0
    /\ omitCharIndex' = TRUE
    /\ dataOut' = <<>>
    /\ widthsOut' = <<>>
    /\ indexOut' = <<>>
    /\ layout' = "none"
    /\ fault' = "none"

\* Before the call.
EncInit ==
    /\ epc = "idle"
    /\ font = [fontWidth |-> 0, fontHeight |-> 0, fontBaseline |-> 0,
                fontMonospaced |-> FALSE, charSet |-> <<>>, charWidths |-> <<>>]
    /\ k = 1
    /\ i = 0
    /\ charData = <<>>
    /\ charWidth = 0
    /\ charIndex = 0
    /\ omitCharIndex = TRUE
    /\ dataOut = <<>>
    /\ widthsOut = <<>>
    /\ indexOut = <<>>
    /\ layout = "none"
    /\ fault = "none"

\* The top of the codepoint loop: index and width entries, the large-font
\* check, then the glyph lookup with the space substitution.
StartCodePoint ==
    /\ epc = "char"
    /\ k <= Len(CodePointList)
    /\ LET cp == CodePointList[k]
           cw == IF cp \in DOMAIN font.charWidths THEN font.charWidths[cp]
                 ELSE font.fontWidth
       IN  /\ indexOut' = Append(indexOut, charIndex)
           /\ widthsOut' = Append(widthsOut, cw)
           /\ charWidth' = cw
           /\ omitCharIndex' = (omitCharIndex
                                /\ SameByteClass(cw, font.fontWidth))
           /\ \/ /\ cp \in DOMAIN font.charSet \/ Space \in DOMAIN font.charSet
                 /\ charData' = IF cp \in DOMAIN font.charSet
                                THEN font.charSet[cp] ELSE font.charSet[Space]
                 /\ epc' = "rows"
                 /\ UNCHANGED fault
              \/ /\ cp \notin DOMAIN font.charSet /\ Space \notin DOMAIN font.charSet
                 /\ fault' = "KeyError"
                 /\ epc' = "error"
                 /\ UNCHANGED charData
    /\ i' = 0
    /\ UNCHANGED <<font, k, charIndex, dataOut, layout>>

\* The byte positions in charData that row i copies.
RowPositions ==
    {i * ByteWidth(font.fontWidth) + j + 1 : j \in 0..ByteWidth(charWidth) - 1}

\* A variant of CopyRow that counts the cell stride instead of the bytes copied.
CopyRowCountingStride ==
    /\ epc = "rows"
    /\ RowPositions \subseteq DOMAIN charData
    /\ LET n == IF ByteWidth(charWidth) > 0 THEN ByteWidth(charWidth) ELSE 0
       IN  /\ dataOut' = dataOut \o [j \in 1..n |->
                            charData[i * ByteWidth(font.fontWidth) + j]]
           /\ charIndex' = charIndex + ByteWidth(font.fontWidth)
    /\ i' = i + 1
    /\ IF i + 1 = font.fontHeight
       THEN epc' = "char" /\ k' = k + 1
       ELSE UNCHANGED <<epc, k>>
    /\ UNCHANGED <<font, charData, charWidth, omitCharIndex, widthsOut,
                   indexOut, layout, fault>>

\* One iteration of the row loop copies the leading bytes of row i.
CopyRow ==
    /\ epc = "rows"
    /\ RowPositions \subseteq DOMAIN charData
    /\ LET n == IF ByteWidth(charWidth) > 0 THEN ByteWidth(charWidth) ELSE 0
       IN  /\ dataOut' = dataOut \o [j \in 1..n |->
                            charData[i * ByteWidth(font.fontWidth) + j]]
           /\ charIndex' = charIndex + n
    /\ i' = i + 1
    /\ IF i + 1 = font.fontHeight
       THEN epc' = "char" /\ k' = k + 1
       ELSE UNCHANGED <<epc, k>>
    /\ UNCHANGED <<font, charData, charWidth, omitCharIndex, widthsOut,
                   indexOut, layout, fault>>

\* A row reaches past the end of the glyph's bytes: IndexError.
RowOutOfRange ==
    /\ epc = "rows"
    /\ ~(RowPositions \subseteq DOMAIN charData)
    /\ epc' = "error"
    /\ fault' = "IndexError"
    /\ UNCHANGED <<font, k, i, charData, charWidth, charIndex, omitCharIndex,
                   dataOut, widthsOut, indexOut, layout>>

\* After the loop the template is chosen.
ChooseLayout ==
    /\ epc = "char"
    /\ k > Len(CodePointList)
    /\ layout' = IF font.fontMonospaced THEN "monospaced"
                 ELSE IF omitCharIndex THEN "proportional"
                 ELSE "indexed"
    /\ epc' = "done"
    /\ UNCHANGED <<font, k, i, charData, charWidth, charIndex, omitCharIndex,
                   dataOut, widthsOut, indexOut, fault>>

EncNext == StartCodePoint \/ CopyRow \/ RowOutOfRange \/ ChooseLayout

Next == (\E f \in Fonts : Call(f)) \/ EncNext

Spec == EncInit /\ [][Next]_encVars

-----------------------------------------------------------------------------
(***************************************************************************)
(* How the display library reads a glyph back (spec section 4.3): with no  *)
(* width table every glyph has the cell width, with no index glyph k       *)
(* starts at k * fontHeight * ByteWidth(fontWidth); the index is a C       *)
(* uint16_t array, so an entry holds its value modulo 2^16.                *)
(***************************************************************************)
DecodedWidth(n) ==
    IF layout = "monospaced" THEN font.fontWidth ELSE widthsOut[n]

DecodedOffset(n) ==
    IF layout = "indexed" THEN indexOut[n] % 65536
    ELSE (n - 1) * font.fontHeight * ByteWidth(font.fontWidth)

DecodedGlyph(n) ==
    LET len == font.fontHeight * ByteWidth(DecodedWidth(n))
    IN  [m \in 1..len |-> IF DecodedOffset(n) + m \in DOMAIN dataOut
                          THEN dataOut[DecodedOffset(n) + m] ELSE -1]

\* The first bytes of each row of a glyph's cell rows, for advance width w.
Trimmed(bytes, w) ==
    LET nb == ByteWidth(w)
    IN  [m \in 1..font.fontHeight * nb |->
            bytes[((m - 1) \div nb) * ByteWidth(font.fontWidth) + ((m - 1) % nb) + 1]]

-----------------------------------------------------------------------------
EncTypeOK ==
    /\ epc \in {"idle", "char", "rows", "done", "error"}
    /\ k \in 1..Len(CodePointList) + 1
    /\ charIndex = Len(dataOut)
    /\ Len(widthsOut) = Len(indexOut)
    /\ layout \in {"none", "monospaced", "proportional", "indexed"}
    /\ fault \in {"none", "KeyError", "IndexError"}

\* The glyph formatFontData means to emit for codepoint cp: its own, or the
\* space glyph when it has none, with its advance width or, when it has
\* none, the cell width.
SourceGlyph(cp) ==
    IF cp \in DOMAIN font.charSet THEN font.charSet[cp] ELSE font.charSet[Space]
SourceWidth(cp) ==
    IF cp \in DOMAIN font.charWidths THEN font.charWidths[cp] ELSE font.fontWidth

(***************************************************************************)
(* When formatFontData completes, the display library, reading the arrays  *)
(* the chosen template emits, finds for every codepoint the width and the  *)
(* trimmed rows of the glyph meant for it.  This is about the agreement of *)
(* three separate pieces of formatFontData: the running charIndex, the     *)
(* trimming of each row to ByteWidth(charWidth) bytes, and the large-font  *)
(* test that decides whether an index is emitted, together with the        *)
(* fontMonospaced flag set by the parser.                                  *)
(***************************************************************************)
EncodedFontDecodes ==
    epc = "done" =>
        \A n \in 1..Len(CodePointList) :
            LET cp == CodePointList[n]
            IN  /\ DecodedWidth(n) = SourceWidth(cp)
                /\ DecodedGlyph(n) = Trimmed(SourceGlyph(cp), SourceWidth(cp))

(***************************************************************************)
(* Spec section 4.3 rule 1 and section 8: a codepoint with no glyph is     *)
(* rendered with the space glyph, its bytes and its advance width.         *)
(***************************************************************************)
SubstitutionMatchesSpace ==
    epc = "done" =>
        \A n \in 1..Len(CodePointList) :
            CodePointList[n] \notin DOMAIN font.charSet =>
                LET w == font.charWidths[Space]
                IN  /\ DecodedWidth(n) = w
                    /\ DecodedGlyph(n) = Trimmed(font.charSet[Space], w)

(***************************************************************************)
(* Spec section 3: a glyph wider than the cell is accepted and packed at   *)
(* the cell's byte stride; the run does not fail on it.                    *)
(***************************************************************************)
WideGlyphAccepted == fault # "IndexError"
=============================================================================
