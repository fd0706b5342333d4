----------------------------- MODULE BdfParser -----------------------------
(***************************************************************************)
(* parseFontBDF and parseFontCharBDF of                                    *)
(* src/displays/common/tools/gmos-display-fontgen.py: the font parser      *)
(* scans a BDF file for the font bounding box, then collects each glyph    *)
(* block STARTCHAR..ENDCHAR and hands it to the glyph parser, which reads  *)
(* the block's declarations up to BITMAP and then converts fontHeight      *)
(* cell rows into fontDef["charSet"][codePoint].                           *)
(*                                                                         *)
(* The file is supplied by the environment as it is read: each read of a   *)
(* line outside a glyph block chooses the next line, and the collection    *)
(* loop of a glyph block chooses the whole block from GlyphBlocks.  A      *)
(* line is a record: its keyword and its numeric arguments (for a hex      *)
(* row, its bytes).  Every Python exception ends the run, so all of them   *)
(* lead to pc = "error".                                                   *)
(***************************************************************************)
EXTENDS BdfBlocks, TLC

CONSTANTS
    FontBoxes,     \* FONTBOUNDINGBOX arguments <<w, h, x, y>> a file may give
    GlyphBlocks,   \* glyph blocks after STARTCHAR, each ending with ENDCHAR
    MaxGlyphs      \* bound on the glyph blocks in one file

ASSUME \A fb \in FontBoxes : fb[1] > 0 /\ fb[2] > 0 /\ fb[3] = 0
ASSUME MaxGlyphs \in Nat

StartChar == Line("STARTCHAR", <<>>)

VARIABLES
    pc,         \* "header", "body", "decl", "rows", "done" or "error"
    fontDef,    \* the font definition dictionary
    charLines,  \* the collected lines of the glyph block being parsed
    ci,         \* index in charLines of the next line lineIter yields
    char,       \* the local variables of parseFontCharBDF
    blocks      \* history: every glyph block collected so far

vars == <<pc, fontDef, charLines, ci, char, blocks>>

NoBounds == <<>>

\* The locals of parseFontCharBDF on entry.
CharEntry ==
    [codePoint |-> -1, padUpper |-> 0, padLower |-> 0, padLeft |-> 0,
     padRight |-> 0, charWidth |-> fontDef.fontWidth, bounds |-> NoBounds,
     i |-> 0, charBytes |-> <<>>]

Init ==
    /\ pc = "header"
    /\ fontDef = [fontWidth |-> 0, fontHeight |-> 0, fontBaseline |-> 0,
                  fontMonospaced |-> FALSE, charSet |-> <<>>, charWidths |-> <<>>]
    /\ charLines = <<>>
    /\ ci = 1
    /\ char = [codePoint |-> -1, padUpper |-> 0, padLower |-> 0, padLeft |-> 0,
               padRight |-> 0, charWidth |-> 0, bounds |-> NoBounds,
               i |-> 0, charBytes |-> <<>>]
    /\ blocks = <<>>

-----------------------------------------------------------------------------
(* parseFontBDF *)

\* The header loop meets FONTBOUNDINGBOX.
ReadFontBoundingBox ==
    /\ pc = "header"
    /\ \E fb \in FontBoxes :
          fontDef' = [fontDef EXCEPT !.fontWidth = fb[1], !.fontHeight = fb[2],
                                     !.fontBaseline = -fb[4],
                                     !.fontMonospaced = TRUE]
    /\ pc' = "body"
    /\ UNCHANGED <<charLines, ci, char, blocks>>

\* next(lineIter) raises StopIteration: the file ends before FONTBOUNDINGBOX,
\* before ENDFONT, or inside a glyph block before its ENDCHAR.
EndOfFile ==
    /\ pc \in {"header", "body"}
    /\ pc' = "error"
    /\ UNCHANGED <<fontDef, charLines, ci, char, blocks>>

\* The glyph loop meets ENDFONT: parseFontBDF returns fontDef.
ReadEndFont ==
    /\ pc = "body"
    /\ pc' = "done"
    /\ UNCHANGED <<fontDef, charLines, ci, char, blocks>>

\* The glyph loop meets STARTCHAR, collects the lines up to ENDCHAR and
\* calls parseFontCharBDF on them.
ReadStartChar ==
    /\ pc = "body"
    /\ Len(blocks) < MaxGlyphs
    /\ \E blk \in GlyphBlocks :
          /\ charLines' = <<StartChar>> \o blk
          /\ blocks' = Append(blocks, blk)
    /\ ci' = 1
    /\ char' = CharEntry
    /\ pc' = "decl"
    /\ UNCHANGED fontDef

-----------------------------------------------------------------------------
(* parseFontCharBDF: the declaration loop up to BITMAP *)

CurLine == charLines[ci]
HasLine == ci <= Len(charLines)

\* A declaration line other than the ones below (STARTCHAR, SWIDTH, ...).
Declared == {"BITMAP", "ENCODING", "BBX", "DWIDTH"}

\* A variant of CharOtherLine that does not advance lineIter.
CharOtherLineStays ==
    /\ pc = "decl" /\ HasLine /\ CurLine.kind \notin Declared
    /\ UNCHANGED <<pc, fontDef, charLines, ci, char, blocks>>

CharOtherLine ==
    /\ pc = "decl" /\ HasLine /\ CurLine.kind \notin Declared
    /\ ci' = ci + 1
    /\ UNCHANGED <<pc, fontDef, charLines, char, blocks>>

\* The block ends (ENDCHAR read) without a BITMAP line: StopIteration.
CharNoBitmap ==
    /\ pc = "decl" /\ ~HasLine
    /\ pc' = "error"
    /\ UNCHANGED <<fontDef, charLines, ci, char, blocks>>

CharEncoding ==
    /\ pc = "decl" /\ HasLine /\ CurLine.kind = "ENCODING"
    /\ char' = [char EXCEPT !.codePoint = CurLine.args[1]]
    /\ ci' = ci + 1
    /\ UNCHANGED <<pc, fontDef, charLines, blocks>>

\* BBX with a non-negative x offset sets the four paddings.
CharBBX ==
    /\ pc = "decl" /\ HasLine /\ CurLine.kind = "BBX"
    /\ CurLine.args[3] >= 0
    /\ LET b == CurLine.args
           padLeft  == b[3]
           padLower == fontDef.fontBaseline + b[4]
       IN  char' = [char EXCEPT !.bounds = b, !.padLeft = padLeft,
                                !.padRight = fontDef.fontWidth - padLeft - b[1],
                                !.padLower = padLower,
                                !.padUpper = fontDef.fontHeight - padLower - b[2]]
    /\ ci' = ci + 1
    /\ UNCHANGED <<pc, fontDef, charLines, blocks>>

\* BBX with a negative x offset: parseFontCharBDF returns, skipping the glyph.
CharSkip ==
    /\ pc = "decl" /\ HasLine /\ CurLine.kind = "BBX"
    /\ CurLine.args[3] < 0
    /\ pc' = "body"
    /\ UNCHANGED <<fontDef, charLines, ci, char, blocks>>

\* A variant of CharDWidth that leaves the font monospaced.
CharDWidthKeepsMonospaced ==
    /\ pc = "decl" /\ HasLine /\ CurLine.kind = "DWIDTH"
    /\ char' = [char EXCEPT !.charWidth = CurLine.args[1]]
    /\ ci' = ci + 1
    /\ UNCHANGED <<pc, fontDef, charLines, blocks>>

\* DWIDTH sets the advance width; one that differs from the cell width
\* marks the whole font proportional.
CharDWidth ==
    /\ pc = "decl" /\ HasLine /\ CurLine.kind = "DWIDTH"
    /\ char' = [char EXCEPT !.charWidth = CurLine.args[1]]
    /\ fontDef' = IF CurLine.args[1] # fontDef.fontWidth
                  THEN [fontDef EXCEPT !.fontMonospaced = FALSE]
                  ELSE fontDef
    /\ ci' = ci + 1
    /\ UNCHANGED <<pc, charLines, blocks>>

CharBitmap ==
    /\ pc = "decl" /\ HasLine /\ CurLine.kind = "BITMAP"
    /\ ci' = ci + 1
    /\ char' = [char EXCEPT !.i = 0, !.charBytes = <<>>]
    /\ pc' = "rows"
    /\ UNCHANGED <<fontDef, charLines, blocks>>

-----------------------------------------------------------------------------
(* parseFontCharBDF: the row loop, for i in range(fontHeight) *)

IsPadRow == char.i < char.padUpper \/ char.i >= fontDef.fontHeight - char.padLower

\* A variant of EndRow whose merge keeps a codepoint's earlier width.
EndRowKeepsOldWidth(rowBytes) ==
    LET bytes == char.charBytes \o rowBytes
    IN  /\ char' = [char EXCEPT !.charBytes = bytes, !.i = @ + 1]
        /\ fontDef' = [fontDef EXCEPT
                         !.charSet = (char.codePoint :> bytes) @@ @,
                         !.charWidths = @ @@ (char.codePoint :> char.charWidth)]
        /\ pc' = IF char.i + 1 = fontDef.fontHeight THEN "body" ELSE "rows"

\* The end of one iteration: the row's bytes are appended to charBytes and
\* charSet[codePoint], charWidths[codePoint] are (re)assigned; after the
\* last row parseFontCharBDF returns to the glyph loop.
EndRow(rowBytes) ==
    LET bytes == char.charBytes \o rowBytes
    IN  /\ char' = [char EXCEPT !.charBytes = bytes, !.i = @ + 1]
        /\ fontDef' = [fontDef EXCEPT
                         !.charSet = (char.codePoint :> bytes) @@ @,
                         !.charWidths = (char.codePoint :> char.charWidth) @@ @]
        /\ pc' = IF char.i + 1 = fontDef.fontHeight THEN "body" ELSE "rows"

CharPadRow ==
    /\ pc = "rows" /\ IsPadRow
    /\ EndRow(BlankRow(fontDef.fontWidth))
    /\ UNCHANGED <<charLines, ci, blocks>>

CharBitmapRow ==
    /\ pc = "rows" /\ ~IsPadRow
    /\ HasLine /\ CurLine.kind = "HEX" /\ char.bounds # NoBounds
    /\ EndRow(PackRow(CurLine.args, char.bounds[1], char.padLeft,
                      fontDef.fontWidth))
    /\ ci' = ci + 1
    /\ UNCHANGED <<charLines, blocks>>

\* next(lineIter) raises StopIteration, int(line, 16) raises ValueError on
\* ENDCHAR or a keyword line, or bounds is unbound because no BBX was read.
CharBadRow ==
    /\ pc = "rows" /\ ~IsPadRow
    /\ ~HasLine \/ CurLine.kind # "HEX" \/ char.bounds = NoBounds
    /\ pc' = "error"
    /\ UNCHANGED <<fontDef, charLines, ci, char, blocks>>

-----------------------------------------------------------------------------
Next ==
    \/ ReadFontBoundingBox \/ EndOfFile \/ ReadEndFont \/ ReadStartChar
    \/ CharOtherLine \/ CharNoBitmap \/ CharEncoding \/ CharBBX \/ CharSkip
    \/ CharDWidth \/ CharBitmap
    \/ CharPadRow \/ CharBitmapRow \/ CharBadRow

Spec == Init /\ [][Next]_vars

-----------------------------------------------------------------------------
\* The parser's variables keep their types; the font's two dicts share keys.
TypeOK ==
    /\ pc \in {"header", "body", "decl", "rows", "done", "error"}
    /\ fontDef.fontMonospaced \in BOOLEAN
    /\ \A cp \in DOMAIN fontDef.charSet :
          fontDef.charSet[cp] \in Seq(0..255) /\ fontDef.charWidths[cp] \in Int
    /\ DOMAIN fontDef.charSet = DOMAIN fontDef.charWidths
    /\ ci \in 1..Len(charLines) + 1
    /\ char.bounds \in {NoBounds} \cup (Int \X Int \X Int \X Int)

\* The cell pixel the glyph of blk should set, in this font's cell.
RefPixel(blk, r, c) ==
    CellPixel(fontDef.fontHeight, fontDef.fontBaseline, blk, r, c)

StoredRow(bytes, r) ==
    LET n == RowBytes(fontDef.fontWidth) IN SubSeq(bytes, r * n + 1, (r + 1) * n)

(***************************************************************************)
(* Between glyphs and at ENDFONT, the font holds exactly the codepoints of *)
(* the kept blocks read so far; each holds the glyph of the LAST kept      *)
(* block with that codepoint, fontHeight rows of RowBytes bytes whose      *)
(* pixels are that block's bitmap placed in the cell by its bounding box,  *)
(* and that block's advance width.  This is about parseFontCharBDF's skip  *)
(* on a negative x offset, its overwrite of a codepoint seen before, its   *)
(* padding rows, and the shift, bit reversal and byte split of each row.   *)
(***************************************************************************)
FontMatchesFile ==
    pc \in {"body", "done"} =>
    LET kept     == {n \in 1..Len(blocks) : IsKept(blocks[n])}
        Src(cp)  == blocks[CHOOSE n \in kept :
                             /\ Decl(blocks[n], "ENCODING")[1] = cp
                             /\ \A m \in kept : Decl(blocks[m], "ENCODING")[1] = cp
                                                => m <= n]
        H == fontDef.fontHeight
    IN  /\ DOMAIN fontDef.charSet = {Decl(blocks[n], "ENCODING")[1] : n \in kept}
        /\ \A cp \in DOMAIN fontDef.charSet :
              /\ Len(fontDef.charSet[cp]) = H * RowBytes(fontDef.fontWidth)
              /\ fontDef.charWidths[cp] = Decl(Src(cp), "DWIDTH")[1]
              /\ \A r \in 0..H - 1, c \in 0..fontDef.fontWidth - 1 :
                    PackedPixel(StoredRow(fontDef.charSet[cp], r), c)
                      = RefPixel(Src(cp), r, c)

\* A block with the two declarations spec 4.1 requires of every glyph.
WellDeclared(blk) == Decl(blk, "ENCODING") # <<>> /\ Decl(blk, "DWIDTH") # <<>>

(***************************************************************************)
(* The font parseFontBDF holds without an error is the one spec 4.1 and 7  *)
(* describe: no glyph kept from a block that lacks its ENCODING or its     *)
(* DWIDTH (missing declarations fail the run), the font monospaced exactly *)
(* while every glyph kept so far has the cell width (a skipped glyph adds  *)
(* nothing), and every glyph as FontMatchesFile places it, clipped to the  *)
(* cell.  This is about parseFontCharBDF's defaults for codePoint and      *)
(* charWidth, its DWIDTH side effect taking place before a BBX that skips  *)
(* the glyph, and a glyph or cell larger than the row conversion handles.  *)
(***************************************************************************)
FontFollowsSpec ==
    pc \in {"body", "done"} =>
    LET kept == {n \in 1..Len(blocks) : IsKept(blocks[n])}
    IN  /\ \A n \in kept : WellDeclared(blocks[n])
        /\ fontDef.fontMonospaced
             = \A n \in kept : Decl(blocks[n], "DWIDTH")[1] = fontDef.fontWidth
        /\ FontMatchesFile

-----------------------------------------------------------------------------
(***************************************************************************)
(* The refinement mapping to BdfFont.  The cell is the one fontDef holds;  *)
(* a glyph of the font is read back from its packed bytes.  The glyph      *)
(* block being converted enters the abstract font at its first row, the    *)
(* step that first reassigns charSet[codePoint]; until its last row the    *)
(* stored bytes are only a prefix, so the mapping takes that glyph from    *)
(* the block the parser holds (charLines).  An exception discards the      *)
(* font: parseFontBDF returns nothing.  The blocks read are the history    *)
(* variable blocks.                                                        *)
(***************************************************************************)
AbsCell ==
    [width |-> fontDef.fontWidth, height |-> fontDef.fontHeight,
     baseline |-> fontDef.fontBaseline]

StoredGlyph(cp) ==
    [width  |-> fontDef.charWidths[cp],
     pixels |-> [rc \in (0..fontDef.fontHeight - 1) \X (0..fontDef.fontWidth - 1) |->
                   PackedPixel(StoredRow(fontDef.charSet[cp], rc[1]), rc[2])]]

MidGlyph == pc = "rows" /\ char.i > 0

AbsGlyphs ==
    CASE pc = "error" -> <<>>
      [] MidGlyph ->
           (char.codePoint :> Glyph(AbsCell, Tail(charLines)))
             @@ [cp \in DOMAIN fontDef.charSet \ {char.codePoint} |-> StoredGlyph(cp)]
      [] OTHER -> [cp \in DOMAIN fontDef.charSet |-> StoredGlyph(cp)]

AbsPhase == IF pc \in {"decl", "rows"} THEN "body" ELSE pc

\* The block being parsed is taken when its first row is stored, or when
\* its BBX skips it.
AbsRead ==
    CASE pc = "error" -> <<>>
      [] pc = "decl" \/ (pc = "rows" /\ char.i = 0) -> SubSeq(blocks, 1, Len(blocks) - 1)
      [] OTHER -> blocks

Font == INSTANCE BdfFont
          WITH cell <- AbsCell, glyphs <- AbsGlyphs, phase <- AbsPhase, read <- AbsRead

(***************************************************************************)
(* parseFontBDF implements BdfFont: every step of the parser either leaves *)
(* the font as the spec sees it unchanged or is one step of it.  Stronger  *)
(* than FontMatchesFile, it also covers the states inside a glyph block:   *)
(* a glyph of another codepoint is never touched, the row loop's repeated  *)
(* reassignment of charSet and charWidths ends with the whole glyph, and   *)
(* a skipped or failing block adds nothing.                                *)
(***************************************************************************)
FontRefinement == Font!FontSpec
=============================================================================
