--------------------------- MODULE MC_BdfParser ---------------------------
(***************************************************************************)
(* A 10 x 3 cell with baseline 1 (two bytes per packed row) and glyph      *)
(* blocks that cover the cases of parseFontCharBDF: a full-cell glyph, a   *)
(* 3-pixel glyph against the right edge, an 8-pixel glyph with one column   *)
(* of left padding, a glyph with a negative x offset; DWIDTH before and    *)
(* after BBX; codepoints 0x20 and 0x41 so that a codepoint can come twice; *)
(* advance widths equal to and narrower than the cell.  Each hex row sets  *)
(* the glyph's leftmost or rightmost pixel and the first row differs from  *)
(* the others, so a misplaced column or row changes some pixel.            *)
(***************************************************************************)
EXTENDS BdfParser

MCFontBoxes == {<<10, 3, 0, -1>>}

\* Bytes of a hex row of a glyph of width w whose only set pixel is col.
HexWithPixel(w, col) ==
    [k \in 1..((w - 1) \div 8 + 1) |->
        IF k = col \div 8 + 1 THEN 2^(7 - (col % 8)) ELSE 0]

HexLines(w, h, firstCol, otherCol) ==
    [r \in 1..h |-> Line("HEX", HexWithPixel(w, IF r = 1 THEN firstCol ELSE otherCol))]

Boxes == {<<10, 3, 0, -1>>, <<3, 1, 7, 0>>, <<8, 2, 1, -1>>, <<3, 1, -1, 0>>}

\* Blocks ENCODING, DWIDTH and BBX in either order, BITMAP, the hex rows.
BlocksOf(cps, dws, boxes, leftFirsts) ==
    UNION {
      { << Line("ENCODING", <<cp>>) >>
          \o (IF dwFirst THEN << Line("DWIDTH", <<dw, 0>>), Line("BBX", b) >>
                         ELSE << Line("BBX", b), Line("DWIDTH", <<dw, 0>>) >>)
          \o << Line("BITMAP", <<>>) >>
          \o (IF leftFirst THEN HexLines(b[1], b[2], 0, b[1] - 1)
                           ELSE HexLines(b[1], b[2], b[1] - 1, 0))
          \o << Line("ENDCHAR", <<>>) >>
        : dwFirst \in BOOLEAN, leftFirst \in leftFirsts }
      : cp \in cps, dw \in dws, b \in boxes }

WellFormedBlocks == BlocksOf({32, 65}, {10, 4}, Boxes, BOOLEAN)

\* Malformed blocks: a missing bitmap row, no BBX, no BITMAP.
MalformedBlocks ==
    { << Line("ENCODING", <<65>>), Line("DWIDTH", <<10, 0>>), Line("BBX", <<10, 3, 0, -1>>),
         Line("BITMAP", <<>>) >> \o HexLines(10, 2, 0, 9) \o << Line("ENDCHAR", <<>>) >>,
      << Line("ENCODING", <<65>>), Line("DWIDTH", <<10, 0>>),
         Line("BITMAP", <<>>) >> \o HexLines(10, 3, 0, 9) \o << Line("ENDCHAR", <<>>) >>,
      << Line("ENCODING", <<65>>), Line("DWIDTH", <<10, 0>>), Line("BBX", <<10, 3, 0, -1>>),
         Line("ENDCHAR", <<>>) >> }

MCGlyphBlocks == WellFormedBlocks \cup MalformedBlocks

\* A 3 x 4 glyph at y offset -1 in the 3-row cell: one row above the cell.
TallBlocks == BlocksOf({65}, {10}, {<<3, 4, 0, -1>>}, BOOLEAN)

\* A 33 x 1 cell and a full-cell glyph: five hex bytes, five row bytes.
WideFontBoxes == {<<33, 1, 0, 0>>}
WideBlocks == BlocksOf({65}, {33}, {<<33, 1, 0, 0>>}, BOOLEAN)

\* Kept blocks with no ENCODING, and with no DWIDTH.
MissingDeclBlocks ==
    { << Line("DWIDTH", <<10, 0>>), Line("BBX", <<10, 3, 0, -1>>),
         Line("BITMAP", <<>>) >> \o HexLines(10, 3, 0, 9) \o << Line("ENDCHAR", <<>>) >>,
      << Line("ENCODING", <<65>>), Line("BBX", <<10, 3, 0, -1>>),
         Line("BITMAP", <<>>) >> \o HexLines(10, 3, 0, 9) \o << Line("ENDCHAR", <<>>) >> }

\* A cell-width glyph and a narrower glyph skipped for its negative x offset.
SkippedNarrowBlocks ==
    BlocksOf({65}, {10}, {<<10, 3, 0, -1>>}, {TRUE})
      \cup BlocksOf({66}, {4}, {<<3, 1, -1, 0>>}, {TRUE})

\* The cases spec 4.1 and 7 decide: missing declarations, a skipped glyph,
\* a glyph above the 3-row cell, a 33-pixel cell.
SpecFontBoxes == MCFontBoxes \cup WideFontBoxes
SpecBlocks == MissingDeclBlocks \cup SkippedNarrowBlocks \cup TallBlocks \cup WideBlocks
=============================================================================
