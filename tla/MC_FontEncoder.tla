--------------------------- MODULE MC_FontEncoder ---------------------------
(***************************************************************************)
(* Fonts of height 2 with cells 8 and 9 pixels wide (one and two bytes per *)
(* row), holding any subset of the glyphs 0x20, 0x41, 0x42, with advance   *)
(* widths in one byte class below the cell, equal to it, wider than the    *)
(* cell in the same byte class, or a byte class wider.  fontMonospaced is  *)
(* TRUE only when every glyph has the cell width, as parseFontCharBDF      *)
(* guarantees, and may be FALSE even then (a skipped glyph's DWIDTH).      *)
(* Every glyph byte is distinct, so a byte read from the wrong glyph, row  *)
(* or column is noticed.  0x20, 0x41, 0x42 stand for range(0x20, 0x7F).   *)
(***************************************************************************)
EXTENDS FontEncoder

MCCodePointList == <<32, 65, 66>>

Height == 2

GlyphBytes(cp, fw) == [m \in 1..Height * ByteWidth(fw) |-> ((cp % 32) * 16) + m]

FontsOf(fw, widths) ==
    LET FontsWith(present) ==
          { [fontWidth |-> fw, fontHeight |-> Height, fontBaseline |-> 0,
             fontMonospaced |-> mono,
             charSet |-> [cp \in present |-> GlyphBytes(cp, fw)],
             charWidths |-> w]
          : w \in [present -> widths],
            mono \in BOOLEAN }
    IN  { f \in UNION { FontsWith(p) : p \in SUBSET {32, 65, 66} } :
            f.fontMonospaced => \A cp \in DOMAIN f.charWidths : f.charWidths[cp] = fw }

MCFonts == FontsOf(8, {4, 8, 9, 17}) \cup FontsOf(9, {8, 9, 16, 17})
=============================================================================
