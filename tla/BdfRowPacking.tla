--------------------------- MODULE BdfRowPacking ---------------------------
(***************************************************************************)
(* The row conversion of parseFontCharBDF in                               *)
(* src/displays/common/tools/gmos-display-fontgen.py: one BDF hex bitmap   *)
(* row of a glyph is shifted to the top of a 32-bit word, shifted right by *)
(* the glyph's left padding, bit-reversed by a 32-step loop and split into *)
(* the little-endian bytes of one packed cell row.                         *)
(*                                                                         *)
(* Python integers are unbounded, and a 32-bit word with its top bit set   *)
(* is beyond TLC's integers, so an integer of the program is modelled by   *)
(* its binary digits: a function from bit positions Bits to {0, 1}.  The   *)
(* hex rows the model feeds in are at most 4 bytes long and are never      *)
(* shifted left by more than 24 bits, so 64 positions hold every value.    *)
(*                                                                         *)
(* A BDF hex row is modelled by what int(line, 16) reads from it: its      *)
(* bytes, most significant first.                                          *)
(***************************************************************************)
EXTENDS Integers, Sequences, Functions

Bits == 0..63

\* int(line, 16) for a hex row whose bytes, most significant first, are hexBytes.
HexValue(hexBytes) ==
    [p \in Bits |->
        IF p < 8 * Len(hexBytes)
        THEN (hexBytes[Len(hexBytes) - p \div 8] \div 2^(p % 8)) % 2
        ELSE 0]

\* v << s and v >> s of a non-negative Python integer.
ShiftLeft(v, s)  == [p \in Bits |-> IF p >= s THEN v[p - s] ELSE 0]
ShiftRight(v, s) == [p \in Bits |-> IF p + s \in Bits THEN v[p + s] ELSE 0]

\* The left shift chosen from the glyph's own pixel width (bounds[0]) that
\* places the hex row's bytes at the top of a 32-bit word.
SourceShiftOffByOne(glyphWidth) ==
    CASE glyphWidth < 8  -> 24
      [] glyphWidth < 16 -> 16
      [] glyphWidth < 24 -> 8
      [] OTHER           -> 0

SourceShift(glyphWidth) ==
    CASE glyphWidth <= 8  -> 24
      [] glyphWidth <= 16 -> 16
      [] glyphWidth <= 24 -> 8
      [] OTHER            -> 0

\* sourceData after "sourceData <<= ..." and "sourceData >>= padLeft".
AlignedSource(hexBytes, glyphWidth, padLeft) ==
    ShiftRight(ShiftLeft(HexValue(hexBytes), SourceShift(glyphWidth)), padLeft)

\* The bit-reversal loop: j more iterations of
\*   charData <<= 1; if sourceData & 1: charData |= 1; sourceData >>= 1
RECURSIVE ReverseLoop(_, _, _)
ReverseLoop(sourceData, charData, j) ==
    IF j = 0 THEN charData
    ELSE ReverseLoop(ShiftRight(sourceData, 1),
                     [ShiftLeft(charData, 1) EXCEPT ![0] = sourceData[0]],
                     j - 1)

Zero == [p \in Bits |-> 0]

ReverseBits32(sourceData) == ReverseLoop(sourceData, Zero, 32)

\* (v >> 8k) & 0xFF
ByteOfNineBits(v, k) == SumFunction([b \in 0..8 |-> v[8 * k + b] * 2^b])

ByteOf(v, k) == SumFunction([b \in 0..7 |-> v[8 * k + b] * 2^b])

\* Bytes per packed row: one, and one more for each of fontWidth > 8, > 16
\* and > 24.
RowBytes(fontWidth) ==
    1 + (IF fontWidth > 8 THEN 1 ELSE 0)
      + (IF fontWidth > 16 THEN 1 ELSE 0)
      + (IF fontWidth > 24 THEN 1 ELSE 0)

\* The bytes a padding row appends to charBytes.
BlankRow(fontWidth) == [k \in 1..RowBytes(fontWidth) |-> 0]

\* The bytes a bitmap row appends to charBytes.
PackRow(hexBytes, glyphWidth, padLeft, fontWidth) ==
    LET charData == ReverseBits32(AlignedSource(hexBytes, glyphWidth, padLeft))
    IN  [k \in 1..RowBytes(fontWidth) |-> ByteOf(charData, k - 1)]

-----------------------------------------------------------------------------
(***************************************************************************)
(* Reference pixel addressing, from the wording of the spec rather than    *)
(* the code: in a BDF hex row the leftmost pixel is the most significant   *)
(* bit of the first byte; in a packed row pixel column c is bit c % 8 of   *)
(* byte c \div 8, least significant byte first.                            *)
(***************************************************************************)
BitOf(byte, b) == (byte \div 2^b) % 2

HexPixel(hexBytes, col) ==
    IF col \div 8 < Len(hexBytes) THEN BitOf(hexBytes[col \div 8 + 1], 7 - (col % 8))
    ELSE 0

PackedPixel(rowBytes, col) ==
    IF col \div 8 < Len(rowBytes) THEN BitOf(rowBytes[col \div 8 + 1], col % 8)
    ELSE 0
=============================================================================
