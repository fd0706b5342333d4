----------------------------- MODULE BdfBlocks -----------------------------
(***************************************************************************)
(* The glyph blocks of a BDF file as the models read them, and what spec   *)
(* section 4.1 says a block puts in the font, independent of how           *)
(* parseFontCharBDF computes it.  A line is a record: its keyword and its  *)
(* numeric arguments (for a hex row, its bytes, most significant first).   *)
(***************************************************************************)
EXTENDS BdfRowPacking

Line(kind, args) == [kind |-> kind, args |-> args]

\* The arguments of the last declaration of a kind in a block, <<>> if none.
Decl(blk, kind) ==
    LET ks == {k \in 1..Len(blk) : blk[k].kind = kind}
    IN  IF ks = {} THEN <<>> ELSE blk[CHOOSE k \in ks : \A m \in ks : m <= k].args

HexRows(blk) == SelectSeq(blk, LAMBDA l : l.kind = "HEX")

\* A block the spec keeps: it has a bounding box with no negative x offset.
IsKept(blk) == Decl(blk, "BBX") # <<>> /\ Decl(blk, "BBX")[3] >= 0

\* The pixel (row r from the top, column c from the left) of a cell of the
\* given height and baseline that the glyph of blk sets: its own bitmap
\* placed by its bounding box, the bottom of the box y rows above the
\* baseline, blank elsewhere; what falls outside the cell is clipped, and a
\* row the block lacks (a malformed block, which fails the run) is blank.
CellPixel(height, baseline, blk, r, c) ==
    LET b      == Decl(blk, "BBX")
        bottom == baseline + b[4]          \* cell rows below the box
        top    == height - bottom - b[2]
    IN  IF /\ r - top \in 0..b[2] - 1 /\ r - top < Len(HexRows(blk))
           /\ c - b[3] \in 0..b[1] - 1
        THEN HexPixel(HexRows(blk)[r - top + 1].args, c - b[3])
        ELSE 0

\* The glyph spec 4.1 says blk defines in cell c: its advance width
\* and its pixels.
Glyph(c, blk) ==
    [width  |-> Decl(blk, "DWIDTH")[1],
     pixels |-> [rc \in (0..c.height - 1) \X (0..c.width - 1) |->
                   CellPixel(c.height, c.baseline, blk, rc[1], rc[2])]]
=============================================================================
