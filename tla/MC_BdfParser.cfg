CONSTANTS
    FontBoxes <- MCFontBoxes
    GlyphBlocks <- MCGlyphBlocks
    MaxGlyphs = 2
INIT Init
NEXT Next
INVARIANTS
    TypeOK
    FontMatchesFile
PROPERTY FontRefinement
CHECK_DEADLOCK FALSE
