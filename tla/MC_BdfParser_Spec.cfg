CONSTANTS
    FontBoxes <- SpecFontBoxes
    GlyphBlocks <- SpecBlocks
    MaxGlyphs = 2
INIT Init
NEXT Next
INVARIANT FontFollowsSpec
CHECK_DEADLOCK FALSE
