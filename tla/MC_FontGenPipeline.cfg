CONSTANTS
    FontBoxes <- MCFontBoxes
    GlyphBlocks <- MCPipeBlocks
    MaxGlyphs = 2
    CodePointList <- MCCodePointList
SPECIFICATION PipeFairSpec
INVARIANTS
    FontRoundTrip
PROPERTY PipelineEnds
CHECK_DEADLOCK FALSE
