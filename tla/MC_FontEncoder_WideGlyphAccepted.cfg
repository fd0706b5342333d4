CONSTANTS
    CodePointList <- MCCodePointList
    Fonts <- MCFonts
INIT EncInit
NEXT Next
INVARIANTS
    WideGlyphAccepted
CHECK_DEADLOCK FALSE
