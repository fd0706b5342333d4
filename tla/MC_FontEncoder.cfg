CONSTANTS
    CodePointList <- MCCodePointList
    Fonts <- MCFonts
INIT EncInit
NEXT Next
INVARIANTS
    EncTypeOK
    EncodedFontDecodes
CHECK_DEADLOCK FALSE
