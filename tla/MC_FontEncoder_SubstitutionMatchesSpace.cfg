CONSTANTS
    CodePointList <- MCCodePointList
    Fonts <- MCFonts
INIT EncInit
NEXT Next
INVARIANTS
    SubstitutionMatchesSpace
CHECK_DEADLOCK FALSE
