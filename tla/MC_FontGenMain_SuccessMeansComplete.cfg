CONSTANTS
    NumFonts <- MCNumFonts
    FontStems <- MCFontStems
    FontDirs <- MCFontDirs
    Cwd <- MCCwd
INIT MainInit
NEXT MainStep
INVARIANT SuccessMeansComplete
CHECK_DEADLOCK FALSE
