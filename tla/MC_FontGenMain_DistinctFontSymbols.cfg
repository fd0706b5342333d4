CONSTANTS
    NumFonts <- MCNumFonts
    FontStems <- MCCollidingStems
    FontDirs <- MCFontDirs
    Cwd <- MCCwd
INIT MainInit
NEXT MainNext
INVARIANT DistinctFontSymbols
CHECK_DEADLOCK FALSE
