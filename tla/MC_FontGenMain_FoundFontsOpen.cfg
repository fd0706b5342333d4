CONSTANTS
    NumFonts <- MCNumFonts
    FontStems <- MCFontStems
    FontDirs <- MCFontDirs
    Cwd <- MCCwd
INIT MainInit
NEXT MainNext
INVARIANT FoundFontsOpen
CHECK_DEADLOCK FALSE
