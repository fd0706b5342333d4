--------------------------- MODULE MC_FontGenMain ---------------------------
EXTENDS FontGenMain

\* Three font files: any of them may be malformed.
MCNumFonts == 3

\* 5x7.bdf, 6x13.bdf and 6x13-b.bdf.
MCFontStems == <<<<"5", "x", "7">>, <<"6", "x", "1", "3">>,
                 <<"6", "x", "1", "3", "-", "b">>>>

\* The build runs in /src, and names the font directory /src/fonts or fonts.
MCCwd == <<"/", "src">>
MCFontDirs == {<<"/", "src", "fonts">>, <<"fonts">>}

\* small/font-a.bdf, small/font_a.bdf and large/font.bdf: the first two
\* fold to font_a.
MCCollidingStems == <<<<"f", "-", "a">>, <<"f", "_", "a">>, <<"f">>>>
=============================================================================
