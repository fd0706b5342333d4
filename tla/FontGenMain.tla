---------------------------- MODULE FontGenMain ----------------------------
(***************************************************************************)
(* The driver of src/displays/common/tools/gmos-display-fontgen.py: the    *)
(* command line is parsed, the code file and the header file are opened   *)
(* and given their prefixes, every *.bdf file under <font_dir>/ascii is    *)
(* parsed and formatted in sorted order, one definition appended to the    *)
(* code file and one declaration to the header file, and the header file   *)
(* is closed by its postfix (the #endif of the include guard).  The        *)
(* top-level handler turns KeyboardInterrupt and every Exception into a    *)
(* call of exit(), which ends the process with status 0.                   *)
(*                                                                         *)
(* One font's parse and format is the pipeline of FontGenPipeline; here    *)
(* only its outcome matters: it returns its texts or raises, and which    *)
(* fonts raise is an input, chosen at the start.  An output                *)
(* file is modelled by the sequence of the pieces written to it; a piece   *)
(* is a record naming the template and the font.                          *)
(***************************************************************************)
EXTENDS Naturals, Sequences

CONSTANTS
    NumFonts,      \* the number of .bdf files the glob finds
    FontStems,     \* fontFileName.stem of each, in sorted order: a sequence
                   \* of one-character strings
    FontDirs,      \* the --font_dir values: paths, absolute or relative
    Cwd            \* the working directory, an absolute path

\* A path is the sequence of its parts; an absolute one starts with "/".
ASSUME NumFonts \in Nat /\ DOMAIN FontStems = 1..NumFonts /\ Cwd[1] = "/"

VARIABLES
    mpc,           \* "args", "openCode", "openHeader", "fonts", "fontHeader",
                   \* "exited"
    fontDir,       \* params.font_dir, <<>> before the command line is parsed
    n,             \* the next font of the sorted list
    codeOut,       \* the pieces written to the code file, or <<>> if not created
    headerOut,     \* the pieces written to the header file, or <<>> if not created
    status,        \* the exit status once mpc = "exited"
    raised,        \* the exception the top-level handler caught, or "none"
    malformed,     \* the fonts whose parse or format raises
    charSetName    \* fontDef["charSetName"] of the current font, or "none"

mainVars == <<mpc, fontDir, n, codeOut, headerOut, status, raised, malformed,
              charSetName>>

Piece(kind, f) == [kind |-> kind, font |-> f]

\* The fixed texts main writes: the licence and include lines before the
\* fonts (the header's opens the include guard) and the header's #endif.
CodeFilePrefix    == Piece("codeFilePrefix", 0)
HeaderFilePrefix  == Piece("headerFilePrefix", 0)
HeaderFilePostfix == Piece("headerFilePostfix", 0)

MainInit ==
    /\ mpc = "args"
    /\ fontDir = <<>>
    /\ n = 1
    /\ codeOut = <<>>
    /\ headerOut = <<>>
    /\ status = 0
    /\ raised = "none"
    /\ malformed \in SUBSET (1..NumFonts)
    /\ charSetName = "none"

\* The handler catches exc, prints it and calls exit(): SystemExit with no
\* code, status 0.
HandlerExit(exc) ==
    /\ mpc' = "exited"
    /\ status' = 0
    /\ raised' = exc

\* argparse accepts the three required options, or prints usage and
\* raises SystemExit(2), which is not an Exception and ends the process.
ParseCommandLine ==
    /\ mpc = "args"
    /\ \/ /\ \E d \in FontDirs : fontDir' = d
          /\ mpc' = "openCode"
          /\ UNCHANGED <<status, raised>>
       \/ /\ mpc' = "exited"
          /\ status' = 2
          /\ UNCHANGED fontDir
    /\ UNCHANGED <<n, codeOut, headerOut, raised, malformed, charSetName>>

\* open(codeFileName, "w") and the prefix, or OSError.
OpenCodeFile ==
    /\ mpc = "openCode"
    /\ \/ /\ codeOut' = <<CodeFilePrefix>>
          /\ mpc' = "openHeader"
          /\ UNCHANGED <<status, raised>>
       \/ HandlerExit("OSError") /\ UNCHANGED codeOut
    /\ UNCHANGED <<fontDir, n, headerOut, malformed, charSetName>>

\* open(headerFileName, "w") and the prefix, or OSError.
OpenHeaderFile ==
    /\ mpc = "openHeader"
    /\ \/ /\ headerOut' = <<HeaderFilePrefix>>
          /\ mpc' = "fonts"
          /\ UNCHANGED <<status, raised>>
       \/ HandlerExit("OSError") /\ UNCHANGED headerOut
    /\ UNCHANGED <<fontDir, n, codeOut, malformed, charSetName>>

IsAbsolute(p) == p # <<>> /\ p[1] = "/"

\* PurePath.joinpath: an absolute argument replaces the path it is joined to.
JoinPath(a, b) == IF IsAbsolute(b) THEN b ELSE a \o b

\* open() resolves a relative path against the working directory.
Resolve(p) == IF IsAbsolute(p) THEN p ELSE Cwd \o p

\* asciiDir = Path(fontDir).joinpath("ascii")
AsciiDir == JoinPath(fontDir, <<"ascii">>)

\* asciiDir.glob("**/*.bdf") yields each file as asciiDir / its name, a
\* relative path when asciiDir is relative.
GlobPath(f) == AsciiDir \o <<FontStems[f]>>

\* parseFontBDF(fontName, asciiDir.joinpath(fontFileName)) opens the file
\* the glob found only if the joined path resolves to it.
FontPathExists(f) ==
    Resolve(JoinPath(AsciiDir, GlobPath(f))) = Resolve(GlobPath(f))

\* The characters of the stems the models use that \W matches.
NonWordChars == {"-", ".", " "}

RECURSIVE DropNonWord(_)
DropNonWord(s) ==
    IF s # <<>> /\ Head(s) \in NonWordChars THEN DropNonWord(Tail(s)) ELSE s

\* re.sub("\W+", "_", fontName): each run of non-word characters becomes
\* one underscore.
RECURSIVE SafeFontName(_)
SafeFontName(s) ==
    IF s = <<>> THEN <<>>
    ELSE IF Head(s) \in NonWordChars
         THEN <<"_">> \o SafeFontName(DropNonWord(Tail(s)))
         ELSE <<Head(s)>> \o SafeFontName(Tail(s))

\* formatStandardAsciiCode(fontDef): the definition of
\* gmosDisplayFontDef_<safeFontName> and its arrays.
Definition(f) ==
    [kind |-> "fontDefinition", font |-> f, symbol |-> SafeFontName(FontStems[f])]

\* headerFileTemplate: fontInfoCommentTemplate (the font's name, sizes and
\* character set, which no property reads) and the extern declaration of
\* gmosDisplayFontDef_$safeFontName.
HeaderFileTemplate(f, safeFontName) ==
    [kind |-> "fontDeclaration", font |-> f, symbol |-> safeFontName]

\* formatFontHeader(fontDef): headerFileTemplate substituted with the
\* font's fields and the safe name it makes by the same re.sub.
Declaration(f) == HeaderFileTemplate(f, SafeFontName(FontStems[f]))

WriteFont ==
    /\ mpc = "fonts" /\ n <= NumFonts
    /\ FontPathExists(n) /\ n \notin malformed
    /\ codeOut' = Append(codeOut, Definition(n))
    /\ charSetName' = "ASCII"
    /\ mpc' = "fontHeader"
    /\ UNCHANGED <<fontDir, n, headerOut, status, raised, malformed>>

\* The rest of the iteration: formatFontHeader(fontDef) reads
\* fontDef["charSetName"], a KeyError if it was never stored, and its text
\* is written to the header.
WriteFontHeader ==
    /\ mpc = "fontHeader"
    /\ IF charSetName # "none"
       THEN /\ headerOut' = Append(headerOut, Declaration(n))
            /\ n' = n + 1
            /\ mpc' = "fonts"
            /\ UNCHANGED <<status, raised>>
       ELSE /\ HandlerExit("KeyError")
            /\ UNCHANGED <<headerOut, n>>
    /\ UNCHANGED <<fontDir, codeOut, malformed, charSetName>>

\* open() of the font raises FileNotFoundError, or the parse or format of
\* the font raises (StopIteration, ValueError, KeyError, IndexError...).
FontRaises ==
    /\ mpc = "fonts" /\ n <= NumFonts
    /\ \/ ~FontPathExists(n) /\ HandlerExit("FileNotFoundError")
       \/ FontPathExists(n) /\ n \in malformed /\ HandlerExit("FontError")
    /\ UNCHANGED <<fontDir, n, codeOut, headerOut, malformed, charSetName>>

\* After the loop: the header postfix, both files closed, normal exit.
WritePostfix ==
    /\ mpc = "fonts" /\ n > NumFonts
    /\ headerOut' = Append(headerOut, HeaderFilePostfix)
    /\ mpc' = "exited"
    /\ status' = 0
    /\ UNCHANGED <<fontDir, n, codeOut, raised, malformed, charSetName>>

\* Ctrl-C at any point before the process ends: KeyboardInterrupt, exit().
Interrupt ==
    /\ mpc # "exited"
    /\ HandlerExit("KeyboardInterrupt")
    /\ UNCHANGED <<fontDir, n, codeOut, headerOut, malformed, charSetName>>

\* The steps the program takes by itself; Ctrl-C comes from outside.
MainStep ==
    \/ ParseCommandLine \/ OpenCodeFile \/ OpenHeaderFile
    \/ WriteFont \/ WriteFontHeader \/ FontRaises \/ WritePostfix

MainNext == MainStep \/ Interrupt

\* A single thread that never waits: while it has a step to take, it takes
\* one.  Nothing makes the user press Ctrl-C, so Interrupt is not fair.
MainSpec == MainInit /\ [][MainNext]_mainVars /\ WF_mainVars(MainStep)

-----------------------------------------------------------------------------
MainTypeOK ==
    /\ mpc \in {"args", "openCode", "openHeader", "fonts", "fontHeader", "exited"}
    /\ n \in 1..NumFonts + 1
    /\ status \in {0, 2}
    /\ raised \in {"none", "OSError", "FileNotFoundError", "FontError",
                   "KeyError", "KeyboardInterrupt"}

\* The fonts a file's pieces name, in the order written.
FontsIn(out, kind) ==
    LET s == SelectSeq(out, LAMBDA p : p.kind = kind)
    IN  [m \in 1..Len(s) |-> s[m].font]

\* The C symbols a file's pieces define or declare, in the order written.
SymbolsIn(out, kind) ==
    LET s == SelectSeq(out, LAMBDA p : p.kind = kind)
    IN  [m \in 1..Len(s) |-> s[m].symbol]

(***************************************************************************)
(* Spec section 7: malformed input aborts the run and the condition is     *)
(* surfaced to the invoker; no partial output is valid.  So a process that *)
(* ends with status 0 has written a complete header, closed by its         *)
(* postfix, and a definition of every font found.  The handler at the end *)
(* of main makes every exception, a missing font path included, end with  *)
(* status 0.                                                               *)
(***************************************************************************)
SuccessMeansComplete ==
    (mpc = "exited" /\ status = 0) =>
        /\ Len(headerOut) > 0
        /\ headerOut[Len(headerOut)].kind = "headerFilePostfix"
        /\ FontsIn(codeOut, "fontDefinition") = [m \in 1..NumFonts |-> m]

(***************************************************************************)
(* The --font_dir help text asks for "the source directory holding the BDF *)
(* font files" and says nothing about the form of the path: every font     *)
(* file the glob finds is then opened.  The path join in main's loop        *)
(* makes every open fail when the directory is given as a relative path.   *)
(***************************************************************************)
FoundFontsOpen == raised # "FileNotFoundError"

(***************************************************************************)
(* The comment above safeFontName: the name is made a safe C variable      *)
(* name, and the code file defines gmosDisplayFontDef_<safeFontName> and   *)
(* its arrays for each font.  So no two fonts written to the code file     *)
(* share a safe name; the glob is recursive and the substitution folds     *)
(* different stems together.                                               *)
(***************************************************************************)
DistinctFontSymbols ==
    LET defs == SymbolsIn(codeOut, "fontDefinition")
    IN  \A a, b \in 1..Len(defs) : a # b => defs[a] # defs[b]

=============================================================================
