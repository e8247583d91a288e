---------------------------- MODULE GridRenderer ----------------------------
(***************************************************************************)
(* NativeDrawingRenderer: how a snapshot of the terminal's cells becomes a *)
(* frame, and how a point of that frame becomes a cell again.  The vsync   *)
(* thread draws a frame with m_surfaceMutex held; surfaces come and go     *)
(* under that mutex, so never during a frame.  The UI thread's SetConfig() *)
(* and SetDensity() do not take it: their setters run between the steps of *)
(* a frame, and only the glyph cache has a lock.                           *)
(*                                                                         *)
(* Widths are whole units.  The canvas is the list of what was painted on  *)
(* it, so that what is on top can be told.  Heights, the shapes of builtin *)
(* glyphs and the colours of a theme are left out.                         *)
(***************************************************************************)
EXTENDS Integers, Sequences, FiniteSets, SequencesExt, FiniteSetsExt

CONSTANTS
    Rows, Cols,
    Grids,         \* bound: the snapshots that are drawn
    Cursors,       \* bound: where the cursor is, <<row, col>>, or NoCursor
    WindowWidth,   \* m_width
    Families,      \* font families; the default one is DefaultFamily
    DefaultFamily,
    Advance,       \* the width of a glyph of a family at size 1
    Sizes,         \* m_fontSize * m_density; 1 at first
    Spacing,       \* m_characterSpacing
    MaxGlyphs,     \* kMaxGlyphCacheEntries
    QueueSize      \* buffers of a window

Colours == {"default", "ink", "paper", "cursor", "cursorText"}
Blank == " "
Texts == {Blank, "i", "M", "han", "box"}
\* span 0: the tail of a wide cell, or the spacer at the end of a row.
Cell == [text : Texts, span : 0..2, fg : Colours, bg : Colours,
         inverse : BOOLEAN, hidden : BOOLEAN]
NoCursor == <<0, 0>>

ASSUME RendererAssumption ==
    /\ Rows \in Nat \ {0} /\ Cols \in Nat \ {0}
    /\ Grids \subseteq [1..Rows -> [1..Cols -> Cell]]
    /\ \A cells \in Grids, r \in 1..Rows, c \in 1..Cols :
         cells[r][c].span = 2 => c < Cols /\ cells[r][c + 1].span = 0
    /\ Cursors \subseteq (1..Rows) \X (1..Cols) \union {NoCursor}
    /\ WindowWidth \in Nat \ {0}
    /\ DefaultFamily \in Families
    /\ Advance \in [Families -> [Texts \ {Blank} -> Nat \ {0}]]
    /\ Sizes \subseteq Nat \ {0} /\ 1 \in Sizes
    /\ Spacing \in Nat /\ MaxGlyphs \in Nat \ {0, 1} /\ QueueSize \in Nat \ {0}

VARIABLES
    \* --- the host ---
    resources,     \* m_resourceManager # nullptr
    hostFamily,    \* m_fontFamily
    \* --- the renderer ---
    window,        \* m_renderer exists and init() gave it its window and canvas
    fonts,         \* m_fontsConfigured
    family, size,  \* m_primaryFontFamily; m_fontSize * m_density
    line,          \* m_cursorStyle # 0: the cursor is a line, not a block
    prop,          \* m_isProportionalFont
    cellWidth,     \* m_cellWidth
    offsets,       \* m_rowOffsets
    cache,         \* m_glyphCache
    \* --- the window's buffers ---
    buffer,        \* m_currentBuffer: "none", "held" or "mapped"
    dequeued,      \* buffers requested from the window and not given back
    \* --- the UI thread ---
    todo,          \* what is left of SetConfig() or SetDensity()
    config,        \* its arguments
    \* --- the vsync thread ---
    vs,            \* where it is in drawFrame()
    row, col,
    layout,        \* what getGlyphLayout() returned, or NoLayout
    grid, cursor,  \* the cells and the cursor of the frame
    painted,       \* what was painted on the canvas, in order
    current        \* history: the settings have not changed since the frame began

hostVars == <<resources, hostFamily>>
fontVars == <<fonts, family, size, line>>
metricVars == <<prop, cellWidth>>
uiVars == <<todo, config>>
bufferVars == <<buffer, dequeued>>
frameVars == <<row, col, layout, grid, cursor, painted>>
vars == <<hostVars, window, fontVars, metricVars, offsets, cache, bufferVars,
          uiVars, vs, frameVars, current>>

Font == [family |-> family, size |-> size]
NoLayout == [text |-> Blank]
NoConfig == [family |-> DefaultFamily, size |-> 1, line |-> FALSE]
Shorter(x, y) == IF x < y THEN x ELSE y

-----------------------------------------------------------------------------
(* The glyph cache. *)

KeyOf(l) == <<l.text, l.fg, l.span>>
Layout(text, fg, span) == [text |-> text, fg |-> fg, span |-> span, font |-> Font]
Hits(c, new) == {e \in c : KeyOf(e) = KeyOf(new)}

\* getGlyphLayout(): the cache afterwards and the layout it returns.  The order of
\* the map is not specified: it may be any half of it that is evicted.
getGlyphLayout(c, new) ==
    IF Hits(c, new) # {} THEN {[cache |-> c, layout |-> l] : l \in Hits(c, new)}
    ELSE IF Cardinality(c) >= MaxGlyphs
    THEN {[cache |-> (c \ gone) \union {new}, layout |-> new] :
             gone \in kSubset(Cardinality(c) \div 2, c)}
    ELSE {[cache |-> c \union {new}, layout |-> new]}

\* The caches after several of them, where NoLayout asks for nothing.
AfterLayouts(c, asked) ==
    LET after[n \in 0..Len(asked)] ==
            IF n = 0 THEN {c}
            ELSE IF asked[n] = NoLayout THEN after[n - 1]
            ELSE UNION {{g.cache : g \in getGlyphLayout(d, asked[n])} : d \in after[n - 1]}
    IN after[Len(asked)]

\* Mutant: no lock.
cacheUnlocked == TRUE

\* m_glyphCacheMutex, which renderGrid() holds from its first line to its last.
Painting == {"pass1", "pass2", "paint"}
cacheFree == vs \notin Painting

-----------------------------------------------------------------------------
(* Metrics. *)

isMonospace(f) == Advance[f]["i"] = Advance[f]["M"]
BaseWidth(s) == 2 * s
\* updateCellDimensions(): the width of a cell, an average for a proportional font.
MeasuredWidth(f, s) ==
    IF isMonospace(f) THEN Advance[f]["M"] * s
    ELSE (Advance[f]["i"] * s + Advance[f]["M"] * s + 1) \div 2

\* The probes of updateCellDimensions() and measureAverageGlyphWidth().
Probes == <<Layout("M", "ink", 1), Layout("i", "ink", 1)>>

\* computeRowMetrics(): what one cell is wide in a proportional font.
naturalWidth(cell) ==
    IF cell.span = 0 THEN 0
    ELSE IF cell.text = Blank THEN cellWidth * cell.span
    ELSE Advance[family][cell.text] * size + (IF cell.span = 1 THEN Spacing ELSE 0)

\* Where the cells of a row begin, and where its last one ends.
computeRowMetrics(cells) ==
    [r \in 1..Rows |->
        LET x[c \in 1..(Cols + 1)] ==
                IF c = 1 THEN 0 ELSE x[c - 1] + naturalWidth(cells[r][c - 1])
        IN x]

\* The layouts it asks for, one cell after the other.
gridLayouts(cells) ==
    [i \in 1..(Rows * Cols) |->
        LET cell == cells[(i - 1) \div Cols + 1][((i - 1) % Cols) + 1]
        IN IF cell.span > 0 /\ cell.text # Blank THEN Layout(cell.text, "ink", cell.span)
           ELSE NoLayout]

cellX(r, c) == IF prop /\ offsets # <<>> THEN offsets[r][c] ELSE (c - 1) * cellWidth

\* The end of a cell; what follows a wide cell has no width of its own.
cellEnd(r, c) ==
    IF prop /\ offsets # <<>> THEN offsets[r][c + 1]
    ELSE cellX(r, c) + cellWidth * grid[r][c].span

\* Mutant: a point on the border of two cells belongs to the first.
mapXToColOnBorder(r, x) ==
    LET off == offsets[r]
        search[p \in (1..(Cols + 1)) \X (0..Cols)] ==
            LET mid == (p[1] + p[2]) \div 2
            IN IF p[1] > p[2] THEN Shorter(p[1], Cols)
               ELSE IF x < off[mid] THEN search[<<p[1], mid - 1>>]
               ELSE IF x > off[mid + 1] THEN search[<<mid + 1, p[2]>>]
               ELSE mid
    IN IF ~prop \/ offsets = <<>> THEN x \div cellWidth + 1 ELSE search[<<1, Cols>>]

\* A click at x in row r; when the font is proportional, a binary search of the
\* columns between lo and hi, p = <<lo, hi>>.
mapXToCol(r, x) ==
    LET off == offsets[r]
        search[p \in (1..(Cols + 1)) \X (0..Cols)] ==
            LET mid == (p[1] + p[2]) \div 2
            IN IF p[1] > p[2] THEN Shorter(p[1], Cols)
               ELSE IF x < off[mid] THEN search[<<p[1], mid - 1>>]
               ELSE IF x >= off[mid + 1] THEN search[<<mid + 1, p[2]>>]
               ELSE mid
    IN IF ~prop \/ offsets = <<>> THEN x \div cellWidth + 1 ELSE search[<<1, Cols>>]

-----------------------------------------------------------------------------
(* What a row paints. *)

Here(r, c) == cursor = <<r, c>>
Builtin(cell) == cell.text = "box" /\ ~cell.hidden
CursorColour == "cursor"

\* The colours of a cell; a block cursor replaces them.
visual(cell, here) ==
    IF here /\ ~line THEN [fg |-> "cursorText", bg |-> CursorColour]
    ELSE IF cell.inverse THEN [fg |-> cell.bg, bg |-> cell.fg]
    ELSE [fg |-> cell.fg, bg |-> cell.bg]

\* paintCellBackground(), unless there is nothing to fill.
Fill(r, from, to, colour) ==
    IF from < to /\ colour \notin {"default", "none"}
    THEN <<[what |-> "fill", row |-> r, from |-> from, to |-> to, colour |-> colour]>>
    ELSE <<>>
Glyph(r, c, colour, font) ==
    [what |-> "glyph", row |-> r, col |-> c, colour |-> colour, font |-> font]

\* paintBuiltinGlyph(), and a line cursor above it.
paintBuiltinGlyph(r, c) ==
    IF Builtin(grid[r][c])
    THEN <<Glyph(r, c, visual(grid[r][c], Here(r, c)).fg, Font)>> ELSE <<>>
paintCursor(r, c) ==
    IF Here(r, c) /\ line THEN <<[what |-> "cursor", row |-> r, col |-> c]>> ELSE <<>>

NoRun == [ops |-> <<>>, from |-> 0, bg |-> "none"]

\* A run of one background ends at x.
flushRun(r, run, x) == run.ops \o Fill(r, run.from, x, run.bg)

\* One cell of the first pass: its background joins the run or starts one.
addCell(r, run, c) ==
    LET bg == visual(grid[r][c], Here(r, c)).bg
        marks == paintBuiltinGlyph(r, c) \o paintCursor(r, c)
    IN IF bg = run.bg THEN [run EXCEPT !.ops = @ \o marks]
       ELSE [ops |-> flushRun(r, run, cellX(r, c)) \o marks, from |-> cellX(r, c), bg |-> bg]

\* The first pass over a row; the margin gets the background of the last cell.
backgrounds(r) ==
    LET run[c \in 0..Cols] ==
            IF c = 0 THEN NoRun
            ELSE IF grid[r][c].span = 0 THEN run[c - 1]
            ELSE addCell(r, run[c - 1], c)
        end == cellX(r, Cols + 1)
    IN flushRun(r, run[Cols], Shorter(end, WindowWidth)) \o Fill(r, end, WindowWidth, run[Cols].bg)

-----------------------------------------------------------------------------
(* drawFrame(), in the vsync thread. *)

Init ==
    /\ resources = FALSE /\ hostFamily = DefaultFamily
    /\ window = FALSE /\ fonts = FALSE
    /\ family = DefaultFamily /\ size = 1 /\ line = FALSE
    /\ prop = FALSE /\ cellWidth = BaseWidth(1)
    /\ offsets = <<>> /\ cache = {}
    /\ buffer = "none" /\ dequeued = 0
    /\ todo = <<>> /\ config = NoConfig
    /\ vs = "idle" /\ row = 1 /\ col = 1 /\ layout = NoLayout
    /\ grid \in Grids /\ cursor = NoCursor /\ painted = <<>>
    /\ current = FALSE

\* beginFrame(), up to RequestBuffer, which fails when the queue is empty.
RequestBuffer ==
    /\ vs = "idle" /\ window
    /\ dequeued < QueueSize
    /\ grid' \in Grids
    /\ cursor' \in {at \in Cursors : at # NoCursor => grid'[at[1]][at[2]].span > 0}
    /\ buffer' = "held" /\ dequeued' = dequeued + 1
    /\ vs' = "begin"
    /\ painted' = <<>> /\ current' = FALSE
    /\ row' = 1 /\ col' = 1 /\ layout' = NoLayout
    /\ UNCHANGED <<hostVars, window, fontVars, metricVars, offsets, cache, uiVars>>

\* The rest of it: the native buffer, its pixels and the bitmap.  If one of them
\* fails the buffer is aborted, and renderGrid() and endFrame() return at once.
MapBuffer ==
    /\ vs = "begin"
    /\ \/ /\ buffer' = "mapped" /\ vs' = "render"
          /\ current' = TRUE
          /\ UNCHANGED dequeued
       \/ /\ buffer' = "none" /\ dequeued' = dequeued - 1
          /\ vs' = "idle"
          /\ UNCHANGED current
    /\ UNCHANGED <<hostVars, window, fontVars, metricVars, offsets, cache, uiVars, frameVars>>

\* renderGrid() locks the cache and measures the rows of a proportional font.
StartGrid ==
    /\ vs = "render"
    /\ vs' = "pass1"
    /\ IF prop
       THEN /\ offsets' = computeRowMetrics(grid)
            /\ cache' \in AfterLayouts(cache, gridLayouts(grid))
       ELSE UNCHANGED <<offsets, cache>>
    /\ UNCHANGED <<hostVars, window, fontVars, metricVars, bufferVars, uiVars,
                   frameVars, current>>

PaintRow ==
    /\ vs = "pass1"
    /\ painted' = painted \o backgrounds(row)
    /\ IF row < Rows THEN row' = row + 1 /\ UNCHANGED vs
       ELSE row' = 1 /\ vs' = "pass2"
    /\ UNCHANGED <<hostVars, window, fontVars, metricVars, offsets, cache, bufferVars,
                   uiVars, col, layout, grid, cursor, current>>

NextCell ==
    IF col < Cols THEN col' = col + 1 /\ UNCHANGED row /\ vs' = "pass2"
    ELSE IF row < Rows THEN col' = 1 /\ row' = row + 1 /\ vs' = "pass2"
    ELSE col' = 1 /\ row' = 1 /\ vs' = "end"

\* Mutant: builtin glyphs are not painted again.
VisitCellOnce ==
    /\ vs = "pass2"
    /\ LET cell == grid[row][col]
       IN /\ cell.span = 0 \/ Builtin(cell) \/ cell.hidden \/ cell.text = Blank
          /\ NextCell
    /\ UNCHANGED <<hostVars, window, fontVars, metricVars, offsets, cache, bufferVars,
                   uiVars, layout, grid, cursor, painted, current>>

\* The second pass, a cell with no text of the font: tails and blanks are passed
\* over, builtin glyphs painted again above the backgrounds.
VisitCell ==
    /\ vs = "pass2"
    /\ LET cell == grid[row][col]
       IN /\ cell.span = 0 \/ Builtin(cell) \/ cell.hidden \/ cell.text = Blank
          /\ painted' = IF cell.span > 0 /\ Builtin(cell)
                        THEN painted \o paintBuiltinGlyph(row, col) \o paintCursor(row, col)
                        ELSE painted
          /\ NextCell
    /\ UNCHANGED <<hostVars, window, fontVars, metricVars, offsets, cache, bufferVars,
                   uiVars, layout, grid, cursor, current>>

\* A cell with text: its layout is looked up ...
GetLayout ==
    /\ vs = "pass2"
    /\ LET cell == grid[row][col]
           fg == visual(cell, Here(row, col)).fg
       IN /\ cell.span > 0 /\ ~Builtin(cell) /\ ~cell.hidden /\ cell.text # Blank
          /\ \E g \in getGlyphLayout(cache, Layout(cell.text, fg, cell.span)) :
               cache' = g.cache /\ layout' = g.layout
    /\ vs' = "paint"
    /\ UNCHANGED <<hostVars, window, fontVars, metricVars, offsets, bufferVars, uiVars,
                   row, col, grid, cursor, painted, current>>

\* ... and painted.
PaintLayout ==
    /\ vs = "paint"
    /\ painted' = Append(painted, Glyph(row, col, layout.fg, layout.font))
    /\ layout' = NoLayout
    /\ NextCell
    /\ UNCHANGED <<hostVars, window, fontVars, metricVars, offsets, cache, bufferVars,
                   uiVars, grid, cursor, current>>

\* endFrame(): a buffer that cannot be flushed is aborted.
EndFrame ==
    /\ vs = "end"
    /\ buffer' = "none" /\ dequeued' = dequeued - 1
    /\ vs' = "idle"
    /\ current' \in {current, FALSE}
    /\ painted' = <<>>
    /\ UNCHANGED <<hostVars, window, fontVars, metricVars, offsets, cache, uiVars,
                   row, col, layout, grid, cursor>>

DrawFrame ==
    \/ RequestBuffer \/ MapBuffer \/ StartGrid \/ PaintRow
    \/ VisitCell \/ GetLayout \/ PaintLayout \/ EndFrame

-----------------------------------------------------------------------------
(* The settings, in the UI thread. *)

\* setFontSize(), setFontFamily(), setCharacterSpacing() and setCursorStyle() in
\* turn.  setLineSpacing() and setFontScaleBoost(), whose updates are like those of
\* the first and the third, are left out, and so are the colours: each frame sets them.
SetConfig(s, f, l) ==
    /\ todo = <<>>
    /\ hostFamily' = f
    /\ IF window
       THEN /\ config' = [family |-> f, size |-> s, line |-> l]
            /\ todo' = <<"size", "dims", "family", "clear", "dims", "clear", "dims", "style">>
       ELSE UNCHANGED uiVars
    /\ UNCHANGED <<resources, window, fontVars, metricVars, offsets, cache, bufferVars,
                   vs, frameVars, current>>

SetDensity(s) ==
    /\ todo = <<>> /\ window
    /\ config' = [NoConfig EXCEPT !.size = s]
    /\ todo' = <<"size", "dims">>
    /\ UNCHANGED <<hostVars, window, fontVars, metricVars, offsets, cache, bufferVars,
                   vs, frameVars, current>>

NextSetter(step) == todo # <<>> /\ Head(todo) = step /\ current' = FALSE
\* The arguments are gone when the call returns.
Continue(steps) == todo' = steps /\ config' = IF steps = <<>> THEN NoConfig ELSE config

WriteSetting ==
    /\ \E step \in {"size", "family", "style"} :
         /\ NextSetter(step)
         /\ size' = IF step = "size" THEN config.size ELSE size
         /\ family' = IF step = "family" THEN config.family ELSE family
         /\ line' = IF step = "style" THEN config.line ELSE line
    /\ Continue(Tail(todo))
    /\ UNCHANGED <<hostVars, window, fonts, metricVars, offsets, cache, bufferVars,
                   vs, frameVars>>

\* Mutant: the layouts of the old size stay.
UpdateDimensionsKeeping ==
    /\ NextSetter("dims")
    /\ cellWidth' = BaseWidth(size)
    /\ Continue((IF fonts THEN <<"measure">> ELSE <<>>) \o Tail(todo))
    /\ UNCHANGED <<hostVars, window, fontVars, prop, offsets, cache, bufferVars,
                   vs, frameVars>>

\* updateCellDimensions(): nothing is measured, and the cache is kept, until the
\* fonts were loaded.
UpdateDimensions ==
    /\ NextSetter("dims")
    /\ cellWidth' = BaseWidth(size)
    /\ Continue((IF fonts THEN <<"clear", "measure">> ELSE <<>>) \o Tail(todo))
    /\ UNCHANGED <<hostVars, window, fontVars, prop, offsets, cache, bufferVars,
                   vs, frameVars>>

clearGlyphCache ==
    /\ NextSetter("clear")
    /\ cacheFree
    /\ cache' = {}
    /\ Continue(Tail(todo))
    /\ UNCHANGED <<hostVars, window, fontVars, metricVars, offsets, bufferVars,
                   vs, frameVars>>

\* The probes; the offsets of a proportional font are dropped without a lock.
MeasureFont ==
    /\ NextSetter("measure")
    /\ cacheFree
    /\ cache' \in AfterLayouts(cache, Probes)
    /\ prop' = ~isMonospace(family)
    /\ offsets' = IF isMonospace(family) THEN <<>> ELSE offsets
    /\ cellWidth' = MeasuredWidth(family, size)
    /\ Continue(Tail(todo))
    /\ UNCHANGED <<hostVars, window, fontVars, bufferVars, vs, frameVars>>

-----------------------------------------------------------------------------
(* Surfaces and fonts, in the UI thread under m_surfaceMutex. *)

surfaceFree == todo = <<>> /\ vs = "idle"

\* The metrics of a renderer whose fonts are loaded under the mutex.
Measured(f, s) ==
    /\ prop' = ~isMonospace(f)
    /\ cellWidth' = MeasuredWidth(f, s)
    /\ offsets' = IF isMonospace(f) THEN <<>> ELSE offsets
    /\ cache' = {[l EXCEPT !.font = [family |-> f, size |-> s]] : l \in ToSet(Probes)}

\* OnSurfaceCreated() with a new renderer, whose init() succeeds; otherwise it is
\* deleted again.  Only the font family outlives the renderer it was set for.
OnSurfaceCreated ==
    /\ surfaceFree /\ ~window
    /\ window' = TRUE /\ fonts' = resources
    /\ family' = hostFamily /\ size' = 1 /\ line' = FALSE
    /\ IF resources THEN Measured(hostFamily, 1)
       ELSE /\ prop' = FALSE /\ cellWidth' = BaseWidth(1)
            /\ offsets' = <<>> /\ cache' = {}
    /\ current' = FALSE
    /\ UNCHANGED <<hostVars, bufferVars, uiVars, vs, frameVars>>

\* OnSurfaceDestroyed(): cleanup(), and the renderer is deleted.
OnSurfaceDestroyed ==
    /\ surfaceFree /\ window
    /\ window' = FALSE /\ fonts' = FALSE
    /\ family' = DefaultFamily /\ size' = 1 /\ line' = FALSE
    /\ prop' = FALSE /\ cellWidth' = BaseWidth(1)
    /\ offsets' = <<>> /\ cache' = {}
    /\ current' = FALSE /\ dequeued' = 0
    /\ painted' = <<>>
    /\ UNCHANGED <<hostVars, buffer, uiVars, vs, row, col, layout, grid, cursor>>

\* SetResourceManager(): loadFontAtlas(), if there is a renderer.
SetResourceManager ==
    /\ surfaceFree /\ ~resources
    /\ resources' = TRUE
    /\ fonts' = window
    /\ IF window THEN Measured(family, size) ELSE UNCHANGED <<metricVars, offsets, cache>>
    /\ current' = FALSE
    /\ UNCHANGED <<hostFamily, window, family, size, line, bufferVars, uiVars, vs, frameVars>>

Settings ==
    \/ \E s \in Sizes : SetDensity(s) \/ \E f \in Families, l \in BOOLEAN : SetConfig(s, f, l)
    \/ WriteSetting \/ UpdateDimensions \/ clearGlyphCache \/ MeasureFont
Surfaces == OnSurfaceCreated \/ OnSurfaceDestroyed \/ SetResourceManager

Next == DrawFrame \/ Settings \/ Surfaces

Safety == Init /\ [][Next]_vars

-----------------------------------------------------------------------------
(* Properties. *)

\* Every buffer that was requested is given back, whichever step of a frame
\* fails, and nothing is painted but the pixels of a mapped one.
BuffersAccounted ==
    /\ buffer \in {"none", "held", "mapped"}
    /\ dequeued = IF buffer = "none" THEN 0 ELSE 1
    /\ vs \in Painting \union {"render", "end"} => buffer = "mapped" /\ window
    /\ vs \in {"idle", "begin", "render", "end"} \union Painting
    /\ Cardinality(cache) <= MaxGlyphs
    /\ prop \in BOOLEAN /\ cellWidth \in Nat \ {0}
    /\ row \in 1..Rows /\ col \in 1..Cols

\* renderGrid() holds the cache lock "so that font-family changes (setFontFamily ->
\* clearGlyphCache) cannot free typography objects while the VSync thread is still
\* painting with them", and an eviction spares the layout it makes room for.
PaintsLiveGlyphs == vs = "paint" => layout \in cache

\* A frame paints a buffer it holds with layouts that exist, and gives it back.
PaintsLiveMemory == BuffersAccounted /\ PaintsLiveGlyphs

\* "A font-size or density change must invalidate the cache": however it races with
\* frames, no layout of an earlier font is left when the change is done.
GlyphsAreFresh == fonts /\ todo = <<>> => \A l \in cache : l.font = Font

\* No setting changed since the frame on the canvas was begun.
Undisturbed == current /\ todo = <<>>

TopFill(r, x) ==
    LET over == {i \in DOMAIN painted : /\ painted[i].what = "fill"
                                        /\ painted[i].row = r
                                        /\ painted[i].from <= x /\ x < painted[i].to}
    IN IF over = {} THEN "default" ELSE painted[Max(over)].colour

\* Was it painted, and no background over it since?
OnTop(mark, r, c) ==
    \E i \in DOMAIN painted :
      /\ painted[i] = mark
      /\ \A j \in (i + 1)..Len(painted) :
           painted[j].what = "fill" /\ painted[j].row = r =>
               painted[j].to <= cellX(r, c) \/ cellEnd(r, c) <= painted[j].from

\* The cell is painted: it is not the tail of a wide one.
Shows(r, c) == grid[r][c].span > 0

\* A frame no setting interferes with shows every cell: its background or the block
\* cursor, and above every background its glyph in its own colour and in the font
\* that is set; a line cursor is on top where nothing is painted after it.
FrameShowsCells ==
    vs = "end" /\ Undisturbed /\ fonts =>
        \A r \in 1..Rows, c \in 1..Cols : Shows(r, c) =>
            LET cell == grid[r][c]
                look == visual(cell, Here(r, c))
            IN /\ \A x \in cellX(r, c)..(cellEnd(r, c) - 1) :
                    x < WindowWidth => TopFill(r, x) = look.bg
               /\ cell.text # Blank /\ ~cell.hidden =>
                    OnTop(Glyph(r, c, look.fg, Font), r, c)
               /\ Here(r, c) /\ line /\ (Builtin(cell) \/ look.bg = "default") =>
                    OnTop([what |-> "cursor", row |-> r, col |-> c], r, c)

\* A click on what a frame shows of a cell reaches that cell, or the tail of a wide
\* one, in a monospace and in a proportional font.
ClickHitsCell ==
    vs \in {"end", "idle"} /\ Undisturbed =>
        \A r \in 1..Rows, c \in 1..Cols : Shows(r, c) =>
            \A x \in cellX(r, c)..(cellEnd(r, c) - 1) :
                mapXToCol(r, x) \in c..(c + grid[r][c].span - 1)
=============================================================================
