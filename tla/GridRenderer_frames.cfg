\* Frames of two screens while the font is changed and the surface comes and goes.
CONSTANTS
    Rows = 2
    Cols = 3
    Grids <- McGrids
    Cursors <- McCursors
    WindowWidth = 8
    Families = {"mono", "sans"}
    DefaultFamily = "mono"
    Advance <- McAdvance
    Sizes = {1, 2}
    Spacing = 1
    MaxGlyphs = 2
    QueueSize = 3

SPECIFICATION Safety

INVARIANTS
    PaintsLiveMemory
    GlyphsAreFresh
    FrameShowsCells
    ClickHitsCell
