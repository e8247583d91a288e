---------------------------- MODULE TerminalText ----------------------------
(***************************************************************************)
(* What a Terminal of terminal.cpp shows and gives away of its text: the   *)
(* selection it paints and copies, the search through the scrollback, the  *)
(* link under the pointer.  Every operation holds m_stateMutex, so each is *)
(* one step.  The grid and its scrollback are libghostty's.  Rows and      *)
(* columns are counted from 1, a row of the scrollback from its oldest.    *)
(* A character takes one place in a text, whatever bytes UTF-8 gives it.   *)
(***************************************************************************)
EXTENDS Integers, Sequences, FiniteSets, SequencesExt, FiniteSetsExt

CONSTANTS
    Rows, Cols,     \* m_rows, m_cols
    MaxRows,        \* m_maxScrollback and the screen, in rows
    Chars,          \* what a cell holds: a character, or one of its marks
    Lines,          \* rows that are written
    Starts,         \* what has been written at the start, a bound
    Queries,        \* texts that are searched for
    MaxFeeds,       \* batches of output after the start, a bound
    Schemes         \* characters a supported link scheme starts with

(* What libghostty writes: the tail follows its wide glyph in the same row. *)
ASSUME TextAssumption ==
    /\ Rows \in Nat \ {0} /\ Cols \in Nat \ {0} /\ MaxRows \in Nat /\ MaxRows > Rows
    /\ MaxFeeds \in Nat /\ {"blank", "space", "newline"} \subseteq Chars
    /\ \A line \in Lines :
          /\ line \in [1..Cols -> Chars]
          /\ \A c \in 1..Cols : line[c] = "wide" => c < Cols /\ line[c + 1] = "tail"
    /\ \A query \in Queries : query \in Seq(Chars)
    /\ \A b \in Starts : b \in Seq(Lines) /\ Len(b) \in Rows..MaxRows

VARIABLES
    buffer,         \* the rows of the primary screen, the oldest first
    offset,         \* the scrollbar's offset: rows above the viewport
    sel,            \* m_selectionActive, m_selStartRow ... m_selEndCol
    search,         \* m_searchActive, m_searchMatches, m_searchSelectedIndex (0: none)
    fed             \* batches of output so far

vars == <<buffer, offset, sel, search, fed>>

Col == 1..Cols
Row == 1..Rows
NoSelection == [on |-> FALSE, startRow |-> 1, startCol |-> 1,
                endRow |-> 1, endCol |-> 1]
BlankLine == [c \in Col |-> "blank"]
NoSearch == [active |-> FALSE, matches |-> <<>>, selected |-> 0]

(* A terminal that has written some rows and follows its output.           *)
Init ==
    /\ buffer \in Starts /\ offset = Len(buffer) - Rows
    /\ sel = NoSelection /\ search = NoSearch /\ fed = 0

-----------------------------------------------------------------------------
(* Cells.  A wide glyph has a lead cell and a tail; a head ends a row that *)
(* has no room for the lead.  A blank was never written.                   *)

IsSpacer(cell) == cell \in {"tail", "head"}
IsCellContent(cell) == ~IsSpacer(cell) /\ cell \notin {"blank", "space"}
Shown(cell) == IF cell = "blank" THEN "space" ELSE cell

(* ClassifySelectionCodepoint(); spacers have been cleared before.         *)
Kind(cell) == CASE IsSpacer(cell) \/ cell \in {"blank", "space"} -> "Whitespace"
                [] cell \in {"dot", "paren"} -> "Punctuation"
                [] OTHER -> "Word"

Lower(a, b) == IF a < b THEN a ELSE b
Higher(a, b) == IF a < b THEN b ELSE a
ClampIndex(value, limit) == Higher(1, Lower(value, limit))

LastContent(line) == SelectLastInSeq(line, IsCellContent)

(* The cells of a row that give a character, and where column c starts in  *)
(* them: the colOffsets of getScreenContent() and getScreenLine().         *)
Glyphs(cells) ==
    LET upTo[n \in 0..Len(cells)] ==
            IF n = 0 THEN <<>>
            ELSE IF IsSpacer(cells[n]) THEN upTo[n - 1]
            ELSE Append(upTo[n - 1], Shown(cells[n]))
    IN  upTo[Len(cells)]
TextOffset(line, c) == Len(Glyphs(SubSeq(line, 1, c - 1)))

(* Mutant: the whitespace at the end of a row stays.                       *)
TrimmedNowhere(line) == Glyphs(line)

Trimmed(line) == SubSeq(Glyphs(line), 1, TextOffset(line, LastContent(line) + 1))

(* The rows of search, links and highlighted matches: a place for a cell.  *)
RowText(line) ==
    [c \in Col |-> IF IsSpacer(line[c]) THEN "space" ELSE Shown(line[c])]

AsciiLower(text) == [i \in DOMAIN text |-> IF text[i] = "A" THEN "a" ELSE text[i]]

Viewport(row) == buffer[offset + row]

(* getScreenContent(): rows without content are dropped at the end only.   *)
getScreenContent ==
    LET last == Max({0} \cup {row \in Row : LastContent(Viewport(row)) > 0})
    IN  FlattenSeq([row \in 1..last |->
            Trimmed(Viewport(row)) \o (IF row < last THEN <<"newline">> ELSE <<>>)])

getScreenLine(row) == Trimmed(Viewport(row))

-----------------------------------------------------------------------------
(* The link under the pointer.                                             *)

IsUrlDelimiter(ch) == ch \in {"space", "paren"}

TrimUrlToken(token) ==
    LET Stays(ch) == ch \notin {"dot", "paren"}
    IN  SubSeq(token, 1, SelectLastInSeq(token, Stays))

(* The columns of the token around column c.                               *)
LinkLeft(text, c) ==
    Min({l \in 1..c : \A k \in l..c : ~IsUrlDelimiter(text[k])})
LinkRight(text, c) ==
    Max({r \in c..Cols : \A k \in c..r : ~IsUrlDelimiter(text[k])})

getLinkAt(row, c) ==
    LET text == RowText(Viewport(row))
        token == TrimUrlToken(SubSeq(text, LinkLeft(text, c), LinkRight(text, c)))
    IN  IF IsUrlDelimiter(text[c]) \/ token = <<>> THEN <<>>
        ELSE IF token[1] \in Schemes THEN token ELSE <<>>

-----------------------------------------------------------------------------
(* The selection.                                                          *)

IsSelectionBefore(rowA, colA, rowB, colB) ==
    rowA < rowB \/ (rowA = rowB /\ colA <= colB)

(* normalizeSelectionBounds().                                             *)
Bounds(s) ==
    IF IsSelectionBefore(s.startRow, s.startCol, s.endRow, s.endCol) THEN s
    ELSE [s EXCEPT !.startRow = s.endRow, !.startCol = s.endCol,
                   !.endRow = s.startRow, !.endCol = s.startCol]

(* IsCellSelected(): on inner rows the column bounds nothing on the right. *)
IsCellSelected(b, row, c) ==
    /\ b.startRow <= row /\ row <= b.endRow
    /\ c >= (IF row = b.startRow THEN b.startCol ELSE 1)
    /\ row = b.endRow => c <= b.endCol

(* Mutant: whitespace at the end of a row is on the selection.             *)
SelectionAtAnyCell(row, c) ==
    sel.on /\ IsCellSelected(Bounds(sel), offset + ClampIndex(row, Rows), c)

isSelectionAt(row, c) ==
    /\ sel.on
    /\ IsCellSelected(Bounds(sel), offset + ClampIndex(row, Rows), ClampIndex(c, Cols))
    /\ ClampIndex(c, Cols) <= LastContent(Viewport(ClampIndex(row, Rows)))

(* getSelectedText(): the first and last column it copies of a row of the  *)
(* viewport, and the text; only rows in the viewport are seen.             *)
CopyFrom(b, row) == IF offset + row = b.startRow THEN b.startCol ELSE 1
CopyTo(b, row) ==
    LET last == LastContent(Viewport(row))
    IN  IF offset + row = b.endRow THEN Lower(last, b.endCol) ELSE last
Copied(b) == {row \in Row : b.startRow <= offset + row /\ offset + row <= b.endRow}

getSelectedText ==
    LET b == Bounds(sel)
        Piece(row) ==
            Glyphs(SubSeq(Viewport(row), CopyFrom(b, row), CopyTo(b, row)))
              \o (IF offset + row < b.endRow THEN <<"newline">> ELSE <<>>)
    IN  IF ~sel.on THEN <<>>
        ELSE FlattenSeq([row \in Row |-> IF row \in Copied(b) THEN Piece(row) ELSE <<>>])

(* drawFrame(): the cells it paints as selected, a painted lead with its   *)
(* tail.  (A drag the application paints is only made on the alternate     *)
(* screen.)                                                                *)
PaintedSelected(row) ==
    LET b == Bounds(sel)
        lead == {c \in Col : /\ c >= (IF offset + row = b.startRow THEN b.startCol ELSE 1)
                             /\ c <= LastContent(Viewport(row))
                             /\ offset + row = b.endRow => c <= b.endCol}
    IN  IF ~sel.on \/ row \notin Copied(b) THEN {}
        ELSE lead \cup {c \in Col : c - 1 \in lead /\ Viewport(row)[c - 1] = "wide"}

startSelection(row, c) ==
    /\ sel' = [on |-> TRUE, startRow |-> offset + row, startCol |-> c,
               endRow |-> offset + row, endCol |-> c]
    /\ UNCHANGED <<buffer, offset, search, fed>>

updateSelection(row, c) ==
    /\ sel.on
    /\ sel' = [sel EXCEPT !.endRow = offset + row, !.endCol = c]
    /\ UNCHANGED <<buffer, offset, search, fed>>

(* extendSelection(): the new end is moved on to the other cell of a glyph *)
(* that it enters.                                                         *)
extendSelection(dRow, dCol) ==
    /\ sel.on
    /\ LET row == ClampIndex(sel.endRow - offset + dRow, Rows)
           c == ClampIndex(sel.endCol + dCol, Cols)
           cell == Viewport(row)[c]
           snapped == IF dCol = 0 \/ c = sel.endCol THEN c
                      ELSE IF dCol > 0 /\ cell = "wide" /\ c < Cols THEN c + 1
                      ELSE IF dCol < 0 /\ cell = "tail" /\ c > 1 THEN c - 1
                      ELSE c
       IN  sel' = [sel EXCEPT !.endRow = offset + row, !.endCol = snapped]
    /\ UNCHANGED <<buffer, offset, search, fed>>

SelectCols(row, from, to) ==
    /\ sel' = [on |-> TRUE, startRow |-> offset + row, startCol |-> from,
               endRow |-> offset + row, endCol |-> to]
    /\ UNCHANGED <<buffer, offset, search, fed>>

selectWordAt(row, c) ==
    LET line == Viewport(row)
        Same(d) == \A k \in Lower(c, d)..Higher(c, d) : Kind(line[k]) = Kind(line[c])
    IN  SelectCols(row, Min({d \in Col : Same(d)}), Max({d \in Col : Same(d)}))

(* selectLineAt(): up to the last text, which printed spaces are.          *)
selectLineAt(row) ==
    LET line == Viewport(row)
        HasText(cell) == ~IsSpacer(cell) /\ cell # "blank"
    IN  SelectCols(row, 1, Higher(1, SelectLastInSeq(line, HasText)))

clearSelection ==
    sel.on /\ sel' = NoSelection /\ UNCHANGED <<buffer, offset, search, fed>>

-----------------------------------------------------------------------------
(* The search.                                                             *)

MaxOffset == Len(buffer) - Rows

(* Mutant: the row above the viewport counts as shown.                     *)
InViewportOrAbove(row, top) == top <= row /\ row <= top + Rows

InViewport(row, top) == top < row /\ row <= top + Rows

(* Mutant: the query is not lowered.                                       *)
IsMatchOfCase(m, query) ==
    /\ m.col + m.len - 1 <= Cols
    /\ AsciiLower(SubSeq(RowText(buffer[m.row]), m.col, m.col + m.len - 1)) = query

IsMatch(m, query) ==
    /\ m.col + m.len - 1 <= Cols
    /\ AsciiLower(SubSeq(RowText(buffer[m.row]), m.col, m.col + m.len - 1))
         = AsciiLower(query)

(* The n-th place of the scrollback.                                       *)
Place(n, query) == [row |-> ((n - 1) \div Cols) + 1, col |-> ((n - 1) % Cols) + 1,
                    len |-> Len(query)]

(* rebuildSearchMatchesLocked(): every occurrence in a row, overlapping    *)
(* ones too, row by row.                                                   *)
Occurrences(query) ==
    LET upTo[n \in 0..(Len(buffer) * Cols)] ==
            IF n = 0 \/ query = <<>> THEN <<>>
            ELSE IF IsMatch(Place(n, query), query)
            THEN Append(upTo[n - 1], Place(n, query)) ELSE upTo[n - 1]
    IN  upTo[Len(buffer) * Cols]

MatchBefore(m, n) == m.row < n.row \/ (m.row = n.row /\ m.col <= n.col)

(* The first match in the viewport is selected, or the first of all.       *)
rebuildSearchMatches(query) ==
    LET matches == Occurrences(query)
        Visible(m) == InViewport(m.row, offset)
        visible == SelectInSeq(matches, Visible)
    IN  [active |-> TRUE, matches |-> matches,
         selected |-> IF matches = <<>> THEN 0 ELSE Higher(1, visible)]

(* determineScrollStepTowardsBottomLocked(): it finds out which way is     *)
(* down from the top of the scrollback and goes back from there; the step  *)
(* of the probe stays in the offset unless the bottom stops it.            *)
ProbedOffset == IF MaxOffset = 0 THEN offset ELSE Lower(1 + offset, MaxOffset)

(* syncSearchSelectionToViewportLocked().                                  *)
ScrollsToMatch(s) ==
    IF s.selected = 0 \/ InViewport(s.matches[s.selected].row, offset)
    THEN offset' = offset
    ELSE LET above == s.matches[s.selected].row - 1
             target == Lower(Higher(0, above - Rows \div 2), MaxOffset)
         IN  offset' = Higher(0, Lower(ProbedOffset + (target - offset), MaxOffset))

Searches(query) ==
    /\ search' = rebuildSearchMatches(query)
    /\ ScrollsToMatch(search')
    /\ UNCHANGED <<buffer, sel, fed>>

startSearch == \E query \in Queries : Searches(query)
searchSelection == Searches(getSelectedText)

navigateSearch(next) ==
    LET total == Len(search.matches)
        steps == IF next THEN 1 ELSE total - 1
    IN  /\ search.active /\ total > 0
        /\ search' = [search EXCEPT
                        !.selected = IF search.selected = 0
                                     THEN IF next THEN 1 ELSE total
                                     ELSE ((search.selected - 1 + steps) % total) + 1]
        /\ ScrollsToMatch(search')
        /\ UNCHANGED <<buffer, sel, fed>>

endSearch == search.active /\ search' = NoSearch /\ UNCHANGED <<buffer, offset, sel, fed>>

(* drawFrame(): a cell shows the first match that covers it, and what is   *)
(* selected is painted over that.                                          *)
FirstMatch(row, c) ==
    LET Covers(m) == m.row = row /\ m.col <= c /\ c < m.col + m.len
    IN  SelectInSeq(search.matches, Covers)
PaintedAs(row, c) ==
    IF c \in PaintedSelected(row) THEN "selection"
    ELSE IF ~search.active \/ FirstMatch(offset + row, c) = 0 THEN "text"
    ELSE IF FirstMatch(offset + row, c) = search.selected THEN "current" ELSE "match"

-----------------------------------------------------------------------------
(* Output and scrolling.  Old rows are dropped when the scrollback is      *)
(* full; a viewport at the bottom follows, another stays on its text.      *)

(* feedOutput(): the selection moves by as much as the viewport has, and   *)
(* is dropped once it has left the rows.                                   *)
ShiftSelection(s, delta, total) ==
    LET moved == [s EXCEPT !.startRow = @ + delta, !.endRow = @ + delta]
    IN  IF ~s.on THEN s
        ELSE IF moved.endRow < 1 + Higher(0, total - (MaxRows - Rows)) \/ moved.startRow > total
             THEN NoSelection
        ELSE moved

FeedLine(line) ==
    /\ buffer' = Append(IF Len(buffer) < MaxRows THEN buffer ELSE Tail(buffer), line)
    /\ offset' = IF offset = MaxOffset THEN Len(buffer') - Rows
                 ELSE IF Len(buffer) < MaxRows THEN offset ELSE Higher(0, offset - 1)
    /\ sel' = ShiftSelection(sel, offset' - offset, Len(buffer'))
    /\ UNCHANGED search

(* An application erases a row of the active screen.                       *)
FeedErase(row) ==
    /\ buffer' = [buffer EXCEPT ![MaxOffset + row] = BlankLine]
    /\ sel' = ShiftSelection(sel, 0, Len(buffer))
    /\ UNCHANGED <<offset, search>>

scrollView(delta) ==
    /\ offset' = Higher(0, Lower(offset + delta, MaxOffset))
    /\ UNCHANGED <<buffer, sel, search, fed>>

Feed ==
    /\ fed < MaxFeeds /\ fed' = fed + 1
    /\ (\E line \in Lines : FeedLine(line)) \/ \E row \in Row : FeedErase(row)

Select ==
    \/ \E row \in Row, c \in Col :
          startSelection(row, c) \/ updateSelection(row, c) \/ selectWordAt(row, c)
    \/ \E d \in {-1, 1} : extendSelection(d, 0) \/ extendSelection(0, d)
    \/ \E row \in Row : selectLineAt(row)
    \/ clearSelection

Search ==
    startSearch \/ searchSelection \/ (\E next \in BOOLEAN : navigateSearch(next)) \/ endSearch

Next == Feed \/ Select \/ Search \/ (\E delta \in {-1, 1} : scrollView(delta))

Spec == Init /\ [][Next]_vars

-----------------------------------------------------------------------------
(* Properties.                                                             *)

(* The selection's rows drift by what the viewport moves, both ways, and   *)
(* out of the scrollback if an end is put back into it in between.         *)
SelectionRows == (1 - MaxFeeds)..(MaxRows + MaxFeeds)

(* Types; the viewport lies in the scrollback; a search that has matches   *)
(* has one of them selected, and drawFrame() may rely on their order.      *)
TypeOK ==
    /\ Len(buffer) \in Rows..MaxRows /\ \A r \in DOMAIN buffer : buffer[r] \in Lines \cup {BlankLine}
    /\ offset \in 0..MaxOffset
    /\ sel \in [on : BOOLEAN, startRow : SelectionRows, startCol : Col,
                endRow : SelectionRows, endCol : Col]
    /\ search.active \in BOOLEAN
    /\ (search.matches = <<>>) = (search.selected = 0)
    /\ search.selected \in 0..Len(search.matches)
    /\ IsSorted(search.matches, MatchBefore)

(* drawFrame(), getSelectedText() and isSelectionAt() find the boundary of *)
(* the selection by separate passes over a row: what is painted is what a  *)
(* copy yields and what a click takes for the selection, glyph by glyph,   *)
(* and no lead is painted without its tail (comment at 2401).              *)
HighlightIsCopied ==
    \A row \in Row :
        LET b == Bounds(sel)
            glyphs == {c \in Col : ~IsSpacer(Viewport(row)[c])}
            copied == IF sel.on /\ row \in Copied(b)
                      THEN CopyFrom(b, row)..CopyTo(b, row) ELSE {}
            painted == PaintedSelected(row)
        IN  /\ painted \cap glyphs = copied \cap glyphs
            /\ {c \in glyphs : isSelectionAt(row, c)} = copied \cap glyphs
            /\ \A c \in painted : Viewport(row)[c] = "wide" => c + 1 \in painted

(* Types, and one boundary of the selection for all who look for it.       *)
SelectionIsSound == TypeOK /\ HighlightIsCopied

(* A selection over the whole viewport copies what getScreenContent()      *)
(* gives, although one cuts a row by its cells and the other by the offset *)
(* of a column in its text; only line ends may follow.                     *)
WholeScreenIsCopied ==
    LET b == Bounds(sel)
        content == getScreenContent
    IN  (/\ sel.on
         /\ IsSelectionBefore(b.startRow, b.startCol, offset + 1, 1)
         /\ IsSelectionBefore(offset + Rows, Cols, b.endRow, b.endCol))
        => /\ IsPrefix(content, getSelectedText)
           /\ \A i \in (Len(content) + 1)..Len(getSelectedText) :
                 getSelectedText[i] = "newline"

(* Searching for the link under the pointer, or for a selection of one row *)
(* without wide glyphs, finds it where it stands: getLinkAt(), the copy    *)
(* and the snapshot of the scrollback read the same characters.  (Neither  *)
(* depends on a search that is under way.)                                 *)
SearchFindsItself ==
    ~search.active =>
    /\ \A row \in Row, c \in Col :
          LET link == getLinkAt(row, c)
          IN  link # <<>> =>
                Contains(Occurrences(link),
                         [row |-> offset + row, len |-> Len(link),
                          col |-> LinkLeft(RowText(Viewport(row)), c)])
    /\ LET b == Bounds(sel)
           row == b.startRow - offset
           text == getSelectedText
       IN  (/\ sel.on /\ b.startRow = b.endRow /\ row \in Row /\ text # <<>>
            /\ \A c \in Col : ~IsSpacer(Viewport(row)[c])) =>
              Contains(Occurrences(text),
                       [row |-> b.startRow, col |-> b.startCol, len |-> Len(text)])

(* A cell of the selected match is on the screen, in the colours of the    *)
(* current match; where the selection covers that cell, in the selection's.*)
MatchOnScreen ==
    LET m == search.matches[search.selected]
    IN  \E row \in Row, c \in Col :
           /\ m.row = offset + row /\ m.col <= c /\ c < m.col + m.len
           /\ PaintedAs(row, c) =
                  IF c \in PaintedSelected(row) THEN "selection" ELSE "current"

(* syncSearchSelectionToViewportLocked(): after a search, also one for what*)
(* is selected, and after every step through its matches the selected one  *)
(* is on screen, wherever it was and although the probe leaves the         *)
(* viewport a row further down.  Not so for a match in the oldest row,     *)
(* which that row hides.                                                   *)
MatchIsShown ==
    [][(/\ search'.selected > 0 /\ sel' = sel /\ fed' = fed
        /\ search'.matches[search'.selected].row > 1
        /\ startSearch \/ searchSelection \/ \E next \in BOOLEAN : navigateSearch(next))
         => MatchOnScreen']_vars

(* The comment in feedOutput() (418-422): the selection points to the same *)
(* text after output.  So while its rows stay in the scrollback and in the *)
(* viewport, a new line leaves what is copied as it was.                   *)
Inside(s, top) == InViewport(Bounds(s).startRow, top) /\ InViewport(Bounds(s).endRow, top)
SelectionKeepsText ==
    [][(/\ sel.on /\ Inside(sel, offset) /\ Inside(sel, offset')
        /\ Len(buffer') > Len(buffer))
          => getSelectedText' = getSelectedText]_vars

=============================================================================
