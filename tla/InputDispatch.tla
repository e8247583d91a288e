---------------------------- MODULE InputDispatch ----------------------------
(***************************************************************************)
(* Pointer and keyboard input of one TerminalHost of napi_init.cpp: the    *)
(* selection it makes in the Terminal, and what is reported to an          *)
(* application that tracks the mouse.  A left button drives two callbacks, *)
(* the mouse stream and a touch stream synthesized from it, which arrive   *)
(* one after the other in either order; output of the application and keys *)
(* come between any two of them.  A cell is told by its viewport row.  The *)
(* screen and its scrollback are libghostty's, seen through the scrollbar. *)
(***************************************************************************)
EXTENDS Integers

CONSTANTS
    Rows,           \* m_rows, the height of the viewport
    MaxScrollback   \* m_maxScrollback, rows kept above the active screen

ASSUME SizeAssumption == Rows \in Nat \ {0} /\ MaxScrollback \in Nat \ {0}

VARIABLES
    \* --- the terminal, under m_stateMutex ---
    screen,         \* GHOSTTY_TERMINAL_DATA_ACTIVE_SCREEN
    tracking,       \* one of the mouse modes 1000, 1002 and 1003 is set
    bottom,         \* scrollback rows of the primary screen
    top,            \* the scrollbar's offset on the primary screen
    sel,            \* m_selectionActive, m_selAppOwned, m_selStartRow, m_selEndRow
    \* --- the host ---
    mouse,          \* the mouse gesture: m_isMousePressed ... m_mouseForwardedToApp
    click,          \* m_lastClickCount and m_lastClickRow
    touch,          \* the touch gesture: m_isTouching ... m_touchStartTime
    shiftHeld,      \* m_shiftHeld
    \* --- the user ---
    down,           \* mouse buttons and finger that are down
    event,          \* the physical event being delivered
    due,            \* the streams that have not delivered it yet
    \* --- history ---
    app,            \* the press the application was told of, and the last row
    links           \* link activations queued since the last physical event

terminal == <<screen, tracking, bottom, top>>
vars == <<terminal, sel, mouse, click, touch, shiftHeld, down, event, due, app, links>>

Row == 0..(Rows - 1)
Buttons == {"left", "right", "finger"}
Acts == {"press", "move", "release", "cancel"}
NoEvent == [act |-> "none", button |-> "none", row |-> 0]
NoMouse == [pressed |-> FALSE, selecting |-> FALSE, dismissed |-> FALSE,
            forwarded |-> FALSE, row |-> 0]
NoTouch == [touching |-> FALSE, selecting |-> FALSE, row |-> 0]
NoSelection == [on |-> FALSE, own |-> FALSE, start |-> 0, end |-> 0]
NoApp == [down |-> FALSE, press |-> 0, row |-> 0]

TerminalTypes ==
    /\ screen \in {"primary", "alternate"} /\ tracking \in BOOLEAN
    /\ bottom \in 0..MaxScrollback /\ top \in 0..bottom
Selection == [on : BOOLEAN, own : BOOLEAN, start : Int, end : Int]
SelectionTypes == sel \in Selection
HostTypes ==
    /\ mouse \in [pressed : BOOLEAN, selecting : BOOLEAN, dismissed : BOOLEAN,
                  forwarded : BOOLEAN, row : Row]
    /\ click \in [count : 0..2, row : Row]
    /\ touch \in [touching : BOOLEAN, selecting : BOOLEAN, row : Row]
    /\ shiftHeld \in BOOLEAN
UserTypes ==
    /\ down \subseteq Buttons /\ due \subseteq {"touch", "mouse"}
    /\ event \in [act : Acts \cup {"none"}, button : Buttons \cup {"none"}, row : Row]
    /\ (event = NoEvent) <=> (due = {})
HistoryTypes == app \in [down : BOOLEAN, press : Row, row : Row] /\ links \in Nat

TypeOK == TerminalTypes /\ SelectionTypes /\ HostTypes /\ UserTypes /\ HistoryTypes

Init ==
    /\ screen = "primary" /\ tracking = FALSE
    /\ bottom = 0 /\ top = 0
    /\ sel = NoSelection
    /\ mouse = NoMouse /\ click = [count |-> 0, row |-> 0] /\ touch = NoTouch
    /\ shiftHeld = FALSE
    /\ down = {} /\ event = NoEvent /\ due = {}
    /\ app = NoApp /\ links = 0

-----------------------------------------------------------------------------
(* The terminal's operations the handlers are built from.                  *)

Lower(a, b) == IF a < b THEN a ELSE b
Higher(a, b) == IF a < b THEN b ELSE a

(* getViewportTopRowLocked(): the alternate screen has no scrollback.      *)
ViewportTop == IF screen = "alternate" THEN 0 ELSE top

startSelection(from, own) ==
    [on |-> TRUE, own |-> own,
     start |-> ViewportTop + from, end |-> ViewportTop + from]

updateSelection(s, row) ==
    IF s.on THEN [s EXCEPT !.end = ViewportTop + row] ELSE s

clearSelection == NoSelection

(* The end moves by a cell and is clamped to the viewport.                 *)
extendSelection(s, dRow) ==
    [s EXCEPT !.end = ViewportTop
                      + Higher(0, Lower(Rows - 1, s.end - ViewportTop + dRow))]

(* Within the bounds; past the last content of its row is not on it.       *)
IsSelectionAt(row, content) ==
    /\ sel.on /\ content
    /\ LET r == ViewportTop + row
       IN  Lower(sel.start, sel.end) <= r /\ r <= Higher(sel.start, sel.end)

(* selectWordAt(), selectLineAt(): they differ in columns only.            *)
selectRow(row) == startSelection(row, FALSE)

(* reportMouse() emits input when it returns TRUE.                         *)
Reports == screen = "alternate" /\ tracking
Released == IF Reports THEN NoApp ELSE app
Moved(row) == IF Reports /\ app.down THEN [app EXCEPT !.row = row] ELSE app

(* A scroll of the primary screen's viewport by a line, or by none when    *)
(* the pointer has not moved far enough.                                   *)
wheelScroll ==
    IF screen = "primary"
    THEN \E d \in {-1, 0, 1} : top' = Higher(0, Lower(bottom, top + d))
    ELSE top' = top

-----------------------------------------------------------------------------
(* The user.  One pointing device is used at a time.                       *)

Synthesized == {"left"}
Streams(b) == CASE b = "finger" -> {"touch"}
                [] b \in Synthesized -> {"touch", "mouse"}
                [] OTHER -> {"mouse"}

Happens(act, button, row, streams) ==
    /\ due = {}
    /\ event' = [act |-> act, button |-> button, row |-> row]
    /\ due' = streams
    /\ links' = 0
    /\ UNCHANGED <<terminal, sel, mouse, click, touch, shiftHeld, app>>

UserPresses(b, row) ==
    /\ b \notin down
    /\ IF b = "finger" THEN down = {} ELSE "finger" \notin down
    /\ down' = down \cup {b}
    /\ Happens("press", b, row, Streams(b))

UserMoves(b, row) ==
    /\ IF down = {} THEN b = "none" ELSE b \in down
    /\ Happens("move", b, row,
               IF "left" \in down THEN Streams("left") ELSE Streams(b))
    /\ UNCHANGED down

UserReleases(b, row) ==
    /\ b \in down
    /\ down' = down \ {b}
    /\ Happens("release", b, row, Streams(b))

(* The system takes the gesture away.                                      *)
GestureIsCancelled(b, row) ==
    /\ b \in down
    /\ down' = {}
    /\ Happens("cancel", b, row, IF "left" \in down THEN Streams("left") ELSE Streams(b))

(* One stream delivers the event.                                          *)
Delivers(stream, act) ==
    /\ stream \in due /\ event.act = act
    /\ due' = due \ {stream}
    /\ event' = IF due' = {} THEN NoEvent ELSE event
    /\ UNCHANGED <<down, shiftHeld>>

-----------------------------------------------------------------------------
(* DispatchTouchEvent().                                                   *)

IsMouseSynthesized == event.button # "finger"

(* Of a synthesized touch only the distance from its start matters, which  *)
(* is a free choice here; a long press of a finger selects from it.        *)
TouchDown ==
    /\ Delivers("touch", "press")
    /\ touch' = [touching |-> TRUE, selecting |-> FALSE,
                 row |-> IF IsMouseSynthesized THEN 0 ELSE event.row]
    /\ \E content \in BOOLEAN :
          sel' = IF sel.on /\ ~IsSelectionAt(event.row, content)
                 THEN clearSelection ELSE sel
    /\ UNCHANGED <<terminal, mouse, click, app, links>>

(* Mutant: a drag of the mouse scrolls as one of a finger does.            *)
TouchMoveScrolls ==
    /\ Delivers("touch", "move")
    /\ IF touch.touching /\ ~touch.selecting THEN wheelScroll ELSE top' = top
    /\ sel' = IF touch.selecting THEN updateSelection(sel, event.row) ELSE sel
    /\ UNCHANGED <<screen, tracking, bottom, mouse, click, touch, app, links>>

(* held: LONG_PRESS_MS have passed since the touch began.  It may be       *)
(* chosen anew at each event, for the first move of a held finger selects. *)
TouchMove ==
    /\ Delivers("touch", "move")
    /\ \E held \in BOOLEAN :
         LET long == ~IsMouseSynthesized /\ ~touch.selecting /\ held
             selects == touch.selecting \/ long
         IN
           IF ~touch.touching THEN UNCHANGED <<touch, sel, top>>
           ELSE /\ touch' = [touch EXCEPT !.selecting = selects]
                /\ sel' = IF selects
                          THEN updateSelection(
                                 IF long THEN startSelection(touch.row, FALSE) ELSE sel,
                                 event.row)
                          ELSE sel
                /\ IF ~selects /\ ~IsMouseSynthesized
                   THEN wheelScroll ELSE top' = top
    /\ UNCHANGED <<screen, tracking, bottom, mouse, click, app, links>>

(* Mutant: a synthesized tap opens the link as a real one does.            *)
TouchEndsOpens(act) ==
    /\ Delivers("touch", act)
    /\ IF touch.touching /\ ~touch.selecting /\ act = "release"
       THEN \E isLink \in {0, 1} : links' = links + isLink
       ELSE links' = links
    /\ touch' = NoTouch
    /\ UNCHANGED <<terminal, sel, mouse, click, app>>

(* UP and CANCEL of a touch that did not select.  Without a move of        *)
(* MOVE_THRESHOLD a long press selects a cell and a tap may open a link.   *)
TouchEnds(act) ==
    /\ Delivers("touch", act)
    /\ \E held, moved \in BOOLEAN :
         LET still == touch.touching /\ ~touch.selecting /\ ~moved
             long == still /\ ~IsMouseSynthesized /\ held
         IN
           /\ sel' = IF long THEN startSelection(event.row, FALSE) ELSE sel
           /\ IF still /\ ~long /\ act = "release" /\ ~IsMouseSynthesized
              THEN \E isLink \in {0, 1} : links' = links + isLink
              ELSE links' = links
    /\ touch' = NoTouch
    /\ UNCHANGED <<terminal, mouse, click, app>>

-----------------------------------------------------------------------------
(* DispatchMouseEvent().                                                   *)

(* A press is reported whatever it hits, and a left press off the          *)
(* selection dismisses it.                                                 *)
MousePress ==
    /\ Delivers("mouse", "press")
    /\ \E content \in BOOLEAN :
         LET off == sel.on /\ ~IsSelectionAt(event.row, content)
         IN  /\ mouse' = [pressed |-> TRUE, selecting |-> FALSE, row |-> event.row,
                          dismissed |-> off, forwarded |-> Reports]
             /\ sel' = IF event.button = "left" /\ off THEN clearSelection ELSE sel
    /\ app' = IF Reports THEN [down |-> TRUE, press |-> event.row, row |-> event.row]
              ELSE app
    /\ UNCHANGED <<terminal, click, touch, links>>

(* Mutant: the app is not told how the drag goes on.                       *)
MouseMoveSelectingUnreported ==
    /\ Delivers("mouse", "move")
    /\ mouse.selecting
    /\ sel' = updateSelection(sel, event.row)
    /\ UNCHANGED <<terminal, mouse, click, touch, links, app>>

(* A move while a selection is dragged.                                    *)
MouseMoveSelecting ==
    /\ Delivers("mouse", "move")
    /\ mouse.selecting
    /\ sel' = updateSelection(sel, event.row)
    /\ app' = IF mouse.forwarded THEN Moved(event.row) ELSE app
    /\ UNCHANGED <<terminal, mouse, click, touch, links>>

(* The pointer leaves the cell a button was pressed on.                    *)
LeavesPressRow == mouse.pressed /\ ~mouse.selecting /\ event.row # mouse.row

(* The left button leaves the cell it was pressed on: the application      *)
(* keeps a gesture it was told of, any other is cancelled towards it.      *)
MouseMoveStarts ==
    /\ Delivers("mouse", "move")
    /\ LeavesPressRow /\ event.button # "right"
    /\ sel' = updateSelection(startSelection(mouse.row, mouse.forwarded), event.row)
    /\ mouse' = [mouse EXCEPT !.selecting = TRUE]
    /\ app' = IF mouse.forwarded THEN Moved(event.row) ELSE Released
    /\ UNCHANGED <<terminal, click, touch, links>>

(* Any other move is reported if the application tracks the mouse; if not, *)
(* a button that left its cell selects.                                    *)
MouseMoveOther ==
    /\ Delivers("mouse", "move")
    /\ ~mouse.selecting /\ ~(LeavesPressRow /\ event.button # "right")
    /\ LET starts == ~Reports /\ LeavesPressRow
       IN  /\ mouse' = [mouse EXCEPT !.forwarded = @ \/ Reports, !.selecting = starts]
           /\ sel' = IF starts
                     THEN updateSelection(startSelection(mouse.row, FALSE), event.row)
                     ELSE sel
    /\ app' = Moved(event.row)
    /\ UNCHANGED <<terminal, click, touch, links>>

(* Mutant: the end of a drag is not reported.                              *)
MouseReleaseSelectingUnreported ==
    /\ Delivers("mouse", "release")
    /\ mouse.selecting
    /\ sel' = updateSelection(sel, event.row)
    /\ mouse' = NoMouse
    /\ UNCHANGED <<terminal, click, touch, links, app>>

MouseReleaseSelecting ==
    /\ Delivers("mouse", "release")
    /\ mouse.selecting
    /\ sel' = updateSelection(sel, event.row)
    /\ app' = IF mouse.forwarded THEN Released ELSE app
    /\ mouse' = NoMouse
    /\ UNCHANGED <<terminal, click, touch, links>>

MouseReleaseReported ==
    /\ Delivers("mouse", "release")
    /\ ~mouse.selecting /\ Reports
    /\ app' = Released
    /\ mouse' = NoMouse
    /\ UNCHANGED <<terminal, sel, click, touch, links>>

(* A click of the left button: the second one within MULTI_CLICK_MS on the *)
(* same cell selects a word, a third (2 stands for it too) the line; a     *)
(* first one may open the link under it, unless it dismissed a selection.  *)
MouseReleaseClick ==
    /\ Delivers("mouse", "release")
    /\ ~mouse.selecting /\ ~Reports
    /\ mouse' = NoMouse
    /\ IF mouse.pressed /\ event.button = "left" /\ event.row = mouse.row
       THEN \E soon \in BOOLEAN, isLink \in {0, 1} :
              LET again == click.count > 0 /\ soon /\ event.row = click.row
                  count == IF again THEN 2 ELSE 1
              IN  /\ click' = [count |-> count, row |-> event.row]
                  /\ sel' = IF count = 2 THEN selectRow(event.row) ELSE sel
                  /\ links' = IF count = 1 /\ ~mouse.dismissed THEN links + isLink ELSE links
       ELSE UNCHANGED <<click, sel, links>>
    /\ UNCHANGED <<terminal, touch, app>>

(* The application is told nothing of a cancelled gesture.                 *)
MouseCancel ==
    /\ Delivers("mouse", "cancel")
    /\ mouse' = NoMouse
    /\ UNCHANGED <<terminal, sel, click, touch, app, links>>

DispatchTouchEvent ==
    \/ TouchDown \/ TouchMove
    \/ \E act \in {"release", "cancel"} : TouchEnds(act)

DispatchMouseEvent ==
    \/ MousePress
    \/ MouseMoveSelecting \/ MouseMoveStarts \/ MouseMoveOther
    \/ MouseReleaseSelecting \/ MouseReleaseReported \/ MouseReleaseClick
    \/ MouseCancel

(* DispatchAxisEvent() on the primary screen; on the alternate one the     *)
(* lines go to the application.                                            *)
DispatchAxisEvent ==
    /\ wheelScroll
    /\ UNCHANGED <<screen, tracking, bottom, sel, mouse, click, touch,
                   shiftHeld, down, event, due, app, links>>

-----------------------------------------------------------------------------
(* Keys: DispatchKeyEvent() and HandleImeMoveCursor().                     *)

keyRest == <<terminal, mouse, click, touch, down, event, due, app, links>>

(* A key that is no arrow and no modifier, pressed with or without Shift,  *)
(* refreshes m_shiftHeld; the press of Shift itself and every key release  *)
(* return before that.  A chord for copy and paste, or a key without a     *)
(* sequence, leaves the selection.                                         *)
TypeKey(shift) ==
    /\ shiftHeld' = shift
    /\ \E sequence \in BOOLEAN : sel' = IF sequence THEN clearSelection ELSE sel
    /\ UNCHANGED keyRest

(* Select from the cursor, or extend; dRow = 0 is a horizontal arrow.      *)
SelectByArrow ==
    \E dRow \in {-1, 0, 1} :
        IF sel.on THEN sel' = extendSelection(sel, dRow)
        ELSE \E cursor \in Row :
               sel' = extendSelection(startSelection(cursor, FALSE), dRow)

(* An arrow key.  Its event may lack the modifier bit of a held Shift; the *)
(* flag is consumed when it alone made the arrow select.  Without Shift,   *)
(* or with Ctrl or Alt, the arrow is a sequence for the application.       *)
ArrowKey ==
    /\ \/ \E bit \in BOOLEAN :
            /\ bit \/ shiftHeld
            /\ SelectByArrow
            /\ shiftHeld' = (shiftHeld /\ bit)
       \/ sel' = clearSelection /\ shiftHeld' = shiftHeld
    /\ UNCHANGED keyRest

(* The same arrow when the input method delivers it.                       *)
HandleImeMoveCursor ==
    /\ IF shiftHeld THEN SelectByArrow ELSE sel' = clearSelection
    /\ UNCHANGED <<shiftHeld, keyRest>>

-----------------------------------------------------------------------------
(* The application's output: Terminal::feedOutput().                       *)

(* The selection is shifted by what the viewport moved, and dropped when   *)
(* its end has left the scrollback or its start lies behind the screen.    *)
ShiftSelection(s, delta, total) ==
    LET start == s.start + delta
        end == s.end + delta
        minValid == Higher(0, total - MaxScrollback)
    IN  IF s.on /\ end >= minValid /\ start < total
        THEN [s EXCEPT !.start = start, !.end = end] ELSE clearSelection

fedRest == <<mouse, click, touch, shiftHeld, down, event, due, links>>
Forgets(sc, tr) == IF sc = "alternate" /\ tr THEN app ELSE NoApp

(* A line scrolls the primary screen; a viewport at the bottom follows it, *)
(* another one stays on its text as long as the scrollback keeps it.       *)
FeedLine ==
    /\ screen = "primary"
    /\ IF bottom < MaxScrollback
       THEN /\ bottom' = bottom + 1
            /\ top' = IF top = bottom THEN top + 1 ELSE top
       ELSE /\ bottom' = bottom
            /\ top' = IF top = bottom THEN top ELSE Higher(0, top - 1)
    /\ sel' = ShiftSelection(sel, top' - top, bottom' + Rows)
    /\ UNCHANGED <<screen, tracking, app, fedRest>>

(* The application switches screens or the mouse modes.                    *)
FeedModes ==
    /\ screen' \in {"primary", "alternate"} /\ tracking' \in BOOLEAN
    /\ LET newTop == IF screen' = "alternate" THEN 0 ELSE top
           total == Rows + (IF screen' = "alternate" THEN 0 ELSE bottom)
       IN  sel' = ShiftSelection(sel, newTop - ViewportTop, total)
    /\ app' = Forgets(screen', tracking')
    /\ UNCHANGED <<bottom, top, fedRest>>

(* resetState() and clearMouseTracking(), called by the session; whether   *)
(* DECSTR leaves the alternate screen is libghostty's.                     *)
ResetModes ==
    /\ tracking' = FALSE /\ app' = NoApp
    /\ \/ sel' = NoSelection /\ screen' \in {screen, "primary"}
       \/ UNCHANGED <<sel, screen>>
    /\ UNCHANGED <<bottom, top, fedRest>>

User ==
    \E row \in Row :
       \/ \E b \in Buttons : \/ UserPresses(b, row)
                            \/ UserReleases(b, row)
                            \/ GestureIsCancelled(b, row)
       \/ \E b \in Buttons \cup {"none"} : UserMoves(b, row)

Keys ==
    \/ \E shift \in BOOLEAN : TypeKey(shift)
    \/ ArrowKey \/ HandleImeMoveCursor
Output == FeedLine \/ FeedModes \/ ResetModes

Next ==
    \/ User \/ DispatchTouchEvent \/ DispatchMouseEvent \/ DispatchAxisEvent
    \/ Keys \/ Output

Spec == Init /\ [][Next]_vars

-----------------------------------------------------------------------------
(* Properties.                                                             *)

(* DispatchMouseEvent(), RELEASE: once a release has been delivered the    *)
(* application does not believe that a button is down, whatever it did to  *)
(* its mouse modes during the gesture.                                     *)
ReleaseEndsPress ==
    [][(event.act = "release" /\ "mouse" \in due /\ "mouse" \notin due')
          => ~app'.down]_vars

(* DispatchMouseEvent(), MOVE: after a mouse event of a drag that the      *)
(* application paints, the local copy source covers the rows the           *)
(* application was told of, from the press to the last move.               *)
CopyMatchesApp ==
    [][(/\ "mouse" \in due /\ "mouse" \notin due'
        /\ mouse'.selecting /\ app'.down /\ sel'.on /\ sel'.own)
          => sel'.start = app'.press /\ sel'.end = app'.row]_vars

(* No pointer event of a mouse gesture makes a painted selection while the *)
(* application paints the drag itself.                                     *)
Painted(s) == s.on /\ ~s.own
PaintedOnce ==
    [][(/\ due' # due /\ due # {} /\ event.button # "finger"
        /\ app'.down /\ ~Painted(sel))
          => ~Painted(sel')]_vars

(* The two streams of one click open at most one link.                     *)
OneLinkPerClick == links <= 1

(* What the two streams leave behind is sound: types, and one link a click.*)
PointerOK == TypeOK /\ OneLinkPerClick

(* A drag an application paints is told to it and kept for the copy as one *)
(* drag: the two agree on its rows, and only one of them paints it.        *)
AppOwnsItsDrag == CopyMatchesApp /\ PaintedOnce

(* During a mouse drag the synthesized touches neither move the anchor nor *)
(* the viewport under the pointer (DispatchTouchEvent(), MOVE).            *)
DragKeepsAnchor ==
    [][(/\ mouse.selecting /\ "touch" \in due /\ "touch" \notin due'
        /\ event.act = "move" /\ sel.on)
          => sel' = sel /\ top' = top]_vars

=============================================================================
