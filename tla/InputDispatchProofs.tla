------------------------- MODULE InputDispatchProofs -------------------------
(***************************************************************************)
(* Proofs about pointers and keys: types, one link a click, no press left  *)
(* behind in the application, one drag for the application and the copy,   *)
(* and a still anchor, for any viewport and scrollback.                    *)
(***************************************************************************)
EXTENDS InputDispatch, TLAPS

(* What a stream delivers was done with a button that is, or was, down,    *)
(* and a finger excludes every other device.                               *)
DeliveryInv ==
    /\ "finger" \in down => down = {"finger"}
    /\ event.act \in {"press", "release"} => due \subseteq Streams(event.button)
    /\ event.act = "press" => event.button \in down
    /\ event.act = "move" =>
         IF event.button = "none" THEN down = {} ELSE event.button \in down

(* At most one of the two streams of a click may still open a link.        *)
LinkInv ==
    /\ links \in {0, 1}
    /\ "mouse" \in due => links = 0
    /\ "touch" \in due /\ event.button = "finger" => links = 0

(* A gesture ends with the buttons it began with, or is about to.          *)
Ends == event.act \in {"release", "cancel"}
GestureInv ==
    /\ mouse.pressed \/ mouse.selecting
         => "left" \in down \/ "right" \in down \/ (Ends /\ "mouse" \in due)
    /\ touch.selecting => "finger" \in down \/ (Ends /\ "touch" \in due)

(* While the application believes that a button is down it hears of the    *)
(* mouse, and a drag is its own: it began where the application was told.  *)
AppInv ==
    app.down =>
        /\ Reports
        /\ mouse.selecting => mouse.forwarded
        /\ mouse.pressed => app.press = mouse.row
        /\ mouse.selecting /\ sel.on /\ sel.own => sel.start = app.press

InputInv == TypeOK /\ DeliveryInv /\ LinkInv /\ GestureInv /\ AppInv

-----------------------------------------------------------------------------
(* Rows are integers, and the recorded ones are rows of the viewport.      *)
LEMMA RowFacts ==
    /\ Row \subseteq Int /\ 0 \in Row
    /\ UserTypes => event.row \in Row
    /\ HostTypes =>
         mouse.row \in Row /\ touch.row \in Row /\ mouse.forwarded \in BOOLEAN
BY SizeAssumption DEF Row, UserTypes, HostTypes

(* The selections the handlers make have their type: none ...              *)
LEMMA ClearType == clearSelection \in Selection /\ NoSelection \in Selection
BY DEF clearSelection, NoSelection, Selection

(* startSelection() from a row of the viewport.                            *)
LEMMA StartType ==
    ASSUME TerminalTypes, NEW row \in Row, NEW own \in BOOLEAN
    PROVE  startSelection(row, own) \in Selection
<1>1. ViewportTop \in Int
  BY SizeAssumption DEF ViewportTop, TerminalTypes
<1>2. QED
  BY <1>1, RowFacts DEF startSelection, Selection

(* updateSelection() to a row of the viewport.                             *)
LEMMA UpdateType ==
    ASSUME TerminalTypes, NEW s \in Selection, NEW row \in Row
    PROVE  updateSelection(s, row) \in Selection
<1>1. ViewportTop \in Int
  BY SizeAssumption DEF ViewportTop, TerminalTypes
<1>2. QED
  BY <1>1, RowFacts DEF updateSelection, Selection

(* extendSelection() by any number of rows.                                *)
LEMMA ExtendType ==
    ASSUME TerminalTypes, NEW s \in Selection, NEW d \in Int
    PROVE  extendSelection(s, d) \in Selection
<1>1. ViewportTop \in Int
  BY SizeAssumption DEF ViewportTop, TerminalTypes
<1>2. QED
  BY <1>1, SizeAssumption DEF extendSelection, Higher, Lower, Selection

(* The shift that output makes.                                            *)
LEMMA ShiftType ==
    ASSUME NEW s \in Selection, NEW d \in Int, NEW total \in Int
    PROVE  ShiftSelection(s, d, total) \in Selection
<1>1. s.start + d \in Int /\ s.end + d \in Int
  BY DEF Selection
<1>2. [s EXCEPT !.start = s.start + d, !.end = s.end + d] \in Selection
  BY <1>1 DEF Selection
<1>3. QED
  BY <1>2, ClearType DEF ShiftSelection

(* So has what an arrow selects.                                           *)
LEMMA ArrowType ==
    ASSUME TerminalTypes, SelectionTypes, SelectByArrow
    PROVE  SelectionTypes'
<1>1. PICK d \in {-1, 0, 1} :
         IF sel.on THEN sel' = extendSelection(sel, d)
         ELSE \E cursor \in Row : sel' = extendSelection(startSelection(cursor, FALSE), d)
  BY DEF SelectByArrow
<1>2. CASE sel.on
  BY <1>1, <1>2, ExtendType DEF SelectionTypes
<1>3. CASE ~sel.on
  <2>1. PICK c \in Row : sel' = extendSelection(startSelection(c, FALSE), d)
    BY <1>1, <1>3
  <2>2. startSelection(c, FALSE) \in Selection
    BY StartType
  <2>3. d \in Int
    OBVIOUS
  <2>4. extendSelection(startSelection(c, FALSE), d) \in Selection
    BY ONLY TerminalTypes, <2>2, <2>3, ExtendType
  <2>5. QED
    BY <2>1, <2>4 DEF SelectionTypes
<1>4. QED
  BY <1>2, <1>3

(* The types, one group of variables at a time.                            *)
LEMMA StepTerminalTypes ==
    ASSUME TerminalTypes, [Next]_vars
    PROVE  TerminalTypes'
<1> USE SizeAssumption DEF TerminalTypes
<1>1. ASSUME User \/ TouchDown \/ (\E act \in {"release", "cancel"} :
              TouchEnds(act)) \/ DispatchMouseEvent \/ Keys \/ UNCHANGED vars
      PROVE  UNCHANGED <<screen, tracking, bottom, top>>
  BY <1>1 DEF User, DispatchMouseEvent, Keys, UserPresses, UserReleases,
         GestureIsCancelled, UserMoves, TouchDown, TouchEnds, MousePress,
         MouseMoveSelecting, MouseMoveStarts, MouseMoveOther,
         MouseReleaseSelecting, MouseReleaseReported, MouseReleaseClick,
         MouseCancel, TypeKey, ArrowKey, HandleImeMoveCursor, Happens,
         terminal, Delivers, keyRest, SelectByArrow, vars
<1>2. CASE TouchMove
  <2>1. top' = top \/ wheelScroll
    BY <1>2 DEF TouchMove
  <2>2. top' \in 0..bottom
    BY <2>1 DEF wheelScroll, Higher, Lower
  <2>3. QED
    BY <1>2, <2>2 DEF TouchMove
<1>3. CASE DispatchAxisEvent
  BY <1>3 DEF DispatchAxisEvent, wheelScroll, Higher, Lower
<1>4. CASE FeedLine
  BY <1>4 DEF FeedLine, Higher, Lower
<1>5. CASE FeedModes
  BY <1>5 DEF FeedModes
<1>6. CASE ResetModes
  BY <1>6 DEF ResetModes, Higher, Lower
<1>7. QED
  BY <1>1, <1>2, <1>3, <1>4, <1>5, <1>6
     DEF Next, User, Keys, Output, DispatchTouchEvent, DispatchMouseEvent

(* The selection.                                                          *)
LEMMA StepSelectionTypes ==
    ASSUME TerminalTypes, HostTypes, UserTypes, SelectionTypes, [Next]_vars
    PROVE  SelectionTypes'
<1> USE DEF SelectionTypes
<1>1. ASSUME User \/ MouseReleaseReported \/ MouseCancel \/ DispatchAxisEvent
              \/ UNCHANGED vars
      PROVE  UNCHANGED sel
  BY <1>1 DEF User, UserPresses, UserReleases, GestureIsCancelled, UserMoves,
         MouseReleaseReported, MouseCancel, DispatchAxisEvent, Happens,
         terminal, Delivers, wheelScroll, vars
<1>2. CASE TouchDown
  <2>1. sel' = clearSelection \/ sel' = sel
    BY <1>2 DEF TouchDown
  <2>2. QED
    BY <2>1, ClearType, StartType, UpdateType, ExtendType
<1>3. CASE TouchMove
  <2>1. \/ sel' = sel \/ sel' = updateSelection(sel, event.row)
        \/ sel' = updateSelection(startSelection(touch.row, FALSE), event.row)
    BY <1>3 DEF TouchMove
  <2>2. QED
    BY <2>1, ClearType, StartType, UpdateType, ExtendType, RowFacts
<1>4. ASSUME NEW act \in {"release", "cancel"}, TouchEnds(act)
      PROVE  SelectionTypes'
  <2>1. sel' = startSelection(event.row, FALSE) \/ sel' = sel
    BY <1>4 DEF TouchEnds
  <2>2. QED
    BY <2>1, ClearType, StartType, UpdateType, ExtendType, RowFacts
<1>5. CASE MousePress
  <2>1. sel' = clearSelection \/ sel' = sel
    BY <1>5 DEF MousePress
  <2>2. QED
    BY <2>1, ClearType, StartType, UpdateType, ExtendType
<1>6. CASE MouseMoveSelecting
  <2>1. sel' = updateSelection(sel, event.row)
    BY <1>6 DEF MouseMoveSelecting
  <2>2. QED
    BY <2>1, ClearType, StartType, UpdateType, ExtendType, RowFacts
<1>7. CASE MouseMoveStarts
  <2>1. sel' = updateSelection(startSelection(mouse.row, mouse.forwarded), event.row)
        /\ mouse.forwarded \in BOOLEAN
    BY <1>7 DEF MouseMoveStarts, HostTypes
  <2>2. QED
    BY <2>1, ClearType, StartType, UpdateType, ExtendType, RowFacts
<1>8. CASE MouseMoveOther
  <2>1. \/ sel' = updateSelection(startSelection(mouse.row, FALSE), event.row)
        \/ sel' = sel
    BY <1>8 DEF MouseMoveOther
  <2>2. QED
    BY <2>1, ClearType, StartType, UpdateType, ExtendType, RowFacts
<1>9. CASE MouseReleaseSelecting
  <2>1. sel' = updateSelection(sel, event.row)
    BY <1>9 DEF MouseReleaseSelecting
  <2>2. QED
    BY <2>1, ClearType, StartType, UpdateType, ExtendType, RowFacts
<1>10. CASE MouseReleaseClick
  <2>1. sel' = startSelection(event.row, FALSE) \/ sel' = sel
    BY <1>10 DEF MouseReleaseClick, selectRow
  <2>2. QED
    BY <2>1, ClearType, StartType, UpdateType, ExtendType, RowFacts
<1>11. ASSUME NEW shift \in BOOLEAN, TypeKey(shift)
      PROVE  SelectionTypes'
  <2>1. sel' = clearSelection \/ sel' = sel
    BY <1>11 DEF TypeKey, keyRest
  <2>2. QED
    BY <2>1, ClearType, StartType, UpdateType, ExtendType
<1>12. CASE ArrowKey
  BY <1>12, ArrowType, ClearType DEF ArrowKey
<1>13. CASE HandleImeMoveCursor
  BY <1>13, ArrowType, ClearType DEF HandleImeMoveCursor
<1>14. CASE FeedLine
  <2>1. sel' = ShiftSelection(sel, top' - top, bottom' + Rows) /\ TerminalTypes'
    BY <1>14, StepTerminalTypes DEF FeedLine
  <2>2. top' - top \in Int /\ bottom' + Rows \in Int
    BY <2>1, SizeAssumption DEF TerminalTypes
  <2>3. QED
    BY <2>1, <2>2, ShiftType
<1>15. CASE FeedModes
  <2>1. PICK newTop \in Int, total \in Int : sel' = ShiftSelection(sel, newTop - ViewportTop, total)
    BY <1>15, SizeAssumption DEF FeedModes, TerminalTypes
  <2>2. newTop - ViewportTop \in Int
    BY DEF ViewportTop, TerminalTypes
  <2>3. QED
    BY <2>1, <2>2, ShiftType
<1>16. CASE ResetModes
  <2>1. sel' = clearSelection \/ sel' = sel
    BY <1>16 DEF ResetModes, clearSelection
  <2>2. QED
    BY <2>1, ClearType, StartType, UpdateType, ExtendType
<1>17. QED
  BY <1>1, <1>2, <1>3, <1>4, <1>5, <1>6, <1>7, <1>8, <1>9, <1>10, <1>11,
     <1>12, <1>13, <1>14, <1>15, <1>16
     DEF Next, User, Keys, Output, DispatchTouchEvent, DispatchMouseEvent

(* The gestures of the host.                                               *)
LEMMA StepHostTypes ==
    ASSUME UserTypes, HostTypes, [Next]_vars
    PROVE  HostTypes'
<1> USE RowFacts DEF HostTypes
<1>1. ASSUME User \/ MouseMoveSelecting \/ DispatchAxisEvent \/
              HandleImeMoveCursor \/ Output \/ UNCHANGED vars
      PROVE  UNCHANGED <<mouse, click, touch, shiftHeld>>
  BY <1>1 DEF User, Output, UserPresses, UserReleases, GestureIsCancelled,
         UserMoves, MouseMoveSelecting, DispatchAxisEvent,
         HandleImeMoveCursor, FeedLine, FeedModes, ResetModes, Happens,
         terminal, Delivers, wheelScroll, keyRest, SelectByArrow, fedRest,
         vars
<1>2. CASE TouchDown
  BY <1>2 DEF TouchDown, Delivers
<1>3. CASE TouchMove
  BY <1>3 DEF TouchMove, Delivers, wheelScroll
<1>4. ASSUME NEW act \in {"release", "cancel"}, TouchEnds(act)
      PROVE  HostTypes'
  BY <1>4 DEF TouchEnds, Delivers, NoTouch
<1>5. CASE MousePress
  BY <1>5 DEF MousePress, Delivers, Reports
<1>6. CASE MouseMoveStarts
  BY <1>6 DEF MouseMoveStarts, Delivers
<1>7. CASE MouseMoveOther
  BY <1>7 DEF MouseMoveOther, Delivers, Reports
<1>8. CASE MouseReleaseSelecting
  BY <1>8 DEF MouseReleaseSelecting, Delivers, NoMouse
<1>9. CASE MouseReleaseReported
  BY <1>9 DEF MouseReleaseReported, Delivers, NoMouse
<1>10. CASE MouseReleaseClick
  BY <1>10 DEF MouseReleaseClick, Delivers, NoMouse
<1>11. CASE MouseCancel
  BY <1>11 DEF MouseCancel, Delivers, NoMouse
<1>12. ASSUME NEW shift \in BOOLEAN, TypeKey(shift)
      PROVE  HostTypes'
  BY <1>12 DEF TypeKey, keyRest
<1>13. CASE ArrowKey
  BY <1>13 DEF ArrowKey, keyRest, SelectByArrow
<1>14. QED
  BY <1>1, <1>2, <1>3, <1>4, <1>5, <1>6, <1>7, <1>8, <1>9, <1>10, <1>11,
     <1>12, <1>13
     DEF Next, User, Keys, Output, DispatchTouchEvent, DispatchMouseEvent

(* The user's events.                                                      *)
LEMMA StepUserTypes ==
    ASSUME UserTypes, [Next]_vars
    PROVE  UserTypes'
<1> USE SizeAssumption DEF UserTypes
<1>1. ASSUME DispatchAxisEvent \/ Keys \/ Output \/ UNCHANGED vars
      PROVE  UNCHANGED <<down, due, event>>
  BY <1>1 DEF Keys, Output, DispatchAxisEvent, TypeKey, ArrowKey,
         HandleImeMoveCursor, FeedLine, FeedModes, ResetModes, wheelScroll,
         keyRest, terminal, SelectByArrow, fedRest, vars
<1>2. ASSUME NEW b \in Buttons, NEW row \in Row, UserPresses(b, row)
      PROVE  UserTypes'
  BY <1>2 DEF UserPresses, Happens, Row, Acts, Buttons, NoEvent, Streams, Synthesized
<1>3. ASSUME NEW b \in Buttons, NEW row \in Row, UserReleases(b, row)
      PROVE  UserTypes'
  BY <1>3 DEF UserReleases, Happens, Row, Acts, Buttons, NoEvent, Streams, Synthesized
<1>4. ASSUME NEW b \in Buttons, NEW row \in Row, GestureIsCancelled(b, row)
      PROVE  UserTypes'
  BY <1>4 DEF GestureIsCancelled, Happens, Row, Acts, Buttons, NoEvent, Streams,
     Synthesized
<1>5. ASSUME NEW b \in Buttons \cup {"none"}, NEW row \in Row, UserMoves(b, row)
      PROVE  UserTypes'
  BY <1>5 DEF UserMoves, Happens, Row, Acts, Buttons, NoEvent, Streams, Synthesized
<1>6. CASE TouchDown
  BY <1>6 DEF TouchDown, Delivers, Row, Acts, Buttons, NoEvent
<1>7. CASE TouchMove
  BY <1>7 DEF TouchMove, Delivers, wheelScroll, Row, Acts, Buttons, NoEvent
<1>8. ASSUME NEW act \in {"release", "cancel"}, TouchEnds(act)
      PROVE  UserTypes'
  BY <1>8 DEF TouchEnds, Delivers, Row, Acts, Buttons, NoEvent
<1>9. CASE MousePress
  BY <1>9 DEF MousePress, Delivers, Row, Acts, Buttons, NoEvent
<1>10. CASE MouseMoveSelecting
  BY <1>10 DEF MouseMoveSelecting, Delivers, Row, Acts, Buttons, NoEvent
<1>11. CASE MouseMoveStarts
  BY <1>11 DEF MouseMoveStarts, Delivers, Row, Acts, Buttons, NoEvent
<1>12. CASE MouseMoveOther
  BY <1>12 DEF MouseMoveOther, Delivers, Row, Acts, Buttons, NoEvent
<1>13. CASE MouseReleaseSelecting
  BY <1>13 DEF MouseReleaseSelecting, Delivers, Row, Acts, Buttons, NoEvent
<1>14. CASE MouseReleaseReported
  BY <1>14 DEF MouseReleaseReported, Delivers, Row, Acts, Buttons, NoEvent
<1>15. CASE MouseReleaseClick
  BY <1>15 DEF MouseReleaseClick, Delivers, Row, Acts, Buttons, NoEvent
<1>16. CASE MouseCancel
  BY <1>16 DEF MouseCancel, Delivers, Row, Acts, Buttons, NoEvent
<1>17. QED
  BY <1>1, <1>2, <1>3, <1>4, <1>5, <1>6, <1>7, <1>8, <1>9, <1>10, <1>11,
     <1>12, <1>13, <1>14, <1>15, <1>16
     DEF Next, User, Keys, Output, DispatchTouchEvent, DispatchMouseEvent

(* What the application was told.                                          *)
LEMMA StepHistoryTypes ==
    ASSUME UserTypes, HostTypes, HistoryTypes, [Next]_vars
    PROVE  HistoryTypes'
<1> USE SizeAssumption DEF HistoryTypes, UserTypes, HostTypes
<1>1. ASSUME TouchDown \/ TouchMove \/ MouseCancel \/ DispatchAxisEvent \/
              Keys \/ FeedLine \/ UNCHANGED vars
      PROVE  UNCHANGED <<app, links>>
  BY <1>1 DEF Keys, TouchDown, TouchMove, MouseCancel, DispatchAxisEvent, TypeKey,
         ArrowKey, HandleImeMoveCursor, FeedLine, terminal, Delivers,
         wheelScroll, keyRest, SelectByArrow, fedRest, vars
<1>2. ASSUME NEW b \in Buttons, NEW row \in Row, UserPresses(b, row)
      PROVE  HistoryTypes'
  BY <1>2 DEF UserPresses, Happens, Row, Released, Moved, NoApp, Forgets
<1>3. ASSUME NEW b \in Buttons, NEW row \in Row, UserReleases(b, row)
      PROVE  HistoryTypes'
  BY <1>3 DEF UserReleases, Happens, Row, Released, Moved, NoApp, Forgets
<1>4. ASSUME NEW b \in Buttons, NEW row \in Row, GestureIsCancelled(b, row)
      PROVE  HistoryTypes'
  BY <1>4 DEF GestureIsCancelled, Happens, Row, Released, Moved, NoApp, Forgets
<1>5. ASSUME NEW b \in Buttons \cup {"none"}, NEW row \in Row, UserMoves(b, row)
      PROVE  HistoryTypes'
  BY <1>5 DEF UserMoves, Happens, Row, Released, Moved, NoApp, Forgets
<1>6. ASSUME NEW act \in {"release", "cancel"}, TouchEnds(act)
      PROVE  HistoryTypes'
  BY <1>6 DEF TouchEnds, Row, Released, Moved, NoApp, Forgets
<1>7. CASE MousePress
  BY <1>7 DEF MousePress, Row, Released, Moved, NoApp, Forgets
<1>8. CASE MouseMoveSelecting
  BY <1>8 DEF MouseMoveSelecting, Row, Released, Moved, NoApp, Forgets
<1>9. CASE MouseMoveStarts
  BY <1>9 DEF MouseMoveStarts, Row, Released, Moved, NoApp, Forgets
<1>10. CASE MouseMoveOther
  BY <1>10 DEF MouseMoveOther, Row, Released, Moved, NoApp, Forgets
<1>11. CASE MouseReleaseSelecting
  BY <1>11 DEF MouseReleaseSelecting, Row, Released, Moved, NoApp, Forgets
<1>12. CASE MouseReleaseReported
  BY <1>12 DEF MouseReleaseReported, Row, Released, Moved, NoApp, Forgets
<1>13. CASE MouseReleaseClick
  BY <1>13 DEF MouseReleaseClick, Row, Released, Moved, NoApp, Forgets
<1>14. CASE FeedModes
  BY <1>14 DEF FeedModes, fedRest, Row, Released, Moved, NoApp, Forgets
<1>15. CASE ResetModes
  BY <1>15 DEF ResetModes, fedRest, Row, Released, Moved, NoApp, Forgets
<1>16. QED
  BY <1>1, <1>2, <1>3, <1>4, <1>5, <1>6, <1>7, <1>8, <1>9, <1>10, <1>11,
     <1>12, <1>13, <1>14, <1>15
     DEF Next, User, Keys, Output, DispatchTouchEvent, DispatchMouseEvent

(* A finger excludes other devices, and an event knows its button.         *)
LEMMA StepDelivery ==
    ASSUME UserTypes, DeliveryInv, [Next]_vars
    PROVE  DeliveryInv'
<1> USE DEF UserTypes, DeliveryInv
<1>1. ASSUME DispatchAxisEvent \/ Keys \/ Output \/ UNCHANGED vars
      PROVE  UNCHANGED <<down, event, due>>
  BY <1>1 DEF Keys, Output, DispatchAxisEvent, TypeKey, ArrowKey,
         HandleImeMoveCursor, FeedLine, FeedModes, ResetModes, wheelScroll,
         keyRest, terminal, SelectByArrow, fedRest, vars
<1>2. ASSUME NEW b \in Buttons, NEW row \in Row, UserPresses(b, row)
      PROVE  DeliveryInv'
  BY <1>2 DEF UserPresses, Happens, NoEvent, Buttons, Streams, Synthesized
<1>3. ASSUME NEW b \in Buttons, NEW row \in Row, UserReleases(b, row)
      PROVE  DeliveryInv'
  BY <1>3 DEF UserReleases, Happens, NoEvent, Buttons, Streams, Synthesized
<1>4. ASSUME NEW b \in Buttons, NEW row \in Row, GestureIsCancelled(b, row)
      PROVE  DeliveryInv'
  BY <1>4 DEF GestureIsCancelled, Happens, NoEvent, Buttons, Streams, Synthesized
<1>5. ASSUME NEW b \in Buttons \cup {"none"}, NEW row \in Row, UserMoves(b, row)
      PROVE  DeliveryInv'
  BY <1>5 DEF UserMoves, Happens, NoEvent, Buttons, Streams, Synthesized
<1>6. CASE TouchDown
  BY <1>6 DEF TouchDown, Delivers, NoEvent, Buttons
<1>7. CASE TouchMove
  BY <1>7 DEF TouchMove, Delivers, wheelScroll, NoEvent, Buttons
<1>8. ASSUME NEW act \in {"release", "cancel"}, TouchEnds(act)
      PROVE  DeliveryInv'
  BY <1>8 DEF TouchEnds, Delivers, NoEvent, Buttons
<1>9. CASE MousePress
  BY <1>9 DEF MousePress, Delivers, NoEvent, Buttons
<1>10. CASE MouseMoveSelecting
  BY <1>10 DEF MouseMoveSelecting, Delivers, NoEvent, Buttons
<1>11. CASE MouseMoveStarts
  BY <1>11 DEF MouseMoveStarts, Delivers, NoEvent, Buttons
<1>12. CASE MouseMoveOther
  BY <1>12 DEF MouseMoveOther, Delivers, NoEvent, Buttons
<1>13. CASE MouseReleaseSelecting
  BY <1>13 DEF MouseReleaseSelecting, Delivers, NoEvent, Buttons
<1>14. CASE MouseReleaseReported
  BY <1>14 DEF MouseReleaseReported, Delivers, NoEvent, Buttons
<1>15. CASE MouseReleaseClick
  BY <1>15 DEF MouseReleaseClick, Delivers, NoEvent, Buttons
<1>16. CASE MouseCancel
  BY <1>16 DEF MouseCancel, Delivers, NoEvent, Buttons
<1>17. QED
  BY <1>1, <1>2, <1>3, <1>4, <1>5, <1>6, <1>7, <1>8, <1>9, <1>10, <1>11,
     <1>12, <1>13, <1>14, <1>15, <1>16
     DEF Next, User, Keys, Output, DispatchTouchEvent, DispatchMouseEvent

(* At most one of a click's streams may still open a link.                *)
LEMMA StepLink ==
    ASSUME UserTypes, DeliveryInv, LinkInv, [Next]_vars
    PROVE  LinkInv'
<1> USE DEF UserTypes, DeliveryInv, LinkInv
<1>1. ASSUME DispatchAxisEvent \/ Keys \/ Output \/ UNCHANGED vars
      PROVE  UNCHANGED <<links, event, due>>
  BY <1>1 DEF Keys, Output, DispatchAxisEvent, TypeKey, ArrowKey,
         HandleImeMoveCursor, FeedLine, FeedModes, ResetModes, wheelScroll,
         keyRest, terminal, SelectByArrow, fedRest, vars
<1>2. ASSUME NEW b \in Buttons, NEW row \in Row, UserPresses(b, row)
      PROVE  LinkInv'
  BY <1>2 DEF UserPresses, Happens, NoEvent, Buttons
<1>3. ASSUME NEW b \in Buttons, NEW row \in Row, UserReleases(b, row)
      PROVE  LinkInv'
  BY <1>3 DEF UserReleases, Happens, NoEvent, Buttons
<1>4. ASSUME NEW b \in Buttons, NEW row \in Row, GestureIsCancelled(b, row)
      PROVE  LinkInv'
  BY <1>4 DEF GestureIsCancelled, Happens, NoEvent, Buttons
<1>5. ASSUME NEW b \in Buttons \cup {"none"}, NEW row \in Row, UserMoves(b, row)
      PROVE  LinkInv'
  BY <1>5 DEF UserMoves, Happens, NoEvent, Buttons
<1>6. CASE TouchDown
  BY <1>6 DEF TouchDown, Delivers, NoEvent, Buttons
<1>7. CASE TouchMove
  BY <1>7 DEF TouchMove, Delivers, wheelScroll, NoEvent, Buttons
<1>8. ASSUME NEW act \in {"release", "cancel"}, TouchEnds(act)
      PROVE  LinkInv'
  BY <1>8 DEF TouchEnds, Delivers, NoEvent, Buttons, Streams, Synthesized,
     IsMouseSynthesized
<1>9. CASE MousePress
  BY <1>9 DEF MousePress, Delivers, NoEvent, Buttons
<1>10. CASE MouseMoveSelecting
  BY <1>10 DEF MouseMoveSelecting, Delivers, NoEvent, Buttons
<1>11. CASE MouseMoveStarts
  BY <1>11 DEF MouseMoveStarts, Delivers, NoEvent, Buttons
<1>12. CASE MouseMoveOther
  BY <1>12 DEF MouseMoveOther, Delivers, NoEvent, Buttons
<1>13. CASE MouseReleaseSelecting
  BY <1>13 DEF MouseReleaseSelecting, Delivers, NoEvent, Buttons
<1>14. CASE MouseReleaseReported
  BY <1>14 DEF MouseReleaseReported, Delivers, NoEvent, Buttons
<1>15. CASE MouseReleaseClick
  BY <1>15 DEF MouseReleaseClick, Delivers, NoEvent, Buttons, Streams, Synthesized
<1>16. CASE MouseCancel
  BY <1>16 DEF MouseCancel, Delivers, NoEvent, Buttons
<1>17. QED
  BY <1>1, <1>2, <1>3, <1>4, <1>5, <1>6, <1>7, <1>8, <1>9, <1>10, <1>11,
     <1>12, <1>13, <1>14, <1>15, <1>16
     DEF Next, User, Keys, Output, DispatchTouchEvent, DispatchMouseEvent

(* A gesture ends with the buttons it began with.                          *)
LEMMA StepGesture ==
    ASSUME UserTypes, HostTypes, DeliveryInv, GestureInv, [Next]_vars
    PROVE  GestureInv'
<1> USE DEF UserTypes, HostTypes, DeliveryInv, GestureInv, Ends
<1>1. ASSUME DispatchAxisEvent \/ Keys \/ Output \/ UNCHANGED vars
      PROVE  UNCHANGED <<mouse, touch, down, event, due>>
  BY <1>1 DEF Keys, Output, DispatchAxisEvent, TypeKey, ArrowKey,
         HandleImeMoveCursor, FeedLine, FeedModes, ResetModes, wheelScroll,
         keyRest, terminal, SelectByArrow, fedRest, vars
<1>2. ASSUME NEW b \in Buttons, NEW row \in Row, UserPresses(b, row)
      PROVE  GestureInv'
  BY <1>2 DEF UserPresses, Happens, NoEvent, Buttons, Streams, Synthesized
<1>3. ASSUME NEW b \in Buttons, NEW row \in Row, UserReleases(b, row)
      PROVE  GestureInv'
  BY <1>3 DEF UserReleases, Happens, NoEvent, Buttons, Streams, Synthesized
<1>4. ASSUME NEW b \in Buttons, NEW row \in Row, GestureIsCancelled(b, row)
      PROVE  GestureInv'
  BY <1>4 DEF GestureIsCancelled, Happens, NoEvent, Buttons, Streams, Synthesized
<1>5. ASSUME NEW b \in Buttons \cup {"none"}, NEW row \in Row, UserMoves(b, row)
      PROVE  GestureInv'
  BY <1>5 DEF UserMoves, Happens, NoEvent, Buttons, Streams, Synthesized
<1>6. CASE TouchDown
  BY <1>6 DEF TouchDown, Delivers, NoEvent, Buttons
<1>7. CASE TouchMove
  BY <1>7 DEF TouchMove, Delivers, wheelScroll, NoEvent, Buttons, IsMouseSynthesized
<1>8. ASSUME NEW act \in {"release", "cancel"}, TouchEnds(act)
      PROVE  GestureInv'
  BY <1>8 DEF TouchEnds, Delivers, NoEvent, Buttons, NoTouch
<1>9. CASE MousePress
  BY <1>9 DEF MousePress, Delivers, NoEvent, Buttons, Streams, Synthesized
<1>10. CASE MouseMoveSelecting
  BY <1>10 DEF MouseMoveSelecting, Delivers, NoEvent, Buttons, LeavesPressRow
<1>11. CASE MouseMoveStarts
  BY <1>11 DEF MouseMoveStarts, Delivers, NoEvent, Buttons, LeavesPressRow
<1>12. CASE MouseMoveOther
  BY <1>12 DEF MouseMoveOther, Delivers, NoEvent, Buttons, LeavesPressRow
<1>13. CASE MouseReleaseSelecting
  BY <1>13 DEF MouseReleaseSelecting, Delivers, NoEvent, Buttons, NoMouse
<1>14. CASE MouseReleaseReported
  BY <1>14 DEF MouseReleaseReported, Delivers, NoEvent, Buttons, NoMouse
<1>15. CASE MouseReleaseClick
  BY <1>15 DEF MouseReleaseClick, Delivers, NoEvent, Buttons, NoMouse
<1>16. CASE MouseCancel
  BY <1>16 DEF MouseCancel, Delivers, NoEvent, Buttons, NoMouse
<1>17. QED
  BY <1>1, <1>2, <1>3, <1>4, <1>5, <1>6, <1>7, <1>8, <1>9, <1>10, <1>11,
     <1>12, <1>13, <1>14, <1>15, <1>16
     DEF Next, User, Keys, Output, DispatchTouchEvent, DispatchMouseEvent

(* A step keeps the anchor of a copy source of the application, or leaves  *)
(* no such selection.                                                      *)
AnchorKept == sel'.on /\ sel'.own => sel.on /\ sel.own /\ sel'.start = sel.start

(* What the handlers make of the selection, but for the start of a drag.   *)
LEMMA OperationsKeepAnchor ==
    ASSUME SelectionTypes,
           \/ sel' = sel \/ sel' = clearSelection \/ SelectByArrow
           \/ \E row \in Row : sel' = updateSelection(sel, row)
           \/ \E from \in Row : sel' = startSelection(from, FALSE)
           \/ \E from, row \in Row :
                 sel' = updateSelection(startSelection(from, FALSE), row)
    PROVE  AnchorKept
<1> USE DEF SelectionTypes, Selection, AnchorKept, startSelection
<1>1. CASE sel' = sel \/ sel' = clearSelection
  BY <1>1 DEF clearSelection, NoSelection
<1>2. CASE SelectByArrow
  BY <1>2 DEF SelectByArrow, extendSelection
<1>3. CASE \E row \in Row : sel' = updateSelection(sel, row)
  BY <1>3 DEF updateSelection
<1>4. CASE \E from \in Row : sel' = startSelection(from, FALSE)
  BY <1>4
<1>5. CASE \E from, row \in Row : sel' = updateSelection(startSelection(from, FALSE), row)
  <2>1. PICK from \in Row, row \in Row :
           sel' = updateSelection(startSelection(from, FALSE), row)
    BY <1>5
  <2>2. sel'.own = FALSE
    BY <2>1 DEF updateSelection
  <2>3. QED
    BY <2>2
<1>6. QED
  BY <1>1, <1>2, <1>3, <1>4, <1>5

(* While the application believes that a button is down, only the start of *)
(* a drag may move the anchor.                                             *)
LEMMA StepAnchor ==
    ASSUME TypeOK, AppInv, [Next]_vars
    PROVE  MouseMoveStarts \/ (app'.down => AnchorKept)
<1> USE OperationsKeepAnchor, RowFacts DEF TypeOK
<1>1. CASE User \/ MouseReleaseReported \/ MouseCancel \/ DispatchAxisEvent \/ UNCHANGED vars
  <2>1. UNCHANGED sel
    BY <1>1 DEF User, UserPresses, UserReleases, GestureIsCancelled, UserMoves, Happens,
         MouseReleaseReported, MouseCancel, DispatchAxisEvent, vars
  <2>2. QED
    BY <2>1
<1>2. CASE DispatchTouchEvent
  <2>1. CASE TouchDown
    BY <2>1 DEF TouchDown
  <2>2. CASE TouchMove
    BY <2>2 DEF TouchMove
  <2>3. ASSUME NEW act \in {"release", "cancel"}, TouchEnds(act)
        PROVE  AnchorKept
    BY <2>3 DEF TouchEnds
  <2>4. QED
    BY <1>2, <2>1, <2>2, <2>3 DEF DispatchTouchEvent
<1>3. CASE MousePress
  BY <1>3 DEF MousePress
<1>4. CASE MouseMoveSelecting \/ MouseReleaseSelecting
  BY <1>4 DEF MouseMoveSelecting, MouseReleaseSelecting
<1>5. CASE MouseMoveOther
  BY <1>5 DEF MouseMoveOther
<1>6. CASE MouseReleaseClick
  BY <1>6 DEF MouseReleaseClick, selectRow
<1>7. CASE Keys
  BY <1>7 DEF Keys, TypeKey, ArrowKey, HandleImeMoveCursor
<1>8. CASE FeedLine
  BY <1>8 DEF FeedLine, AppInv, Reports
<1>9. CASE FeedModes
  <2>1. SUFFICES ASSUME app'.down
                 PROVE  AnchorKept
    OBVIOUS
  <2>2. screen' = "alternate" /\ screen = "alternate"
    BY <1>9, <2>1 DEF FeedModes, Forgets, NoApp, AppInv, Reports
  <2>3. PICK total \in Int : sel' = ShiftSelection(sel, 0, total)
    BY <1>9, <2>2, SizeAssumption DEF FeedModes, ViewportTop
  <2>4. QED
    BY <2>3 DEF ShiftSelection, clearSelection, NoSelection, AnchorKept,
         SelectionTypes, Selection
<1>10. CASE ResetModes
  BY <1>10 DEF ResetModes, clearSelection
<1>11. QED
  BY <1>1, <1>2, <1>3, <1>4, <1>5, <1>6, <1>7, <1>8, <1>9, <1>10
     DEF Next, DispatchMouseEvent, Output

(* A report of a move is one of the gesture that is going on.              *)
LEMMA MovedKeeps ==
    ASSUME HistoryTypes, NEW row \in Row
    PROVE  Moved(row).down = app.down /\ Moved(row).press = app.press
BY DEF Moved, HistoryTypes

(* The application and the host agree on a drag the application paints.    *)
LEMMA StepApp ==
    ASSUME TypeOK, AppInv, [Next]_vars
    PROVE  AppInv'
<1> USE RowFacts DEF TypeOK, AppInv, Reports
<1>1. ASSUME User \/ DispatchTouchEvent \/ DispatchAxisEvent \/ Keys \/ FeedLine \/ UNCHANGED vars
      PROVE  UNCHANGED <<app, mouse, screen, tracking>> /\ ~MouseMoveStarts
  BY <1>1 DEF User, UserPresses, UserReleases, GestureIsCancelled, UserMoves, Happens,
       DispatchTouchEvent, TouchDown, TouchMove, TouchEnds, DispatchAxisEvent,
       Keys, TypeKey, ArrowKey, HandleImeMoveCursor, keyRest, FeedLine, fedRest,
       terminal, vars, MouseMoveStarts, LeavesPressRow, HostTypes
<1>2. CASE MousePress
  BY <1>2 DEF MousePress, terminal
<1>3. CASE MouseMoveSelecting
  <2>1. UNCHANGED <<mouse, screen, tracking>> /\ ~MouseMoveStarts
    BY <1>3 DEF MouseMoveSelecting, terminal, MouseMoveStarts, LeavesPressRow
  <2>2. app'.down => app.down /\ app'.press = app.press
    BY <1>3, MovedKeeps DEF MouseMoveSelecting
  <2>3. QED
    BY <2>1, <2>2, StepAnchor DEF AnchorKept
<1>4. CASE MouseMoveStarts
  <2>1. SUFFICES ASSUME app'.down
                 PROVE  AppInv'
    OBVIOUS
  <2>2. mouse.forwarded /\ app.down /\ app'.press = app.press
    BY <1>4, <2>1, MovedKeeps DEF MouseMoveStarts, Released, NoApp
  <2>3. mouse.pressed /\ app.press = mouse.row /\ screen = "alternate"
    BY <1>4, <2>2 DEF MouseMoveStarts, LeavesPressRow
  <2>4. /\ UNCHANGED <<screen, tracking>>
        /\ mouse'.forwarded = mouse.forwarded /\ mouse'.row = mouse.row
    BY <1>4 DEF MouseMoveStarts, terminal, HostTypes
  <2>5. sel'.start = mouse.row
    BY <1>4, <2>3, RowFacts DEF MouseMoveStarts, startSelection, updateSelection, ViewportTop
  <2>6. QED
    BY <2>2, <2>3, <2>4, <2>5
<1>5. CASE MouseMoveOther
  <2>1. SUFFICES ASSUME app'.down
                 PROVE  AppInv'
    OBVIOUS
  <2>2. app.down /\ app'.press = app.press
    BY <1>5, <2>1, MovedKeeps DEF MouseMoveOther
  <2>3. /\ UNCHANGED <<screen, tracking>> /\ ~mouse'.selecting
        /\ mouse'.pressed = mouse.pressed /\ mouse'.row = mouse.row
    BY <1>5, <2>2 DEF MouseMoveOther, terminal, HostTypes
  <2>4. QED
    BY <2>2, <2>3
<1>6. CASE MouseReleaseSelecting \/ MouseReleaseReported \/ MouseReleaseClick \/ MouseCancel
  <2>1. mouse' = NoMouse /\ UNCHANGED <<screen, tracking>> /\ app' \in {app, NoApp}
    BY <1>6 DEF MouseReleaseSelecting, MouseReleaseReported, MouseReleaseClick, MouseCancel,
         Released, terminal
  <2>2. QED
    BY <2>1 DEF NoMouse, NoApp
<1>7. CASE FeedModes
  <2>1. SUFFICES ASSUME app'.down
                 PROVE  AppInv'
    OBVIOUS
  <2>2. UNCHANGED <<app, mouse, screen, tracking>>
    BY <1>7, <2>1 DEF FeedModes, Forgets, NoApp, fedRest, TerminalTypes
  <2>3. ~MouseMoveStarts
    BY <1>7 DEF FeedModes, fedRest, MouseMoveStarts, LeavesPressRow, HostTypes
  <2>4. QED
    BY <2>2, <2>3, StepAnchor DEF AnchorKept
<1>8. CASE ResetModes
  BY <1>8 DEF ResetModes, NoApp
<1>9. QED
  <2>1. CASE User \/ DispatchTouchEvent \/ DispatchAxisEvent \/ Keys \/ FeedLine \/ UNCHANGED vars
    BY <2>1, <1>1, StepAnchor DEF AnchorKept
  <2>2. QED
    BY <2>1, <1>2, <1>3, <1>4, <1>5, <1>6, <1>7, <1>8 DEF Next, DispatchMouseEvent, Output

-----------------------------------------------------------------------------
(* The program starts in the invariant.                                    *)
LEMMA InitInput == Init => InputInv
<1> SUFFICES ASSUME Init
             PROVE  InputInv
  OBVIOUS
<1>1. TerminalTypes /\ SelectionTypes
  <2>1. screen = "primary" /\ tracking = FALSE /\ bottom = 0 /\ top = 0 /\ sel = NoSelection
    BY DEF Init
  <2>2. screen \in {"primary", "alternate"} /\ tracking \in BOOLEAN
    BY <2>1, Zenon
  <2>3. bottom \in 0..MaxScrollback /\ top \in 0..bottom
    BY <2>1, SizeAssumption
  <2>4. QED
    BY <2>1, <2>2, <2>3, ClearType DEF SelectionTypes, TerminalTypes
<1>2. HostTypes
  <2>1. mouse = NoMouse /\ touch = NoTouch /\ click = [count |-> 0, row |-> 0] /\ shiftHeld = FALSE
    BY DEF Init
  <2>2. 0 \in Row
    BY RowFacts
  <2>3. shiftHeld \in BOOLEAN
    BY <2>1, Zenon
  <2>4. NoMouse \in [pressed : BOOLEAN, selecting : BOOLEAN, dismissed : BOOLEAN,
                    forwarded : BOOLEAN, row : Row]
    BY <2>2 DEF NoMouse
  <2>5. NoTouch \in [touching : BOOLEAN, selecting : BOOLEAN, row : Row]
    BY <2>2 DEF NoTouch
  <2>6. click \in [count : 0..2, row : Row]
    BY <2>1, <2>2
  <2>7. QED
    BY <2>1, <2>3, <2>4, <2>5, <2>6 DEF HostTypes
<1>3. UserTypes /\ HistoryTypes
  BY RowFacts DEF Init, UserTypes, HistoryTypes, NoEvent, NoApp
<1>4. DeliveryInv /\ LinkInv /\ GestureInv /\ AppInv
  BY DEF Init, DeliveryInv, LinkInv, GestureInv, AppInv, NoMouse, NoTouch, NoEvent, NoApp
<1>5. QED
  BY <1>1, <1>2, <1>3, <1>4 DEF InputInv, TypeOK

(* Every step keeps each part of it.                                       *)
LEMMA NextInput == InputInv /\ [Next]_vars => InputInv'
BY StepTerminalTypes, StepSelectionTypes, StepHostTypes, StepUserTypes, StepHistoryTypes,
   StepDelivery, StepLink, StepGesture, StepApp
   DEF InputInv, TypeOK

(* The invariant of the input handlers holds in every reachable state.     *)
THEOREM InputInvariant == Spec => []InputInv
BY InitInput, NextInput, PTL DEF Spec

(* However the two streams of a click interleave, with output and keys in  *)
(* between, they leave a state of the right types and open at most one     *)
(* link (the IsMouseSynthesized tests of DispatchTouchEvent()).            *)
THEOREM PointersAreSound == Spec => []PointerOK
<1>1. InputInv => PointerOK
  BY DEF InputInv, LinkInv, PointerOK, OneLinkPerClick
<1>2. QED
  BY <1>1, InputInvariant, PTL

-----------------------------------------------------------------------------
(* After a delivered release the application believes no button is down,   *)
(* whatever it did to its modes meanwhile (DispatchMouseEvent(), RELEASE). *)
THEOREM ReleasesEndPresses == Spec => ReleaseEndsPress
<1>1. ASSUME InputInv, [Next]_vars, event.act = "release", "mouse" \in due, "mouse" \notin due'
      PROVE  ~app'.down
  <2>1. MouseReleaseSelecting \/ MouseReleaseReported \/ MouseReleaseClick
    BY <1>1 DEF Next, User, UserPresses, UserReleases, GestureIsCancelled, UserMoves, Happens,
         DispatchTouchEvent, TouchDown, TouchMove, TouchEnds, DispatchMouseEvent,
         MousePress, MouseMoveSelecting, MouseMoveStarts, MouseMoveOther, MouseCancel,
         Delivers, DispatchAxisEvent, Keys, TypeKey, ArrowKey, HandleImeMoveCursor, keyRest,
         Output, FeedLine, FeedModes, ResetModes, fedRest, vars
  <2>2. QED
    BY <1>1, <2>1 DEF MouseReleaseSelecting, MouseReleaseReported, MouseReleaseClick,
         Released, NoApp, InputInv, AppInv
<1>2. QED
  BY <1>1, InputInvariant, PTL DEF Spec, ReleaseEndsPress

(* A synthesized touch of a drag leaves its anchor and the viewport alone  *)
(* (DispatchTouchEvent(), MOVE).                                           *)
THEOREM DragsKeepTheirAnchor == Spec => DragKeepsAnchor
<1>1. ASSUME InputInv, [Next]_vars, mouse.selecting, "touch" \in due, "touch" \notin due',
             event.act = "move"
      PROVE  sel' = sel /\ top' = top
  <2>1. TouchMove
    BY <1>1 DEF Next, User, UserPresses, UserReleases, GestureIsCancelled, UserMoves, Happens,
         DispatchTouchEvent, TouchDown, TouchEnds, DispatchMouseEvent,
         MousePress, MouseMoveSelecting, MouseMoveStarts, MouseMoveOther, MouseCancel,
         MouseReleaseSelecting, MouseReleaseReported, MouseReleaseClick,
         Delivers, DispatchAxisEvent, Keys, TypeKey, ArrowKey, HandleImeMoveCursor, keyRest,
         Output, FeedLine, FeedModes, ResetModes, fedRest, vars
  <2>2. "finger" \notin down /\ IsMouseSynthesized
    BY <1>1 DEF InputInv, GestureInv, DeliveryInv, Ends, IsMouseSynthesized
  <2>3. ~touch.selecting
    BY <1>1, <2>2 DEF InputInv, GestureInv, Ends
  <2>4. QED
    BY <2>1, <2>2, <2>3 DEF TouchMove
<1>2. QED
  BY <1>1, InputInvariant, PTL DEF Spec, DragKeepsAnchor

-----------------------------------------------------------------------------
(* A drag the application paints: what is kept for the copy is what the    *)
(* application was told of.                                                *)
LEMMA StepCopyMatches ==
    ASSUME InputInv, [Next]_vars, "mouse" \in due, "mouse" \notin due',
           mouse'.selecting, app'.down, sel'.on, sel'.own
    PROVE  sel'.start = app'.press /\ sel'.end = app'.row
<1>1. MouseMoveSelecting \/ MouseMoveStarts \/ MouseMoveOther
  <2>1. DispatchMouseEvent
    BY DEF Next, User, UserPresses, UserReleases, GestureIsCancelled, UserMoves, Happens,
         DispatchTouchEvent, TouchDown, TouchMove, TouchEnds,
         Delivers, DispatchAxisEvent, Keys, TypeKey, ArrowKey, HandleImeMoveCursor, keyRest,
         Output, FeedLine, FeedModes, ResetModes, fedRest, vars
  <2>2. ~MousePress
    BY DEF MousePress
  <2>3. ~(MouseReleaseSelecting \/ MouseReleaseReported \/ MouseReleaseClick \/ MouseCancel)
    BY DEF MouseReleaseSelecting, MouseReleaseReported, MouseReleaseClick, MouseCancel, NoMouse
  <2>4. QED
    BY <2>1, <2>2, <2>3 DEF DispatchMouseEvent
<1>2. AppInv'
  BY StepApp DEF InputInv
<1>3. sel'.start = app'.press
  BY <1>2 DEF AppInv
<1>4. screen = "alternate" /\ UNCHANGED <<screen, tracking>> /\ Reports
  <2>1. UNCHANGED <<screen, tracking>>
    BY <1>1 DEF MouseMoveSelecting, MouseMoveStarts, MouseMoveOther, terminal
  <2>2. QED
    BY <1>2, <2>1 DEF AppInv, Reports
<1>5. ~MouseMoveOther
  BY <1>4 DEF MouseMoveOther, InputInv, TypeOK, HostTypes
<1>6. mouse.forwarded
  BY <1>1, <1>5, <1>2 DEF AppInv, MouseMoveSelecting, MouseMoveStarts, InputInv, TypeOK, HostTypes
<1>7. app' = Moved(event.row) /\ app.down
  BY <1>1, <1>5, <1>6, MovedKeeps, RowFacts
     DEF MouseMoveSelecting, MouseMoveStarts, InputInv, TypeOK
<1>8. app'.row = event.row
  BY <1>4, <1>7 DEF Moved, InputInv, TypeOK, HistoryTypes
<1>9. sel'.end = event.row
  BY <1>1, <1>4, <1>5, RowFacts
     DEF MouseMoveSelecting, MouseMoveStarts, updateSelection, startSelection, ViewportTop,
         InputInv, TypeOK, SelectionTypes, Selection
<1>10. QED
  BY <1>3, <1>8, <1>9

(* The host paints no selection of its own while the application paints.   *)
LEMMA StepPaintedOnce ==
    ASSUME InputInv, [Next]_vars, due' # due, due # {}, event.button # "finger",
           app'.down, ~Painted(sel)
    PROVE  ~Painted(sel')
<1> USE DEF InputInv, TypeOK
<1>1. DispatchTouchEvent \/ DispatchMouseEvent
  BY DEF Next, User, UserPresses, UserReleases, GestureIsCancelled, UserMoves, Happens,
       DispatchAxisEvent, Keys, TypeKey, ArrowKey, HandleImeMoveCursor, keyRest,
       Output, FeedLine, FeedModes, ResetModes, fedRest, vars
<1>2. \A row \in Row : Painted(updateSelection(sel, row)) = Painted(sel)
  BY DEF Painted, updateSelection, SelectionTypes, Selection
<1>3. ~Painted(clearSelection)
  BY DEF Painted, clearSelection, NoSelection
<1>4. CASE TouchDown \/ (\E act \in {"release", "cancel"} : TouchEnds(act))
  BY <1>3, <1>4 DEF TouchDown, TouchEnds, IsMouseSynthesized
<1>5. CASE TouchMove
  <2>1. "finger" \notin down /\ IsMouseSynthesized
    BY <1>5 DEF TouchMove, Delivers, DeliveryInv, IsMouseSynthesized
  <2>2. ~touch.selecting
    BY <1>5, <2>1 DEF TouchMove, Delivers, GestureInv, Ends
  <2>3. sel' = sel
    BY <1>5, <2>1, <2>2 DEF TouchMove
  <2>4. QED
    BY <2>3
<1>6. CASE MousePress \/ MouseCancel \/ MouseReleaseReported
  BY <1>3, <1>6 DEF MousePress, MouseCancel, MouseReleaseReported
<1>7. CASE MouseMoveSelecting \/ MouseReleaseSelecting
  BY <1>2, <1>7, RowFacts DEF MouseMoveSelecting, MouseReleaseSelecting
<1>8. CASE MouseMoveStarts
  <2>1. mouse.forwarded
    BY <1>8 DEF MouseMoveStarts, Released, NoApp, AppInv
  <2>2. QED
    BY <1>8, <2>1 DEF MouseMoveStarts, startSelection, updateSelection, Painted
<1>9. CASE MouseMoveOther \/ MouseReleaseClick
  <2>1. app.down
    BY <1>9, MovedKeeps, RowFacts DEF MouseMoveOther, MouseReleaseClick
  <2>2. Reports
    BY <2>1 DEF AppInv
  <2>3. sel' = sel
    BY <1>9, <2>2 DEF MouseMoveOther, MouseReleaseClick
  <2>4. QED
    BY <2>3
<1>10. QED
  BY <1>1, <1>4, <1>5, <1>6, <1>7, <1>8, <1>9 DEF DispatchTouchEvent, DispatchMouseEvent

(* A drag that an application paints is its own: the copy source covers    *)
(* the rows it was told of, and the host paints no second selection        *)
(* (DispatchMouseEvent(), MOVE and RELEASE).                               *)
THEOREM ApplicationsOwnTheirDrags == Spec => AppOwnsItsDrag
<1>1. InputInv /\ [Next]_vars =>
        [(/\ "mouse" \in due /\ "mouse" \notin due'
          /\ mouse'.selecting /\ app'.down /\ sel'.on /\ sel'.own)
            => sel'.start = app'.press /\ sel'.end = app'.row]_vars
  BY StepCopyMatches
<1>2. InputInv /\ [Next]_vars =>
        [(/\ due' # due /\ due # {} /\ event.button # "finger"
          /\ app'.down /\ ~Painted(sel))
            => ~Painted(sel')]_vars
  BY StepPaintedOnce
<1>3. Spec => CopyMatchesApp
  BY <1>1, InputInvariant, PTL DEF Spec, CopyMatchesApp
<1>4. Spec => PaintedOnce
  BY <1>2, InputInvariant, PTL DEF Spec, PaintedOnce
<1>5. QED
  BY <1>3, <1>4, PTL DEF AppOwnsItsDrag

=============================================================================
