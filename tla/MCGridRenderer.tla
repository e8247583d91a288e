--------------------------- MODULE MCGridRenderer ---------------------------
(***************************************************************************)
(* GridRenderer on a screen of two rows and three columns.                 *)
(***************************************************************************)
EXTENDS GridRenderer

Plain(t) == [text |-> t, span |-> 1, fg |-> "ink", bg |-> "default",
             inverse |-> FALSE, hidden |-> FALSE]
On(t) == [Plain(t) EXCEPT !.bg = "paper"]
Wide == [Plain("han") EXCEPT !.span = 2]
Spacer == [Plain(" ") EXCEPT !.span = 0]

McGrids == {
    << <<On("box"), On("M"), Plain("i")>>, <<Plain("M"), Wide, Spacer>> >>,
    << <<[Plain("M") EXCEPT !.inverse = TRUE], Plain(" "), [On("box") EXCEPT !.hidden = TRUE]>>,
       <<On("i"), Plain("box"), Spacer>> >>}

McCursors == {<<1, 1>>}
McAdvance == [mono |-> [i |-> 2, M |-> 2, han |-> 4, box |-> 2],
              sans |-> [i |-> 1, M |-> 3, han |-> 4, box |-> 2]]
=============================================================================
