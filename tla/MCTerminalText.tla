--------------------------- MODULE MCTerminalText ---------------------------
(* A row that ends with a wide glyph, and one with a link, a full stop and *)
(* space that was never written, on every short scrollback and on four     *)
(* full ones.                                                              *)
EXTENDS TerminalText
Han == <<"a", "wide", "tail">>
Link == <<"A", "dot", "blank">>
MCLines == {Han, Link}
MCStarts == UNION {[1..n -> MCLines] : n \in 2..3}
    \cup {<<Han, Link, Link, Han>>, <<Link, Han, Han, Link>>,
          <<Link, Link, Han, Han>>, <<Link, Link, Link, Link>>}
MCQueries == {<<"a">>}
=============================================================================
