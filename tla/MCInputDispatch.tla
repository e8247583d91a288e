--------------------------- MODULE MCInputDispatch ---------------------------
(* A viewport of two rows over a short scrollback.                         *)
EXTENDS InputDispatch
=============================================================================
