---------------------------- MODULE MCShellDriver ----------------------------
(* A password key, ^C and the end of the line, and what comes after the    *)
(* end of the line in one write: the newline of \r\n, or ^C.               *)
EXTENDS ShellDriver
MCInputs == {<<"key">>, <<"cancel">>, <<"enter">>,
             <<"enter", "enter">>, <<"enter", "cancel">>}
=============================================================================
