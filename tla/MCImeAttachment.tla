--------------------------- MODULE MCImeAttachment ---------------------------
(* Two tabs that take the input method from each other.                    *)
EXTENDS ImeAttachment, TLC
CONSTANTS h1, h2
MCHosts == {h1, h2}
Tabs == Permutations(MCHosts)
=============================================================================
