---------------------------- MODULE MCRenderLoop ----------------------------
(***************************************************************************)
(* RenderLoop with the constant of the code.                               *)
(***************************************************************************)
EXTENDS RenderLoop

(* TRAILING_FLUSH_FRAMES in napi_init.cpp.                                 *)
MCTrailing == 2
=============================================================================
