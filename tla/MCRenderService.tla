--------------------------- MODULE MCRenderService ---------------------------
(***************************************************************************)
(* The instance of RenderService for TLC.                                  *)
(***************************************************************************)
EXTENDS RenderService
=============================================================================
