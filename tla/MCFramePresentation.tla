------------------------- MODULE MCFramePresentation -------------------------
(* FramePresentation on a screen of two tiles.                             *)
EXTENDS FramePresentation
=============================================================================
