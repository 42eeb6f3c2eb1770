------------------------- MODULE MCPageTurnerRadio -------------------------
(* The page turner's radio on one board, with small retry limits.          *)
EXTENDS PageTurnerRadio
=============================================================================
