--------------------------- MODULE MCReadingLedger ---------------------------
(* Two books, a few units and one full reset. *)
EXTENDS ReadingLedger, TLC

Symmetry == Permutations(Books)
=============================================================================
