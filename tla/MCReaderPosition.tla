-------------------------- MODULE MCReaderPosition --------------------------
(* Instances of ReaderPosition for TLC.                                    *)
EXTENDS ReaderPosition, TLC
TwoChapters == (0 :> 2) @@ (1 :> 1)
=============================================================================
