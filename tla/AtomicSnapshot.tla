--------------------------- MODULE AtomicSnapshot ---------------------------
(* What a snapshot on the card promises: one document that a boot reads,    *)
(* replaced in one step by the document being written, or not at all.       *)

VARIABLES
    stored,          \* the document the next boot reads
    asked            \* the document being written

\* Another document is to be written, or none any more.
Ask == UNCHANGED stored

\* The write takes effect: the point of no return.
Commit == stored' = asked

Spec == [][Ask \/ Commit]_<<stored, asked>>
=============================================================================
