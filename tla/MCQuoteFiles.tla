---------------------------- MODULE MCQuoteFiles ----------------------------
(* The kept quotes of one book with a few names and records.               *)
EXTENDS QuoteFiles
=============================================================================
