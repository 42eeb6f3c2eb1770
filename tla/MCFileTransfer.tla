--------------------------- MODULE MCFileTransfer ---------------------------
(* A transfer with a few sockets and names.                                *)
EXTENDS FileTransfer
=============================================================================
