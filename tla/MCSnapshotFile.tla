---------------------------- MODULE MCSnapshotFile ----------------------------
(* The statistics snapshot with a few documents.                           *)
EXTENDS SnapshotFile
=============================================================================
