-------------------------- MODULE MCFirmwareUpdate --------------------------
(* A handful of updates in a row.                                          *)
EXTENDS FirmwareUpdate
=============================================================================
