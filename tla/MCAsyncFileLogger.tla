------------------------- MODULE MCAsyncFileLogger -------------------------
(* A small instance of the logger for TLC.                                 *)
EXTENDS AsyncFileLogger

MCRecords == AllRecords
=============================================================================
