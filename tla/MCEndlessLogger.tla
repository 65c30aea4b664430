-------------------------- MODULE MCEndlessLogger --------------------------
(* A small instance of the endless logger for TLC.                         *)
EXTENDS EndlessLogger

MCRecords == AllRecords
=============================================================================
