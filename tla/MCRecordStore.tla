---------------------------- MODULE MCRecordStore ----------------------------
(***************************************************************************)
(* Small instances of RecordStore for TLC.                                 *)
(***************************************************************************)
EXTENDS RecordStore

CONSTANTS c1, c2, p1, p2, p3
=============================================================================
