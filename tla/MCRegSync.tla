------------------------------ MODULE MCRegSync ------------------------------
(***************************************************************************)
(* Small instances of RegSync for TLC.                                     *)
(***************************************************************************)
EXTENDS RegSync

CONSTANTS s1, s2, c1, c2
=============================================================================
