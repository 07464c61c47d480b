--------------------------- MODULE MCLocalRouting ---------------------------
(***************************************************************************)
(* Small instances of LocalRouting for TLC.                                *)
(***************************************************************************)
EXTENDS LocalRouting

CONSTANTS c1, c2, l1, l2

(* Two records that share a label, one of them with another one. *)
MCLabelsOf == [c \in Cids |-> IF c = c1 THEN Labels ELSE {l1}]
=============================================================================
