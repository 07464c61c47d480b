--------------------------- MODULE MCRemoteLabels ---------------------------
(***************************************************************************)
(* A small instance of RemoteLabels for TLC: a record of this node with    *)
(* one label and a remote one with all of them.                            *)
(***************************************************************************)
EXTENDS RemoteLabels

CONSTANTS own, r1, l1, l2

MCLabelsOf == [r \in Records |-> IF r = own THEN {l1} ELSE Labels]
=============================================================================
