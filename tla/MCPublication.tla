---------------------------- MODULE MCPublication ----------------------------
(***************************************************************************)
(* Small instances of Publication for TLC.                                 *)
(***************************************************************************)
EXTENDS Publication, TLC

CONSTANTS p1, p2, a, w1, w2

(* A publication of a named record, one of everything stored, and one that
   names nothing, which the controller refuses. *)
MCRequests == { [kind |-> "refs", cids |-> {a}], [kind |-> "all", cids |-> {a}],
                [kind |-> "refs", cids |-> {}] }
MCRefs == { [kind |-> "refs", cids |-> {a}] }
=============================================================================
